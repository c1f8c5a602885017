---------------------------- MODULE MCNativeOperator ----------------------------
(* One class of every way they behave: what an object does depends on these *)
(* fields of its record only.  "tall" and "same" have the same width.       *)
EXTENDS NativeOperator

Matrix(x, cols) == [x |-> x, cols |-> cols]
MCData == {Matrix("tall", 2), Matrix("same", 2), Matrix("wide", 3)}

Params(size, step, method, reference) ==
    [size |-> size, step |-> step, method |-> method, reference |-> reference]
MCSettings == {Params(2, 0, "iqr", 0), Params(1, 2, "mad", 0), Params(0, 0, "iqr", 0),
               Params(2, -1, "iqr", 0), Params(2, 0, "iqr", 2)}

Behaviour(c) ==
    <<c.needs = {}, c.shape, c.loses, c.width, c.ready, c.resolves, c.settable, c.axis>>
MCClasses == {CHOOSE c \in AllNative : Behaviour(c) = b : b \in {Behaviour(c) : c \in AllNative}}
MCAlignments == {CrossCorrelationAlignment}
=============================================================================
