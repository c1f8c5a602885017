------------------------------ MODULE Pipeline ------------------------------
(***************************************************************************)
(* n4m_pipeline_* and the Pipeline class behind it (c_api_pipeline.cpp,    *)
(* core/pipeline.hpp, core/pipeline.cpp): an ordered list of preprocessing *)
(* operators, fitted together on one matrix and then applied to others.    *)
(*                                                                         *)
(* Callers are threads, each with the context of its own the library asks  *)
(* for; they may share handles.  Data are abstracted to provenance: a      *)
(* matrix in the middle of a chain is its source and the operators it went *)
(* through, an OperatorState the matrix its statistics were estimated on.  *)
(* Every code but OK and NOT_FITTED is ERROR.                              *)
(***************************************************************************)
EXTENDS Integers, Sequences

CONSTANTS Handles,      \* n4m_pipeline_t objects
          Callers,      \* threads
          Kinds,        \* the operator kinds callers add
          Datasets,     \* matrices, up to their width
          Widths,       \* numbers of columns
          MaxEntries    \* bound: operators per pipeline

(* operator_kind_is_valid *)
AllKinds == {"IDENTITY", "CENTER", "AUTOSCALE", "PARETO_SCALE", "SNV", "MSC", "EMSC",
             "DETREND_POLY", "SAVGOL_SMOOTH", "SAVGOL_DERIVATIVE", "NORRIS_WILLIAMS",
             "ASLS_BASELINE", "OSC", "EPO", "WAVELET_DENOISE", "FINITE_DIFFERENCE",
             "WHITTAKER", "FCK"}

ASSUME PipelineAssumption == /\ Kinds \subseteq AllKinds
                             /\ Widths \subseteq Nat \ {0}
                             /\ MaxEntries \in Nat

VARIABLES live,         \* handles created and not destroyed
          entries,      \* entries_ of each pipeline: the kinds, in order
          states,       \* states_
          n_features,   \* n_features_
          fitted,       \* fitted_
          call,         \* the call each caller is in, with its pipeline and X
          step,         \* turns its loop has done
          current,      \* the fitted operators its X went through so far
          out,          \* the output matrix or array of its last call
          status        \* what its last call returned; OK during a call

objVars == <<live, entries, states, n_features, fitted>>
callVars == <<call, step, current, out, status>>
plVars == <<objVars, callVars>>

Matrix == Datasets \X Widths
Cols(x) == x[2]
Untouched == [data |-> <<>>, through |-> <<>>]      \* an output matrix nothing was written to

(* The two switches over the operator kinds. *)
FitImplements == AllKinds \ {"FINITE_DIFFERENCE", "WHITTAKER", "FCK"}
TransformUnsmoothed == {"IDENTITY",     \* mutant: no case for Norris-Williams smoothing
             "CENTER", "AUTOSCALE", "PARETO_SCALE", "SNV", "MSC", "EMSC", "DETREND_POLY",
             "SAVGOL_SMOOTH", "SAVGOL_DERIVATIVE", "ASLS_BASELINE", "WAVELET_DENOISE", "OSC", "EPO"}
TransformImplements == {"IDENTITY", "CENTER", "AUTOSCALE", "PARETO_SCALE", "SNV", "MSC", "EMSC",
             "DETREND_POLY", "SAVGOL_SMOOTH", "SAVGOL_DERIVATIVE", "ASLS_BASELINE",
             "NORRIS_WILLIAMS", "WAVELET_DENOISE", "OSC", "EPO"}
requires_y(kinds) == \E i \in DOMAIN kinds : kinds[i] \in {"OSC", "EPO"}

(* The size of state.scale after fit ... *)
FittedScale(kind, cols) ==
    CASE kind \in {"EMSC", "DETREND_POLY"} -> 1
      [] kind = "WAVELET_DENOISE" -> 2
      [] kind \in {"ASLS_BASELINE", "NORRIS_WILLIAMS"} -> 3
      [] kind \in {"SAVGOL_SMOOTH", "SAVGOL_DERIVATIVE"} -> 4
      [] kind \in {"CENTER", "AUTOSCALE", "PARETO_SCALE", "OSC", "EPO"} -> cols
      [] OTHER -> 0
(* ... and the states transform can apply to a matrix of so many columns. *)
Applicable(state, cols) ==
    /\ state.kind \in TransformImplements
    /\ CASE state.kind \in {"EMSC", "DETREND_POLY"} -> state.scale > 0
         [] state.kind = "WAVELET_DENOISE" -> state.scale = 2
         [] state.kind \in {"ASLS_BASELINE", "NORRIS_WILLIAMS"} -> state.scale = 3
         [] state.kind \in {"SAVGOL_SMOOTH", "SAVGOL_DERIVATIVE"} -> state.scale = 4
         [] state.kind \in {"CENTER", "AUTOSCALE", "PARETO_SCALE", "OSC", "EPO"} ->
               state.scale = cols
         [] OTHER -> TRUE

OperatorState == [kind : AllKinds, scale : Nat, trained_on : Matrix, after : Nat]
FittedState(kind, x, n) ==
    [kind |-> kind, scale |-> FittedScale(kind, Cols(x)), trained_on |-> x, after |-> n]

Idle == <<>>
Calls == {Idle} \cup ({"check", "fit", "transform"} \X Handles \X Matrix)
In(c, name) == call[c] # Idle /\ call[c][1] = name
Pipe(c) == call[c][2]
Arg(c) == call[c][3]

Init == /\ live = {}
        /\ entries = [h \in Handles |-> <<>>] /\ states = [h \in Handles |-> <<>>]
        /\ n_features = [h \in Handles |-> 0] /\ fitted = [h \in Handles |-> FALSE]
        /\ call = [c \in Callers |-> Idle]
        /\ step = [c \in Callers |-> 0] /\ current = [c \in Callers |-> <<>>]
        /\ out = [c \in Callers |-> Untouched] /\ status = [c \in Callers |-> "OK"]

-----------------------------------------------------------------------------
(* What callers owe the library: a handle that one of them changes is used *)
(* by nobody else; any number may transform with it or clone it at once.   *)
Unused(h) == \A c \in Callers : call[c] # Idle => Pipe(c) # h
Fitting(c) == In(c, "check") \/ In(c, "fit")
Unchanging(h) == \A c \in Callers : Fitting(c) => Pipe(c) # h

Returns(c, code, value) ==
    /\ call' = [call EXCEPT ![c] = Idle]
    /\ step' = [step EXCEPT ![c] = 0] /\ current' = [current EXCEPT ![c] = <<>>]
    /\ out' = [out EXCEPT ![c] = value] /\ status' = [status EXCEPT ![c] = code]

Enters(c, name, h, x) ==
    /\ call' = [call EXCEPT ![c] = <<name, h, x>>]
    /\ out' = [out EXCEPT ![c] = Untouched] /\ status' = [status EXCEPT ![c] = "OK"]
    /\ UNCHANGED <<step, current>>

Assign(h, e, s, n, f) == /\ entries' = [entries EXCEPT ![h] = e]
                         /\ states' = [states EXCEPT ![h] = s]
                         /\ n_features' = [n_features EXCEPT ![h] = n]
                         /\ fitted' = [fitted EXCEPT ![h] = f]

(* Null pointers, an unknown kind, a bad parameter count, no memory for the *)
(* new object or entry: the call returns before it changed anything.       *)
Refused(c) == call[c] = Idle /\ Returns(c, "ERROR", Untouched) /\ UNCHANGED objVars

Create(c, h) == /\ call[c] = Idle /\ h \notin live /\ live' = live \cup {h}
                /\ Assign(h, <<>>, <<>>, 0, FALSE)
                /\ Returns(c, "OK", Untouched)

Destroy(c, h) == /\ call[c] = Idle /\ h \in live /\ Unused(h) /\ live' = live \ {h}
                 /\ Assign(h, <<>>, <<>>, 0, FALSE)
                 /\ Returns(c, "OK", Untouched)

Clone(c, src, dst) ==
    /\ call[c] = Idle /\ src \in live /\ Unchanging(src) /\ dst \notin live
    /\ live' = live \cup {dst}
    /\ Assign(dst, entries[src], states[src], n_features[src], fitted[src])
    /\ Returns(c, "OK", Untouched)

AddOperator(c, h, kind) ==
    /\ call[c] = Idle /\ h \in live /\ Unused(h) /\ Len(entries[h]) < MaxEntries
    /\ Assign(h, Append(entries[h], kind), <<>>, n_features[h], FALSE)
    /\ Returns(c, "OK", Untouched) /\ UNCHANGED live

(* The old fit is gone before anything is checked. *)
BeginFitAppending(c, h, x) ==           \* mutant: fitted_ is reset, states_ is not cleared
    /\ call[c] = Idle /\ h \in live /\ Unused(h) /\ Enters(c, "check", h, x)
    /\ Assign(h, entries[h], states[h], n_features[h], FALSE) /\ UNCHANGED live
BeginFitKeeping(c, h, x) ==             \* mutant: fitted_ and states_ survive until success
    /\ call[c] = Idle /\ h \in live /\ Unused(h) /\ Enters(c, "check", h, x) /\ UNCHANGED objVars
BeginFit(c, h, x) ==
    /\ call[c] = Idle /\ h \in live /\ Unused(h) /\ Enters(c, "check", h, x)
    /\ Assign(h, entries[h], <<>>, n_features[h], FALSE) /\ UNCHANGED live

(* views says whether X passes its checks, y whether Y passes the ones only *)
(* a supervised operator asks for.                                         *)
CheckFit(c, views, y) ==
    /\ In(c, "check") /\ UNCHANGED objVars
    /\ IF views /\ (requires_y(entries[Pipe(c)]) => y)
       THEN Enters(c, "fit", Pipe(c), Arg(c))
       ELSE Returns(c, "ERROR", Untouched)

(* One turn of fit's loop: parse the parameters, estimate the statistics,  *)
(* apply.  Any of them may fail; the states of the turns before go too.    *)
FitOperatorUnchained(c) ==              \* mutant: current.swap(next) is missing
    LET h == Pipe(c) IN
    /\ In(c, "fit") /\ step[c] < Len(entries[h])
    /\ entries[h][step[c] + 1] \in FitImplements
    /\ states' = [states EXCEPT ![h] = Append(@,
          FittedState(entries[h][step[c] + 1], Arg(c), Len(current[c])))]
    /\ step' = [step EXCEPT ![c] = @ + 1]
    /\ UNCHANGED <<live, entries, n_features, fitted, call, current, out, status>>
FitOperator(c) ==
    LET h == Pipe(c)
        state == FittedState(entries[h][step[c] + 1], Arg(c), Len(current[c])) IN
    /\ In(c, "fit") /\ step[c] < Len(entries[h])
    /\ \/ /\ entries[h][step[c] + 1] \in FitImplements
          /\ states' = [states EXCEPT ![h] = Append(@, state)]
          /\ current' = [current EXCEPT ![c] = Append(@, state)]
          /\ step' = [step EXCEPT ![c] = @ + 1]
          /\ UNCHANGED <<live, entries, n_features, fitted, call, out, status>>
       \/ /\ Assign(h, entries[h], <<>>, n_features[h], FALSE) /\ UNCHANGED live
          /\ Returns(c, "ERROR", Untouched)

EndFit(c) ==
    LET h == Pipe(c) IN
    /\ In(c, "fit") /\ step[c] = Len(entries[h])
    /\ Assign(h, entries[h], states[h], Cols(Arg(c)), TRUE) /\ UNCHANGED live
    /\ Returns(c, "OK", Untouched)

BeginTransformAnyWidth(c, h, x, views) ==   \* mutant: X.cols is not compared
    /\ call[c] = Idle /\ h \in live /\ Unchanging(h) /\ UNCHANGED objVars
    /\ IF fitted[h] /\ views THEN Enters(c, "transform", h, x)
                             ELSE Returns(c, "ERROR", Untouched)
(* transform, and transform_alloc on an array it makes of X's shape: views *)
(* says whether X and the output pass the checks but the one on the width.  *)
BeginTransform(c, h, x, views) ==
    /\ call[c] = Idle /\ h \in live /\ Unchanging(h) /\ UNCHANGED objVars
    /\ \/ ~fitted[h] /\ Returns(c, "NOT_FITTED", Untouched)
       \/ fitted[h] /\ views /\ Cols(x) = n_features[h] /\ Enters(c, "transform", h, x)
       \/ fitted[h] /\ ~(views /\ Cols(x) = n_features[h]) /\ Returns(c, "ERROR", Untouched)

TransformOperatorInPlace(c) ==          \* mutant: every turn writes the output
    LET h == Pipe(c) IN
    /\ In(c, "transform") /\ step[c] < Len(states[h]) /\ UNCHANGED objVars
    /\ \/ /\ current' = [current EXCEPT ![c] = Append(@, states[h][step[c] + 1])]
          /\ step' = [step EXCEPT ![c] = @ + 1]
          /\ out' = [out EXCEPT ![c] = [data |-> Arg(c), through |-> current'[c]]]
          /\ UNCHANGED <<call, status>>
       \/ Returns(c, "ERROR", out[c])
TransformOperator(c) ==
    LET h == Pipe(c)
        state == states[h][step[c] + 1] IN
    /\ In(c, "transform") /\ step[c] < Len(states[h]) /\ UNCHANGED objVars
    /\ \/ /\ Applicable(state, Cols(Arg(c)))
          /\ current' = [current EXCEPT ![c] = Append(@, state)]
          /\ step' = [step EXCEPT ![c] = @ + 1]
          /\ UNCHANGED <<call, out, status>>
       \/ Returns(c, "ERROR", Untouched)

EndTransform(c) ==
    /\ In(c, "transform") /\ step[c] = Len(states[Pipe(c)]) /\ UNCHANGED objVars
    /\ Returns(c, "OK", [data |-> Arg(c), through |-> current[c]])

(* An exception anywhere in a call: fit leaves the states it had pushed. *)
Throws(c) == call[c] # Idle /\ Returns(c, "ERROR", Untouched) /\ UNCHANGED objVars

Loops(c) == \/ \E views, y \in BOOLEAN : CheckFit(c, views, y)
            \/ FitOperator(c) \/ EndFit(c) \/ TransformOperator(c) \/ EndTransform(c)

ManageHandle(c, h) == \/ Create(c, h) \/ Destroy(c, h)
                      \/ \E src \in Handles : Clone(c, src, h)
                      \/ \E kind \in Kinds : AddOperator(c, h, kind)

BeginCall(c, h, x) == \/ BeginFit(c, h, x)
                      \/ \E views \in BOOLEAN : BeginTransform(c, h, x, views)

Next == \E c \in Callers : \/ Refused(c) \/ Loops(c) \/ Throws(c)
                           \/ \E h \in Handles : \/ ManageHandle(c, h)
                                                 \/ \E x \in Matrix : BeginCall(c, h, x)

Spec == Init /\ [][Next]_plVars
-----------------------------------------------------------------------------
Output == [data : Matrix, through : Seq(OperatorState)] \cup {Untouched}
Codes == {"OK", "NOT_FITTED", "ERROR"}

ObjectTypes == /\ live \subseteq Handles
               /\ entries \in [Handles -> Seq(AllKinds)]
               /\ states \in [Handles -> Seq(OperatorState)]
               /\ \A h \in Handles : Len(states[h]) <= Len(entries[h])
               /\ n_features \in [Handles -> Nat]
               /\ fitted \in [Handles -> BOOLEAN]
CallTypes == /\ call \in [Callers -> Calls]
             /\ step \in [Callers -> Nat]
             /\ current \in [Callers -> Seq(OperatorState)]
             /\ out \in [Callers -> Output]
             /\ status \in [Callers -> Codes]
TypeOK == ObjectTypes /\ CallTypes

(* A refit that fails, at its first check or at its last operator, does not *)
(* leave the old fit in service.                                           *)
FailedFitForgets ==
    [][\A c \in Callers : Fitting(c) /\ call'[c] = Idle /\ status'[c] # "OK"
                            => ~fitted'[Pipe(c)]]_plVars

(* An error, after however many operators were applied, leaves the caller's *)
(* output as it was.                                                       *)
ErrorWritesNothing == \A c \in Callers : out[c] # Untouched => call[c] = Idle /\ status[c] = "OK"

(* What fit can produce, transform can apply: the two switches, three      *)
(* hundred lines apart, agree on the kinds and on the size of each state,  *)
(* so the INTERNAL errors of transform's own checks are never returned.    *)
FittedStatesApply ==
    \A h \in Handles : fitted[h] =>
       \A i \in DOMAIN states[h] : Applicable(states[h][i], n_features[h])

-----------------------------------------------------------------------------
(***************************************************************************)
(* Why a transform is always through one whole fit.                        *)
(***************************************************************************)
FittedSoFar(s, kinds, x, n) ==
    Len(s) = n /\ \A i \in 1 .. n : /\ kinds[i] \in FitImplements
                                    /\ s[i] = FittedState(kinds[i], x, i - 1)

(* A fitted pipeline holds the states of its present entries, all trained  *)
(* on one matrix of its width.                                             *)
Trained(h) == fitted[h] =>
    \E x \in Matrix : /\ n_features[h] = Cols(x)
                      /\ FittedSoFar(states[h], entries[h], x, Len(entries[h]))
TrainedInOneGo == \A h \in Handles : Trained(h)

Exclusive ==
    \A c, d \in Callers : c # d /\ Fitting(c) /\ call[d] # Idle => Pipe(c) # Pipe(d)

CallInv(c) ==
    /\ call[c] # Idle => Pipe(c) \in live /\ out[c] = Untouched
    /\ ~In(c, "fit") /\ ~In(c, "transform") => step[c] = 0 /\ current[c] = <<>>
    /\ Fitting(c) => ~fitted[Pipe(c)]
    /\ In(c, "check") => states[Pipe(c)] = <<>>
    /\ In(c, "fit") =>
         /\ step[c] <= Len(entries[Pipe(c)]) /\ current[c] = states[Pipe(c)]
         /\ FittedSoFar(states[Pipe(c)], entries[Pipe(c)], Arg(c), step[c])
    /\ In(c, "transform") =>
         /\ fitted[Pipe(c)] /\ Cols(Arg(c)) = n_features[Pipe(c)]
         /\ step[c] <= Len(states[Pipe(c)])
         /\ Len(current[c]) = step[c]
         /\ \A i \in 1 .. step[c] : current[c][i] = states[Pipe(c)][i]

InductiveInv == /\ TypeOK /\ TrainedInOneGo /\ Exclusive
                /\ \A c \in Callers : CallInv(c)
                /\ ErrorWritesNothing

Untrained == [width |-> 0, chain |-> <<>>]
(* A pipeline as its callers see it: the states are there once it is fitted. *)
Trains(n, s) == [width |-> n, chain |-> s]
Promise == INSTANCE FittedPipeline WITH
             operators <- entries,
             model     <- [h \in Handles |-> IF fitted[h] THEN Trains(n_features[h], states[h])
                                                          ELSE Untrained],
             answer    <- out,
             Stage     <- FittedState,
             Nothing   <- Untouched

ImplementsFittedPipeline == Promise!Spec
=============================================================================
