-------------------------- MODULE MCModelEstimator --------------------------
(* Two objects of a class: each of the eight that keep bundles, and one of *)
(* every way the others behave (what they do depends on these four fields   *)
(* of their record only).  The data differ in width, targets, classes  *)
(* and finiteness; "tall" and "same" have the same width, so that nothing   *)
(* but the provenance tells their fits apart.  Three components are too     *)
(* many for every class, two for the narrow matrix and for PLS_SVD.         *)
EXTENDS ModelEstimator, TLC

Matrix(x, rows, cols, targets, classes, finite) ==
    [x |-> x, rows |-> rows, cols |-> cols, targets |-> targets, classes |-> classes,
     finite |-> finite]
MCData == {Matrix("tall", 7, 2, 2, 2, TRUE), Matrix("same", 5, 2, 1, 1, TRUE),
           Matrix("narrow", 4, 1, 1, 2, TRUE), Matrix("nan", 6, 2, 2, 2, FALSE)}

Params(n, solver, tuning) == [n_components |-> n, solver |-> solver, tuning |-> tuning]
MCSettings == {Params(1, "simpls", "default"), Params(1, "simpls", "tuned"),
               Params(2, "svd", "tuned"), Params(1, "nipals", "default"),
               Params(3, "unknown", "default")}

Behaviour(c) == <<c.fit, c.answers, c.finite, c.tuned>>
MCClasses == Bundled \cup {CHOOSE c \in Wrapping : Behaviour(c) = b :
                             b \in {Behaviour(c) : c \in Wrapping}}

Objects == Permutations(Estimators)     \* nothing names one of them
=============================================================================
