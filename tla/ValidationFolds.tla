-------------------------- MODULE ValidationFolds --------------------------
(***************************************************************************)
(* What a validation plan is (src/cpp/src/core/validation.hpp) and what    *)
(* each kind of kernel that consumes one demands of it when it is run on a *)
(* matrix of NRows samples.                                                *)
(***************************************************************************)
EXTENDS Integers, Sequences, FiniteSets

CONSTANT NRows          \* X.rows

ASSUME NRowsAssumption == NRows \in Nat \ {0}

Fold == [train : Seq(Int), test : Seq(Int)]
Plan == [n_samples : Int, folds : Seq(Fold)]

Samples == 0 .. NRows - 1

Elements(q) == {q[i] : i \in DOMAIN q}
NoDuplicates(q) == \A i, j \in DOMAIN q : q[i] = q[j] => i = j

(***************************************************************************)
(* One fold as the role vector of validate_plan_fold sees it, and as the   *)
(* mask of the AOM selection's validate_plan does.                         *)
(***************************************************************************)
WellFormedAnyTrain(f) ==                \* mutant: train rows not range-checked
    /\ f.train # <<>> /\ f.test # <<>>
    /\ NoDuplicates(f.train) /\ NoDuplicates(f.test)
    /\ Elements(f.test) \subseteq Samples
    /\ Elements(f.train) \cap Elements(f.test) = {}

WellFormedOverlapping(f) ==             \* mutant: role[] reset between the two loops
    /\ f.train # <<>> /\ f.test # <<>>
    /\ Elements(f.train) \subseteq Samples /\ NoDuplicates(f.train)
    /\ Elements(f.test) \subseteq Samples /\ NoDuplicates(f.test)

WellFormed(f) ==
    /\ f.train # <<>> /\ f.test # <<>>
    /\ Elements(f.train) \subseteq Samples /\ NoDuplicates(f.train)
    /\ Elements(f.test) \subseteq Samples /\ NoDuplicates(f.test)
    /\ Elements(f.train) \cap Elements(f.test) = {}

(* The plan's test sets partition the samples, and no fold trains on a      *)
(* sample it tests.                                                        *)
Partitions(p) ==
    /\ p.n_samples = NRows /\ p.folds # <<>>
    /\ \A f \in DOMAIN p.folds :
          /\ WellFormed(p.folds[f])
          /\ \A g \in DOMAIN p.folds :
                f # g => Elements(p.folds[f].test) \cap Elements(p.folds[g].test) = {}
    /\ UNION {Elements(p.folds[f].test) : f \in DOMAIN p.folds} = Samples

(* validate_plan of the AOM/POP selections: any number of folds may test a  *)
(* sample, and n_samples 0 stands for "unset".                              *)
AomAccepts(p) ==
    /\ p.folds # <<>> /\ p.n_samples \in {0, NRows}
    /\ \A f \in DOMAIN p.folds : WellFormed(p.folds[f])

(* validate_request and copy_rows of the stability selection: only the      *)
(* train side is read, and only its range is checked.                       *)
StabilityAccepts(p) ==
    /\ Len(p.folds) >= 2 /\ p.n_samples = NRows
    /\ \A f \in DOMAIN p.folds :
          p.folds[f].train # <<>> /\ Elements(p.folds[f].train) \subseteq Samples
=============================================================================
