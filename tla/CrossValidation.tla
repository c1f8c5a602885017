-------------------------- MODULE CrossValidation --------------------------
(***************************************************************************)
(* cross_validate_regression (src/cpp/src/core/cross_validation.cpp): the  *)
(* gate eighteen of the selection kernels send a validation plan through.   *)
(* A call checks the plan, fits a model per fold, scatters predictions and *)
(* accepts the result only if every sample was predicted exactly once.     *)
(*                                                                         *)
(* Data are abstracted to what leak-freedom can tell apart: a model is the *)
(* set of rows it was fitted on, a prediction is the model that made it,   *)
(* and fit_model / predict_into / compute_regression_metrics either        *)
(* succeed or return an error.                                             *)
(***************************************************************************)
EXTENDS ValidationFolds

CONSTANT Plans          \* the plans callers pass

ASSUME PlansAssumption == Plans \subseteq Plan

VARIABLES pc,           \* "idle", or the loop of the running call
          plan,         \* its plan argument
          fold,         \* fold_idx, counted from 1
          counts,       \* prediction_counts
          out,          \* CrossValidationResult under construction
          status        \* what the last call returned

cvVars == <<pc, plan, fold, counts, out, status>>

(* 0.0, the value out.predictions is filled with before any fold has run. *)
Unpredicted == {}

NoResult == [predictions |-> <<>>, test_offsets |-> <<>>, test_indices |-> <<>>]
FreshResult == [predictions |-> [s \in Samples |-> Unpredicted],
                test_offsets |-> <<0>>, test_indices |-> <<>>]
Result == [predictions  : {<<>>} \cup [Samples -> SUBSET Samples],
           test_offsets : Seq(Nat), test_indices : Seq(Int)]
NoPlan == [n_samples |-> 0, folds |-> <<>>]
ZeroCounts == [s \in Samples |-> 0]

(* What the checks of the X and Y views say.                                *)
MatrixStatuses == {"OK", "NULL_POINTER", "DTYPE_MISMATCH", "SHAPE_MISMATCH", "INVALID_ARGUMENT"}
Exceptions == {"OUT_OF_MEMORY", "INTERNAL"}
(* FIT_ERROR is whatever copy_rows, fit_model, predict_into or               *)
(* compute_regression_metrics returned; TOO_LARGE the INVALID_ARGUMENT of    *)
(* the two checks that a size fits its integer, told apart from the one of  *)
(* the structural checks because it says nothing of the plan.               *)
Statuses == MatrixStatuses \cup {"TOO_LARGE", "FIT_ERROR"} \cup Exceptions

(***************************************************************************)
(* validate_plan_fold: WellFormed, and no test sample of an earlier fold.   *)
(***************************************************************************)
FoldAcceptedOnce(f, c) ==                           \* mutant: train rows counted too
    WellFormed(f) /\ \A s \in Elements(f.test) \cup Elements(f.train) : c[s] = 0
FoldAccepted(f, c) == WellFormed(f) /\ \A s \in Elements(f.test) : c[s] = 0

Counted(f, c) == [s \in Samples |-> IF s \in Elements(f.test) THEN c[s] + 1 ELSE c[s]]

ReturnKeeping(code, result) ==          \* mutant: out is not reset on the way out
    /\ status' = code /\ pc' = "idle" /\ UNCHANGED <<out, plan, fold, counts>>
Return(code, result) == /\ status' = code /\ out' = result /\ pc' = "idle"
                        /\ UNCHANGED <<plan, fold, counts>>

Init == /\ pc = "idle" /\ plan = NoPlan /\ fold = 1 /\ counts = ZeroCounts
        /\ out = NoResult /\ status = "OK"

(* The argument checks, in the code's order: the matrices, the shape of the *)
(* plan, that it has folds, that the predictions can be counted.            *)
ArgumentStatus(p, matrices, fits) ==
    CASE matrices # "OK"      -> matrices
      [] matrices = "OK" /\ p.n_samples # NRows -> "SHAPE_MISMATCH"
      [] matrices = "OK" /\ p.n_samples = NRows /\ p.folds = <<>> -> "INVALID_ARGUMENT"
      [] OTHER -> IF fits THEN "OK" ELSE "TOO_LARGE"

Enter(p) == pc = "idle" /\ plan' = p /\ fold' = 1 /\ counts' = ZeroCounts

Begin(p, matrices, fits) ==
    /\ Enter(p) /\ ArgumentStatus(p, matrices, fits) = "OK"
    /\ pc' = "validate" /\ out' = FreshResult /\ UNCHANGED status

RejectArguments(p, matrices, fits) ==
    /\ Enter(p) /\ ArgumentStatus(p, matrices, fits) # "OK"
    /\ pc' = "idle" /\ out' = NoResult /\ status' = ArgumentStatus(p, matrices, fits)

(* One turn of the first loop; after the last fold the fitting loop starts. *)
ValidateFold ==
    /\ pc = "validate"
    /\ IF FoldAccepted(plan.folds[fold], counts)
       THEN /\ counts' = Counted(plan.folds[fold], counts)
            /\ IF fold < Len(plan.folds)
               THEN fold' = fold + 1 /\ UNCHANGED pc
               ELSE fold' = 1 /\ pc' = "fit"
            /\ UNCHANGED <<plan, out, status>>
       ELSE Return("INVALID_ARGUMENT", NoResult)

ScatterEarlyOffset(f) ==                \* mutant: offset pushed before the indices
    [predictions  |-> [s \in Samples |-> IF s \in Elements(f.test)
                                         THEN Elements(f.train) ELSE out.predictions[s]],
     test_offsets |-> Append(out.test_offsets, Len(out.test_indices)),
     test_indices |-> out.test_indices \o f.test]

Scatter(f) ==
    [predictions  |-> [s \in Samples |-> IF s \in Elements(f.test)
                                         THEN Elements(f.train) ELSE out.predictions[s]],
     test_offsets |-> Append(out.test_offsets, Len(out.test_indices) + Len(f.test)),
     test_indices |-> out.test_indices \o f.test]

(* Between the loops: the buffers of the largest fold cannot be counted.    *)
RejectBuffers == pc = "fit" /\ fold = 1 /\ Return("TOO_LARGE", NoResult)

(* One turn of the second loop: copy rows, fit, predict, scatter. *)
FitFold ==
    /\ pc = "fit"
    /\ \/ /\ out' = Scatter(plan.folds[fold])
          /\ IF fold < Len(plan.folds)
             THEN fold' = fold + 1 /\ UNCHANGED pc
             ELSE pc' = "check" /\ UNCHANGED fold
          /\ UNCHANGED <<plan, counts, status>>
       \/ Return("FIT_ERROR", NoResult)

(* Exactly-one coverage, then the metrics, which may still fail. *)
CheckCoverage ==
    /\ pc = "check"
    /\ IF \A s \in Samples : counts[s] = 1
       THEN Return("OK", out) \/ Return("FIT_ERROR", NoResult)
       ELSE Return("INVALID_ARGUMENT", NoResult)

(* std::bad_alloc or any other exception, from anywhere in the call. *)
Catch == pc # "idle" /\ \E code \in Exceptions : Return(code, NoResult)

CvStep == ValidateFold \/ RejectBuffers \/ FitFold \/ CheckCoverage \/ Catch

Next == \/ \E p \in Plans, m \in MatrixStatuses, fits \in BOOLEAN :
              Begin(p, m, fits) \/ RejectArguments(p, m, fits)
        \/ CvStep

Spec == Init /\ [][Next]_cvVars
-----------------------------------------------------------------------------
TypeOK ==
    /\ pc \in {"idle", "validate", "fit", "check"}
    /\ plan \in Plan
    /\ fold \in 1 .. (Len(plan.folds) + 1)
    /\ counts \in [Samples -> Nat]
    /\ out \in Result
    /\ status \in Statuses

Answered == pc = "idle" /\ out # NoResult

LeakFree(predictions) ==
    /\ predictions \in [Samples -> SUBSET Samples]
    /\ \A s \in Samples : predictions[s] # Unpredicted /\ s \notin predictions[s]

(* A caller that sees a result sees a complete one: every sample has a     *)
(* prediction, made by a model fitted without that sample.  It takes a plan *)
(* whose folds overlap, repeat or miss samples, spread over several folds, *)
(* to break it.                                                            *)
LeakFreeResult == Answered => LeakFree(out.predictions)

(* The per-fold slices that the RMSE-per-fold consumers cut out of          *)
(* test_indices with test_offsets are the folds' test sets, in fold order,  *)
(* and together they list every sample once.                               *)
FoldSlices ==
    Answered =>
      /\ NoDuplicates(out.test_indices) /\ Elements(out.test_indices) = Samples
      /\ Len(out.test_offsets) = Len(plan.folds) + 1
      /\ \A f \in DOMAIN plan.folds :
            SubSeq(out.test_indices, out.test_offsets[f] + 1, out.test_offsets[f + 1])
                = plan.folds[f].test

(* A call that reports an error leaves nothing of the folds it had already  *)
(* run in the caller's result.                                             *)
ErrorLeavesNoResult == pc = "idle" /\ status # "OK" => out = NoResult

(* The gate is complete as well as sound: a plan whose test sets partition  *)
(* the samples is never turned away by the structural checks, in whichever  *)
(* of the three loops they sit.                                            *)
PartitionNeverRejected ==
    [][pc # "idle" /\ pc' = "idle" /\ Partitions(plan)
         => status' \in {"OK", "TOO_LARGE", "FIT_ERROR"} \cup Exceptions]_cvVars

(***************************************************************************)
(* Why LeakFreeResult holds.  Checked folds have passed the first loop and *)
(* counts records exactly the samples they test; Fitted folds have been    *)
(* scattered, and no prediction in out comes from a model that saw its     *)
(* sample.                                                                 *)
(***************************************************************************)
Checked == IF pc = "validate" THEN fold - 1 ELSE Len(plan.folds)
Fitted  == CASE pc = "validate" -> 0
             [] pc = "fit"      -> fold - 1
             [] OTHER           -> Len(plan.folds)

InCall == pc # "idle"

CallInv ==
    /\ plan.n_samples = NRows /\ fold \in 1 .. Len(plan.folds)
    /\ out.predictions \in [Samples -> SUBSET Samples]

CountInv ==
    /\ \A g \in 1 .. Checked : WellFormed(plan.folds[g])
    /\ \A s \in Samples : counts[s] =
          IF \E g \in 1 .. Checked : s \in Elements(plan.folds[g].test) THEN 1 ELSE 0

PredictionInv ==
    /\ \A s \in Samples : s \notin out.predictions[s]
    /\ \A g \in 1 .. Fitted : \A s \in Elements(plan.folds[g].test) :
          out.predictions[s] # Unpredicted

(* The strengthening of LeakFreeResult that every step of a call preserves: *)
(* the two loops of the code agree on which samples have been tested.      *)
InductiveInv ==
    /\ TypeOK
    /\ InCall => CallInv /\ CountInv /\ PredictionInv
    /\ ~InCall /\ out # NoResult => LeakFree(out.predictions) /\ status = "OK"

(* The caller's view of a call: busy until it returns, then all or nothing. *)
Caller == INSTANCE OutOfFold WITH
            state    <- IF pc = "idle" THEN "idle" ELSE "busy",
            answer   <- status,
            trained  <- IF pc = "idle" THEN out.predictions ELSE <<>>,
            NoResult <- <<>>,
            Failures <- Statuses \ {"OK"}

(* cross_validate_regression implements the promise of OutOfFold. *)
ImplementsOutOfFold == Caller!Spec
=============================================================================
