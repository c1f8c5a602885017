----------------------- MODULE CrossValidation_proof -----------------------
(* Proofs about cross_validate_regression for every number of samples and  *)
(* every set of plans.                                                     *)
EXTENDS CrossValidation, SequenceTheorems, TLAPS

USE NRowsAssumption, PlansAssumption

(* A fold that passed validate_plan_fold tests and trains on samples of X. *)
LEMMA WellFormedFold ==
    ASSUME NEW f \in Fold, WellFormed(f)
    PROVE  /\ Elements(f.test) \subseteq Samples
           /\ Elements(f.train) \in SUBSET Samples
           /\ Elements(f.train) # {}
           /\ \A s \in Elements(f.test) : s \notin Elements(f.train)
  <1>1. f.train \in Seq(Int) /\ f.train # <<>>
    BY DEF Fold, WellFormed
  <1>2. 1 \in DOMAIN f.train
    BY <1>1
  <1> QED
    BY <1>2 DEF WellFormed, Elements

(* Inside a call the fold the loops stand at is one of the plan. *)
LEMMA CurrentFold ==
    ASSUME TypeOK, CallInv
    PROVE  /\ plan.folds \in Seq(Fold) /\ Len(plan.folds) \in Nat
           /\ fold \in DOMAIN plan.folds /\ plan.folds[fold] \in Fold
           /\ \A g \in 1 .. Len(plan.folds) : plan.folds[g] \in Fold
  BY DEF TypeOK, CallInv, Plan

LEMMA InitialValues ==
    /\ NoPlan \in Plan /\ Len(NoPlan.folds) = 0
    /\ NoResult \in Result /\ FreshResult \in Result
    /\ ZeroCounts \in [Samples -> Nat]
  <1>1. NoPlan \in Plan /\ Len(NoPlan.folds) = 0
    BY DEF NoPlan, Plan
  <1>2. NoResult \in Result
    BY DEF NoResult, Result
  <1>3. FreshResult \in Result
    BY DEF FreshResult, Result, Unpredicted
  <1> QED
    BY <1>1, <1>2, <1>3 DEF ZeroCounts

(* Every argument error is one of the codes a call can return.              *)
LEMMA ArgumentStatusType ==
    ASSUME NEW p, NEW m \in MatrixStatuses, NEW fits \in BOOLEAN
    PROVE  /\ ArgumentStatus(p, m, fits) \in Statuses
           /\ ArgumentStatus(p, m, fits) = "OK" => p.n_samples = NRows /\ p.folds # <<>>
  BY DEF ArgumentStatus, MatrixStatuses, Statuses

LEMMA ScatterType ==
    ASSUME TypeOK, CallInv, NEW f \in Fold, WellFormed(f)
    PROVE  /\ Scatter(f) \in Result
           /\ Scatter(f).predictions \in [Samples -> SUBSET Samples]
           /\ \A s \in Samples : Scatter(f).predictions[s] =
                 IF s \in Elements(f.test) THEN Elements(f.train) ELSE out.predictions[s]
  <1>1. out.predictions \in [Samples -> SUBSET Samples] /\ out \in Result
    BY DEF TypeOK, CallInv
  <1>2. Elements(f.train) \in SUBSET Samples
    BY WellFormedFold
  <1> DEFINE P == [s \in Samples |-> IF s \in Elements(f.test)
                                     THEN Elements(f.train) ELSE out.predictions[s]]
  <1>3. P \in [Samples -> SUBSET Samples]
    BY <1>1, <1>2
  <1>4. Scatter(f).predictions = P
    BY DEF Scatter
  <1>5. /\ Append(out.test_offsets, Len(out.test_indices) + Len(f.test)) \in Seq(Nat)
        /\ out.test_indices \o f.test \in Seq(Int)
    BY <1>1 DEF Result, Fold
  <1>6. Scatter(f) \in Result
    BY <1>3, <1>5 DEF Scatter, Result
  <1> QED
    BY <1>3, <1>4, <1>6

LEMMA TypeInit == Init => TypeOK
  BY InitialValues DEF Init, TypeOK, Statuses, MatrixStatuses

LEMMA ReturnType ==
    ASSUME TypeOK, NEW code \in Statuses, NEW r \in Result, Return(code, r)
    PROVE  TypeOK'
  BY DEF TypeOK, Return

(* Type correctness, one step per action. *)
LEMMA TypeStep == TypeOK /\ (InCall => CallInv /\ CountInv) /\ [Next]_cvVars => TypeOK'
  <1> SUFFICES ASSUME TypeOK, InCall => CallInv /\ CountInv, [Next]_cvVars
               PROVE  TypeOK'
    OBVIOUS
  <1>1. ASSUME NEW p \in Plans, NEW m \in MatrixStatuses, NEW fits \in BOOLEAN,
               Begin(p, m, fits)
        PROVE  TypeOK'
    BY <1>1, InitialValues DEF TypeOK, Begin, Enter, Plan
  <1>2. ASSUME NEW p \in Plans, NEW m \in MatrixStatuses, NEW fits \in BOOLEAN,
               RejectArguments(p, m, fits)
        PROVE  TypeOK'
    BY <1>2, InitialValues, ArgumentStatusType DEF TypeOK, RejectArguments, Enter, Plan
  <1>3. CASE ValidateFold
    <2>1. InCall /\ CallInv /\ plan.folds[fold] \in Fold
      BY <1>3, CurrentFold DEF ValidateFold, InCall
    <2>2. CASE FoldAccepted(plan.folds[fold], counts)
      <3>1. Counted(plan.folds[fold], counts) \in [Samples -> Nat]
        BY DEF TypeOK, Counted
      <3> QED
        BY <1>3, <2>1, <2>2, <3>1, CurrentFold DEF ValidateFold, TypeOK, CallInv
    <2>3. CASE ~FoldAccepted(plan.folds[fold], counts)
      BY <1>3, <2>3, InitialValues, ReturnType
         DEF ValidateFold, Statuses, MatrixStatuses
    <2> QED
      BY <2>2, <2>3
  <1>4. CASE FitFold
    <2>1. InCall /\ CallInv /\ CountInv /\ plan.folds[fold] \in Fold
      BY <1>4, CurrentFold DEF FitFold, InCall
    <2>2. WellFormed(plan.folds[fold])
      BY <1>4, <2>1, CurrentFold DEF FitFold, CountInv, Checked
    <2>3. CASE Return("FIT_ERROR", NoResult)
      BY <2>3, InitialValues, ReturnType DEF Statuses
    <2>4. CASE ~Return("FIT_ERROR", NoResult)
      BY <1>4, <2>1, <2>2, <2>4, ScatterType, CurrentFold DEF FitFold, TypeOK, CallInv
    <2> QED
      BY <2>3, <2>4
  <1>5. CASE CheckCoverage
    BY <1>5, InitialValues, ReturnType DEF CheckCoverage, TypeOK, Statuses, MatrixStatuses
  <1>6. CASE Catch
    BY <1>6, InitialValues, ReturnType DEF Catch, Exceptions, Statuses
  <1>7. CASE UNCHANGED cvVars
    BY <1>7 DEF cvVars, TypeOK
  <1>8. CASE RejectBuffers
    BY <1>8, InitialValues, ReturnType DEF RejectBuffers, Statuses
  <1> QED
    BY <1>1, <1>2, <1>3, <1>4, <1>5, <1>6, <1>7, <1>8 DEF Next, CvStep

-----------------------------------------------------------------------------
LEMMA InductiveInit == Init => InductiveInv
  <1> SUFFICES ASSUME Init PROVE InductiveInv
    OBVIOUS
  <1> QED
    BY TypeInit DEF Init, InductiveInv, InCall

(* Returning nothing, or the finished result, ends the call's obligations. *)
LEMMA ReturnNothing ==
    ASSUME TypeOK', NEW code, Return(code, NoResult)
    PROVE  InductiveInv'
  BY DEF Return, InductiveInv, InCall

(* One fold accepted: its test samples, untested so far, join the counted. *)
LEMMA CountedStep ==
    ASSUME TypeOK, CallInv, CountInv, pc = "validate",
           FoldAccepted(plan.folds[fold], counts),
           counts' = Counted(plan.folds[fold], counts)
    PROVE  /\ \A g \in 1 .. fold : WellFormed(plan.folds[g])
           /\ \A s \in Samples : counts'[s] =
                 IF \E g \in 1 .. fold : s \in Elements(plan.folds[g].test) THEN 1 ELSE 0
  <1>1. fold \in Nat \ {0}
    BY DEF CallInv, TypeOK, Plan
  <1>2. \A g \in 1 .. fold : g = fold \/ g \in 1 .. fold - 1
    BY <1>1
  <1>3. \A g \in 1 .. fold : WellFormed(plan.folds[g])
    BY <1>2 DEF CountInv, Checked, FoldAccepted
  <1>4. ASSUME NEW s \in Samples
        PROVE  counts'[s] =
                 IF \E g \in 1 .. fold : s \in Elements(plan.folds[g].test) THEN 1 ELSE 0
    <2>1. counts'[s] = IF s \in Elements(plan.folds[fold].test) THEN counts[s] + 1 ELSE counts[s]
      BY DEF Counted
    <2>2. counts[s] =
            IF \E g \in 1 .. fold - 1 : s \in Elements(plan.folds[g].test) THEN 1 ELSE 0
      BY DEF CountInv, Checked
    <2>3. CASE s \in Elements(plan.folds[fold].test)
      <3>1. counts[s] = 0
        BY <2>3 DEF FoldAccepted
      <3>2. fold \in 1 .. fold
        BY <1>1
      <3> QED
        BY <2>1, <2>3, <3>1, <3>2
    <2>4. CASE s \notin Elements(plan.folds[fold].test)
      <3>1. (\E g \in 1 .. fold : s \in Elements(plan.folds[g].test))
              <=> \E g \in 1 .. fold - 1 : s \in Elements(plan.folds[g].test)
        BY <1>1, <1>2, <2>4
      <3> QED
        BY <2>1, <2>2, <2>4, <3>1
    <2> QED
      BY <2>3, <2>4
  <1> QED
    BY <1>3, <1>4

(* One fold fitted: only its test samples change, to a model without them. *)
LEMMA ScatterStep ==
    ASSUME TypeOK, CallInv, CountInv, PredictionInv, pc = "fit",
           out' = Scatter(plan.folds[fold])
    PROVE  /\ out'.predictions \in [Samples -> SUBSET Samples]
           /\ \A s \in Samples : s \notin out'.predictions[s]
           /\ \A g \in 1 .. fold : \A s \in Elements(plan.folds[g].test) :
                 out'.predictions[s] # Unpredicted
  <1>1. fold \in Nat \ {0} /\ fold \in 1 .. Len(plan.folds) /\ Len(plan.folds) \in Nat
    BY CurrentFold DEF CallInv, TypeOK, Plan
  <1>2. \A g \in 1 .. fold : plan.folds[g] \in Fold /\ WellFormed(plan.folds[g])
    <2>1. \A g \in 1 .. fold : g \in 1 .. Len(plan.folds)
      BY <1>1
    <2> QED
      BY <2>1, CurrentFold DEF CountInv, Checked
  <1> DEFINE f == plan.folds[fold]
  <1>3. f \in Fold /\ WellFormed(f)
    BY <1>1, <1>2
  <1>4. /\ out'.predictions \in [Samples -> SUBSET Samples]
        /\ \A s \in Samples : out'.predictions[s] =
              IF s \in Elements(f.test) THEN Elements(f.train) ELSE out.predictions[s]
    BY <1>3, ScatterType
  <1>5. \A s \in Samples : s \notin out'.predictions[s]
    BY <1>3, <1>4, WellFormedFold DEF PredictionInv
  <1>6. ASSUME NEW g \in 1 .. fold, NEW s \in Elements(plan.folds[g].test)
        PROVE  out'.predictions[s] # Unpredicted
    <2>1. s \in Samples
      BY <1>2, WellFormedFold
    <2>2. CASE s \in Elements(f.test)
      BY <1>3, <1>4, <2>1, <2>2, WellFormedFold DEF Unpredicted
    <2>3. CASE s \notin Elements(f.test)
      <3>1. g \in 1 .. fold - 1
        BY <1>1, <2>3
      <3> QED
        BY <1>4, <2>1, <2>3, <3>1 DEF PredictionInv, Fitted
    <2> QED
      BY <2>2, <2>3
  <1> QED
    BY <1>4, <1>5, <1>6

(* Exactly-one coverage turns the loop facts into a leak-free result. *)
LEMMA CoverageStep ==
    ASSUME TypeOK, CallInv, CountInv, PredictionInv, pc = "check",
           \A s \in Samples : counts[s] = 1
    PROVE  LeakFree(out.predictions)
  <1>1. ASSUME NEW s \in Samples
        PROVE  out.predictions[s] # Unpredicted
    <2>1. PICK g \in 1 .. Len(plan.folds) : s \in Elements(plan.folds[g].test)
      BY DEF CountInv, Checked
    <2> QED
      BY <2>1 DEF PredictionInv, Fitted
  <1> QED
    BY <1>1 DEF LeakFree, CallInv, PredictionInv

LEMMA InductiveStep == InductiveInv /\ [Next]_cvVars => InductiveInv'
  <1> SUFFICES ASSUME InductiveInv, [Next]_cvVars PROVE InductiveInv'
    OBVIOUS
  <1>0. TypeOK /\ TypeOK' /\ (InCall => CallInv /\ CountInv /\ PredictionInv)
    BY TypeStep DEF InductiveInv
  <1>1. ASSUME NEW p \in Plans, NEW m \in MatrixStatuses, NEW fits \in BOOLEAN,
               Begin(p, m, fits)
        PROVE  InductiveInv'
    <2>1. p \in Plan /\ p.n_samples = NRows /\ p.folds # <<>> /\ Len(p.folds) \in Nat \ {0}
      BY <1>1, ArgumentStatusType DEF Begin, Plan
    <2>2. CallInv'
      BY <1>1, <2>1 DEF Begin, Enter, CallInv, FreshResult, Unpredicted
    <2>3. CountInv'
      BY <1>1 DEF Begin, Enter, CountInv, Checked, ZeroCounts
    <2>4. PredictionInv'
      BY <1>1 DEF Begin, Enter, PredictionInv, Fitted, FreshResult, Unpredicted
    <2> QED
      BY <1>0, <1>1, <2>2, <2>3, <2>4 DEF InductiveInv, InCall, Begin
  <1>2. ASSUME NEW p \in Plans, NEW m \in MatrixStatuses, NEW fits \in BOOLEAN,
               RejectArguments(p, m, fits)
        PROVE  InductiveInv'
    BY <1>0, <1>2 DEF RejectArguments, InductiveInv, InCall
  <1>3. CASE ValidateFold
    <2>1. pc = "validate" /\ CallInv /\ CountInv /\ PredictionInv
      BY <1>0, <1>3 DEF ValidateFold, InCall
    <2>2. CASE FoldAccepted(plan.folds[fold], counts)
      <3>1. /\ \A g \in 1 .. fold : WellFormed(plan.folds[g])
            /\ \A s \in Samples : counts'[s] =
                 IF \E g \in 1 .. fold : s \in Elements(plan.folds[g].test) THEN 1 ELSE 0
        BY <1>0, <1>3, <2>1, <2>2, CountedStep DEF ValidateFold
      <3>2. plan' = plan /\ out' = out /\ fold \in 1 .. Len(plan.folds) /\ Len(plan.folds) \in Nat
        BY <1>0, <1>3, <2>1, <2>2, CurrentFold DEF ValidateFold, CallInv
      <3>3. CallInv' /\ pc' \in {"validate", "fit"} /\ Checked' = fold
        BY <1>3, <2>1, <2>2, <3>2 DEF ValidateFold, CallInv, Checked
      <3>4. CountInv'
        BY <3>1, <3>2, <3>3 DEF CountInv
      <3>5. Fitted' = 0
        BY <1>3, <2>1, <2>2, <3>2 DEF ValidateFold, Fitted
      <3>6. PredictionInv'
        BY <2>1, <3>2, <3>5 DEF PredictionInv
      <3> QED
        BY <1>0, <3>3, <3>4, <3>6 DEF InductiveInv, InCall
    <2>3. CASE ~FoldAccepted(plan.folds[fold], counts)
      BY <1>0, <1>3, <2>3, ReturnNothing DEF ValidateFold
    <2> QED
      BY <2>2, <2>3
  <1>4. CASE FitFold
    <2>1. pc = "fit" /\ CallInv /\ CountInv /\ PredictionInv
      BY <1>0, <1>4 DEF FitFold, InCall
    <2>2. CASE Return("FIT_ERROR", NoResult)
      BY <1>0, <2>2, ReturnNothing
    <2>3. CASE ~Return("FIT_ERROR", NoResult)
      <3>1. out' = Scatter(plan.folds[fold]) /\ plan' = plan /\ counts' = counts
        BY <1>4, <2>3 DEF FitFold
      <3>2. fold \in 1 .. Len(plan.folds) /\ Len(plan.folds) \in Nat
        BY <1>0, <2>1, CurrentFold DEF CallInv
      <3>3. /\ fold' \in 1 .. Len(plan.folds) /\ pc' \in {"fit", "check"}
            /\ Fitted' = fold /\ Checked' = Checked
        BY <1>4, <2>1, <2>3, <3>1, <3>2 DEF FitFold, Fitted, Checked
      <3>4. /\ out'.predictions \in [Samples -> SUBSET Samples]
            /\ \A s \in Samples : s \notin out'.predictions[s]
            /\ \A g \in 1 .. fold : \A s \in Elements(plan.folds[g].test) :
                 out'.predictions[s] # Unpredicted
        BY <1>0, <2>1, <3>1, ScatterStep
      <3>5. CallInv'
        BY <2>1, <3>1, <3>3, <3>4 DEF CallInv
      <3>6. CountInv'
        BY <2>1, <3>1, <3>3 DEF CountInv
      <3>7. PredictionInv'
        BY <3>1, <3>3, <3>4 DEF PredictionInv
      <3> QED
        BY <1>0, <3>3, <3>5, <3>6, <3>7 DEF InductiveInv, InCall
    <2> QED
      BY <2>2, <2>3
  <1>5. CASE CheckCoverage
    <2>1. CASE Return("OK", out) /\ \A s \in Samples : counts[s] = 1
      <3>1. LeakFree(out.predictions)
        BY <1>0, <1>5, <2>1, CoverageStep DEF CheckCoverage, InCall
      <3> QED
        BY <1>0, <2>1, <3>1 DEF Return, InductiveInv, InCall
    <2> QED
      BY <1>0, <1>5, <2>1, ReturnNothing DEF CheckCoverage
  <1>6. CASE Catch
    BY <1>0, <1>6, ReturnNothing DEF Catch
  <1>7. CASE UNCHANGED cvVars
    BY <1>7 DEF cvVars, InductiveInv, TypeOK, InCall, CallInv, CountInv, PredictionInv,
                Checked, Fitted
  <1>8. CASE RejectBuffers
    BY <1>0, <1>8, ReturnNothing DEF RejectBuffers
  <1> QED
    BY <1>1, <1>2, <1>3, <1>4, <1>5, <1>6, <1>7, <1>8 DEF Next, CvStep

(* The type invariant of cross_validate_regression, for every NRows and    *)
(* every set of plans.                                                     *)
THEOREM TypeCorrect == Spec => []TypeOK
  <1>1. InductiveInv => TypeOK
    BY DEF InductiveInv
  <1> QED
    BY <1>1, InductiveInit, InductiveStep, PTL DEF Spec

(* The inductive invariant holds in every state of every call. *)
THEOREM Inductive == Spec => []InductiveInv
  BY InductiveInit, InductiveStep, PTL DEF Spec

(* No leakage: whatever plan a caller passes, the result it sees predicts  *)
(* every sample with a model that was not fitted on it.                    *)
THEOREM LeakFreedom == Spec => []LeakFreeResult
  <1>1. InductiveInv => LeakFreeResult
    BY DEF InductiveInv, LeakFreeResult, Answered, InCall
  <1> QED
    BY <1>1, Inductive, PTL

(* A failed call leaves nothing of the folds it had run in the result. *)
THEOREM AllOrNothing == Spec => []ErrorLeavesNoResult
  <1>1. InductiveInv => ErrorLeavesNoResult
    BY DEF InductiveInv, ErrorLeavesNoResult, InCall
  <1> QED
    BY <1>1, Inductive, PTL

-----------------------------------------------------------------------------
(* A partition has no fold the first loop could object to: the counts only *)
(* record test samples of other folds.                                     *)
LEMMA PartitionFoldAccepted ==
    ASSUME TypeOK, CallInv, CountInv, pc = "validate", Partitions(plan)
    PROVE  FoldAccepted(plan.folds[fold], counts)
  <1>1. /\ fold \in 1 .. Len(plan.folds) /\ fold \in Nat /\ Len(plan.folds) \in Nat
        /\ DOMAIN plan.folds = 1 .. Len(plan.folds) /\ plan.folds[fold] \in Fold
    BY CurrentFold DEF CallInv, Plan
  <1>2. WellFormed(plan.folds[fold])
    BY <1>1 DEF Partitions
  <1>3. ASSUME NEW s \in Elements(plan.folds[fold].test)
        PROVE  counts[s] = 0
    <2>1. s \in Samples
      BY <1>1, <1>2, WellFormedFold
    <2>2. ASSUME NEW g \in 1 .. fold - 1
          PROVE  s \notin Elements(plan.folds[g].test)
      <3>1. g \in 1 .. Len(plan.folds) /\ g # fold
        BY <1>1
      <3> QED
        BY <1>1, <3>1 DEF Partitions
    <2> QED
      BY <2>1, <2>2 DEF CountInv, Checked
  <1> QED
    BY <1>2, <1>3 DEF FoldAccepted

LEMMA PartitionCovered ==
    ASSUME TypeOK, CallInv, CountInv, pc = "check", Partitions(plan)
    PROVE  \A s \in Samples : counts[s] = 1
  <1>1. TAKE s \in Samples
  <1>2. PICK g \in DOMAIN plan.folds : s \in Elements(plan.folds[g].test)
    BY DEF Partitions
  <1>3. g \in 1 .. Len(plan.folds)
    BY <1>2 DEF TypeOK, Plan
  <1> QED
    BY <1>2, <1>3 DEF CountInv, Checked

(* The gate is complete: no plan whose test sets partition the samples is  *)
(* ever turned away by the structural checks.                              *)
THEOREM PartitionsPass == Spec => PartitionNeverRejected
  <1> DEFINE Passes == pc # "idle" /\ pc' = "idle" /\ Partitions(plan)
                         => status' \in {"OK", "TOO_LARGE", "FIT_ERROR"} \cup Exceptions
  <1>1. InductiveInv /\ [Next]_cvVars => [Passes]_cvVars
    <2> SUFFICES ASSUME InductiveInv, Next, pc # "idle", pc' = "idle", Partitions(plan)
                 PROVE  status' \in {"OK", "TOO_LARGE", "FIT_ERROR"} \cup Exceptions
      OBVIOUS
    <2>0. TypeOK /\ CallInv /\ CountInv
      BY DEF InductiveInv, InCall
    <2>1. CASE ValidateFold
      BY <2>0, <2>1, PartitionFoldAccepted DEF ValidateFold
    <2>2. CASE FitFold
      BY <2>2 DEF FitFold, Return
    <2>3. CASE CheckCoverage
      BY <2>0, <2>3, PartitionCovered DEF CheckCoverage, Return
    <2>4. CASE Catch
      BY <2>4 DEF Catch, Return
    <2>5. ~ \E p \in Plans, m \in MatrixStatuses, fits \in BOOLEAN :
              Begin(p, m, fits) \/ RejectArguments(p, m, fits)
      BY DEF Begin, RejectArguments, Enter
    <2>6. CASE RejectBuffers
      BY <2>6 DEF RejectBuffers, Return
    <2> QED
      BY <2>1, <2>2, <2>3, <2>4, <2>5, <2>6 DEF Next, CvStep
  <1> QED
    BY <1>1, Inductive, PTL DEF Spec, PartitionNeverRejected

-----------------------------------------------------------------------------
LEMMA FailureRefines ==
    ASSUME NEW code \in Statuses \ {"OK"}, Return(code, NoResult)
    PROVE  Caller!Fail
  BY DEF Return, Caller!Fail, NoResult

(* cross_validate_regression implements OutOfFold: each call is one Call   *)
(* followed by one Succeed or Fail, or a Fail at once.                     *)
THEOREM Implementation == Spec => ImplementsOutOfFold
  <1>1. Init => Caller!Init
    BY DEF Init, Caller!Init, NoResult
  <1>2. InductiveInv /\ [Next]_cvVars => [Caller!Next]_(Caller!oofVars)
    <2> SUFFICES ASSUME InductiveInv, [Next]_cvVars
                 PROVE  [Caller!Next]_(Caller!oofVars)
      OBVIOUS
    <2>0. InCall => TypeOK /\ CallInv /\ CountInv /\ PredictionInv
      BY DEF InductiveInv
    <2>1. ASSUME NEW p \in Plans, NEW m \in MatrixStatuses, NEW fits \in BOOLEAN,
               Begin(p, m, fits)
          PROVE  Caller!Call
      BY <2>1 DEF Begin, Enter, Caller!Call
    <2>2. ASSUME NEW p \in Plans, NEW m \in MatrixStatuses, NEW fits \in BOOLEAN,
               RejectArguments(p, m, fits)
          PROVE  Caller!Fail
      BY <2>2, ArgumentStatusType DEF RejectArguments, Caller!Fail, NoResult
    <2>3. CASE ValidateFold
      <3>1. CASE FoldAccepted(plan.folds[fold], counts)
        BY <2>3, <3>1 DEF ValidateFold, Caller!oofVars
      <3>2. CASE ~FoldAccepted(plan.folds[fold], counts)
        BY <2>3, <3>2, FailureRefines
           DEF ValidateFold, Statuses, MatrixStatuses, Caller!Next
      <3> QED
        BY <3>1, <3>2
    <2>4. CASE FitFold
      <3>1. CASE Return("FIT_ERROR", NoResult)
        BY <3>1, FailureRefines DEF Statuses, Caller!Next
      <3>2. CASE ~Return("FIT_ERROR", NoResult)
        BY <2>4, <3>2 DEF FitFold, Caller!oofVars
      <3> QED
        BY <3>1, <3>2
    <2>5. CASE CheckCoverage
      <3>1. CASE Return("OK", out) /\ \A s \in Samples : counts[s] = 1
        <4>1. LeakFree(out.predictions)
          BY <2>0, <2>5, <3>1, CoverageStep DEF CheckCoverage, InCall
        <4>2. Caller!LeakFree(out.predictions)
          BY <4>1 DEF LeakFree, Unpredicted, Caller!LeakFree
        <4>3. Caller!Succeed
          BY <2>5, <3>1, <4>2 DEF CheckCoverage, Return, Caller!Succeed
        <4> QED
          BY <4>3 DEF Caller!Next
      <3>2. CASE Return("FIT_ERROR", NoResult) \/ Return("INVALID_ARGUMENT", NoResult)
        BY <3>2, FailureRefines DEF Statuses, MatrixStatuses, Caller!Next
      <3> QED
        BY <2>5, <3>1, <3>2 DEF CheckCoverage
    <2>6. CASE Catch
      <3>1. PICK code \in Exceptions : Return(code, NoResult)
        BY <2>6 DEF Catch
      <3>2. code \in Statuses \ {"OK"}
        BY <3>1 DEF Exceptions, Statuses
      <3> QED
        BY <3>1, <3>2, FailureRefines DEF Caller!Next
    <2>7. CASE UNCHANGED cvVars
      BY <2>7 DEF cvVars, Caller!oofVars
    <2>8. CASE RejectBuffers
      BY <2>8, FailureRefines DEF RejectBuffers, Statuses, MatrixStatuses, Caller!Next
    <2> QED
      BY <2>1, <2>2, <2>3, <2>4, <2>5, <2>6, <2>7, <2>8 DEF Next, CvStep, Caller!Next
  <1> QED
    BY <1>1, <1>2, Inductive, PTL DEF Spec, ImplementsOutOfFold, Caller!Spec

-----------------------------------------------------------------------------
(***************************************************************************)
(* Why FoldSlices holds: the last offset is the length of test_indices,    *)
(* each turn of the second loop appends one fold's slice behind it, and    *)
(* the first loop has made sure that no two slices share a sample.         *)
(***************************************************************************)
DisjointInv == \A g, h \in 1 .. Checked :
                  g # h => Elements(plan.folds[g].test) \cap Elements(plan.folds[h].test) = {}

Slice(f) == SubSeq(out.test_indices, out.test_offsets[f] + 1, out.test_offsets[f + 1])

SliceInv ==
    /\ Len(out.test_offsets) = Fitted + 1
    /\ out.test_offsets[Fitted + 1] = Len(out.test_indices)
    /\ \A f \in 1 .. Fitted : /\ out.test_offsets[f + 1] <= Len(out.test_indices)
                              /\ Slice(f) = plan.folds[f].test
    /\ NoDuplicates(out.test_indices)
    /\ \A s \in Elements(out.test_indices) :
          \E g \in 1 .. Fitted : s \in Elements(plan.folds[g].test)
    /\ \A g \in 1 .. Fitted : Elements(plan.folds[g].test) \subseteq Elements(out.test_indices)

OffsetInv ==
    /\ InCall => DisjointInv /\ SliceInv
    /\ Answered => SliceInv /\ Elements(out.test_indices) = Samples

LEMMA SliceOfPrefix ==
    ASSUME NEW q \in Seq(Int), NEW t \in Seq(Int), NEW a \in Nat, NEW b \in Nat, b <= Len(q)
    PROVE  SubSeq(q \o t, a + 1, b) = SubSeq(q, a + 1, b)
  <1>0. q \in Seq(Int) /\ t \in Seq(Int) /\ Len(q) \in Nat /\ a + 1 \in Int /\ b \in Int
    OBVIOUS
  <1>1. CASE b < a + 1
    <2>1. SubSeq(q \o t, a + 1, b) = <<>>
      BY <1>0, <1>1, SubSeqEmpty, Zenon
    <2>2. SubSeq(q, a + 1, b) = <<>>
      BY <1>0, <1>1, SubSeqEmpty, Zenon
    <2> QED
      BY <2>1, <2>2
  <1>2. CASE ~(b < a + 1)
    <2>1. a + 1 \in 1 .. Len(q) /\ b \in 1 .. Len(q)
      BY <1>0, <1>2
    <2> QED
      BY <1>0, <2>1, SubSeqOfConcat1, Zenon
  <1> QED
    BY <1>1, <1>2

LEMMA PrefixKept ==
    \A q, t \in Seq(Int) : \A a, b \in Nat :
        b <= Len(q) => SubSeq(q \o t, a + 1, b) = SubSeq(q, a + 1, b)
  BY SliceOfPrefix, Zenon

LEMMA SuffixAppended ==
    ASSUME NEW q \in Seq(Int), NEW t \in Seq(Int)
    PROVE  SubSeq(q \o t, Len(q) + 1, Len(q) + Len(t)) = SubSeq(t, 1, Len(t))
  OBVIOUS

(* Appending a slice and its end moves none of the slices before it.       *)
Appended(o, q, t, n, o2, q2) ==
    /\ o \in Seq(Nat) /\ q \in Seq(Int) /\ t \in Seq(Int) /\ n \in Nat
    /\ Len(o) = n + 1 /\ o[n + 1] = Len(q)
    /\ o2 = Append(o, Len(q) + Len(t)) /\ q2 = q \o t

SlicesKept(o, q, t, n, o2, q2) ==
    /\ Len(q2) \in Nat /\ Len(o2) = n + 2 /\ o2[n + 2] = Len(q2)
    /\ SubSeq(q2, o2[n + 1] + 1, o2[n + 2]) = t
    /\ \A f \in 1 .. n : o[f + 1] <= Len(q) =>
          /\ o2[f + 1] <= Len(q2)
          /\ SubSeq(q2, o2[f] + 1, o2[f + 1]) = SubSeq(q, o[f] + 1, o[f + 1])

LEMMA AppendedSlice ==
    ASSUME NEW o, NEW q, NEW t, NEW n, NEW o2, NEW q2, Appended(o, q, t, n, o2, q2)
    PROVE  SlicesKept(o, q, t, n, o2, q2)
  <1>0. /\ o \in Seq(Nat) /\ q \in Seq(Int) /\ t \in Seq(Int) /\ n \in Nat
        /\ Len(o) = n + 1 /\ o[n + 1] = Len(q)
        /\ o2 = Append(o, Len(q) + Len(t)) /\ q2 = q \o t
    BY DEF Appended
  <1>1. /\ Len(q) \in Nat /\ Len(t) \in Nat /\ Len(q2) = Len(q) + Len(t) /\ q2 \in Seq(Int)
        /\ Len(o2) = n + 2 /\ o2[n + 2] = Len(q) + Len(t)
        /\ \A i \in 1 .. n + 1 : o2[i] = o[i] /\ o[i] \in Nat
    BY <1>0
  <1>2. SubSeq(q2, o2[n + 1] + 1, o2[n + 2]) = t
    <2>1. o2[n + 1] = Len(q)
      BY <1>0, <1>1
    <2>2. SubSeq(q2, Len(q) + 1, Len(q) + Len(t)) = SubSeq(t, 1, Len(t))
      BY <1>0, SuffixAppended, Zenon
    <2>3. SubSeq(t, 1, Len(t)) = t
      BY <1>0, SubSeqFull
    <2> QED
      BY <1>1, <2>1, <2>2, <2>3
  <1>3. ASSUME NEW f \in 1 .. n, o[f + 1] <= Len(q)
        PROVE  /\ o2[f + 1] <= Len(q2)
               /\ SubSeq(q2, o2[f] + 1, o2[f + 1]) = SubSeq(q, o[f] + 1, o[f + 1])
    <2>1. /\ f \in 1 .. n + 1 /\ f + 1 \in 1 .. n + 1
          /\ o2[f] = o[f] /\ o2[f + 1] = o[f + 1] /\ o[f] \in Nat /\ o[f + 1] \in Nat
      BY <1>0, <1>1
    <2>2. o2[f + 1] <= Len(q2)
      BY <1>1, <1>3, <2>1
    <2>3. SubSeq(q2, o[f] + 1, o[f + 1]) = SubSeq(q, o[f] + 1, o[f + 1])
      <3>1. \A a, b \in Nat : b <= Len(q) => SubSeq(q2, a + 1, b) = SubSeq(q, a + 1, b)
        <4>1. q \in Seq(Int) /\ t \in Seq(Int) /\ q2 = q \o t
          BY <1>0
        <4>2. \A a, b \in Nat : b <= Len(q) => SubSeq(q \o t, a + 1, b) = SubSeq(q, a + 1, b)
          BY <4>1, PrefixKept, Zenon
        <4> QED
          BY <4>1, <4>2, Zenon
      <3>2. o[f] \in Nat /\ o[f + 1] \in Nat /\ o[f + 1] <= Len(q)
        BY <1>3, <2>1
      <3> QED
        BY <3>1, <3>2
    <2> QED
      BY <2>1, <2>2, <2>3
  <1> QED
    <2>1. Len(q2) \in Nat /\ Len(o2) = n + 2 /\ o2[n + 2] = Len(q2)
      BY <1>1
    <2> QED
      BY <1>2, <1>3, <2>1, Zenon DEF SlicesKept

(* Two lists without repetitions and without a common element.             *)
LEMMA AppendedElements ==
    ASSUME NEW q \in Seq(Int), NEW t \in Seq(Int)
    PROVE  /\ Elements(q \o t) = Elements(q) \cup Elements(t)
           /\ NoDuplicates(q) /\ NoDuplicates(t) /\ Elements(q) \cap Elements(t) = {}
                => NoDuplicates(q \o t)
  <1>1. /\ Len(q) \in Nat /\ Len(t) \in Nat
        /\ DOMAIN q = 1 .. Len(q) /\ DOMAIN t = 1 .. Len(t)
        /\ DOMAIN (q \o t) = 1 .. Len(q) + Len(t)
        /\ \A i \in 1 .. Len(q) : (q \o t)[i] = q[i]
        /\ \A i \in 1 .. Len(t) : (q \o t)[Len(q) + i] = t[i]
    OBVIOUS
  <1>2. \A i \in DOMAIN (q \o t) :
           \/ i \in DOMAIN q /\ (q \o t)[i] = q[i]
           \/ i - Len(q) \in DOMAIN t /\ (q \o t)[i] = t[i - Len(q)]
    BY <1>1
  <1>3. Elements(q \o t) = Elements(q) \cup Elements(t)
    <2>1. ASSUME NEW x \in Elements(q \o t) PROVE x \in Elements(q) \cup Elements(t)
      BY <1>2, <2>1 DEF Elements
    <2>2. ASSUME NEW x \in Elements(q) PROVE x \in Elements(q \o t)
      <3>1. PICK i \in 1 .. Len(q) : x = q[i]
        BY <1>1 DEF Elements
      <3>2. i \in DOMAIN (q \o t) /\ (q \o t)[i] = x
        BY <1>1, <3>1
      <3> QED
        BY <3>2 DEF Elements
    <2>3. ASSUME NEW x \in Elements(t) PROVE x \in Elements(q \o t)
      <3>1. PICK i \in 1 .. Len(t) : x = t[i]
        BY <1>1 DEF Elements
      <3>2. Len(q) + i \in DOMAIN (q \o t) /\ (q \o t)[Len(q) + i] = x
        BY <1>1, <3>1
      <3> QED
        BY <3>2 DEF Elements
    <2> QED
      BY <2>1, <2>2, <2>3
  <1>4. ASSUME NoDuplicates(q), NoDuplicates(t), Elements(q) \cap Elements(t) = {},
               NEW i \in DOMAIN (q \o t), NEW j \in DOMAIN (q \o t), (q \o t)[i] = (q \o t)[j]
        PROVE  i = j
    <2>1. CASE i \in DOMAIN q /\ (q \o t)[i] = q[i] /\ j \in DOMAIN q /\ (q \o t)[j] = q[j]
      BY <1>4, <2>1 DEF NoDuplicates
    <2>2. CASE /\ i - Len(q) \in DOMAIN t /\ (q \o t)[i] = t[i - Len(q)]
               /\ j - Len(q) \in DOMAIN t /\ (q \o t)[j] = t[j - Len(q)]
      <3>1. i - Len(q) = j - Len(q)
        BY <1>4, <2>2 DEF NoDuplicates
      <3> QED
        BY <1>1, <3>1
    <2>3. CASE i \in DOMAIN q /\ (q \o t)[i] = q[i]
               /\ j - Len(q) \in DOMAIN t /\ (q \o t)[j] = t[j - Len(q)]
      BY <1>4, <2>3 DEF Elements
    <2>4. CASE j \in DOMAIN q /\ (q \o t)[j] = q[j]
               /\ i - Len(q) \in DOMAIN t /\ (q \o t)[i] = t[i - Len(q)]
      BY <1>4, <2>4 DEF Elements
    <2> QED
      BY <1>2, <2>1, <2>2, <2>3, <2>4
  <1> QED
    BY <1>3, <1>4 DEF NoDuplicates

LEMMA OffsetInit == Init => OffsetInv
  BY DEF Init, OffsetInv, InCall, Answered

(* An accepted fold shares no test sample with the folds before it. *)
LEMMA DisjointStep ==
    ASSUME TypeOK, CallInv, CountInv, DisjointInv, pc = "validate",
           FoldAccepted(plan.folds[fold], counts)
    PROVE  \A g, h \in 1 .. fold :
              g # h => Elements(plan.folds[g].test) \cap Elements(plan.folds[h].test) = {}
  <1>1. fold \in Nat \ {0} /\ Checked = fold - 1
    BY DEF CallInv, TypeOK, Plan, Checked
  <1>2. \A g \in 1 .. fold : g = fold \/ g \in 1 .. fold - 1
    BY <1>1
  <1>3. ASSUME NEW g \in 1 .. fold - 1
        PROVE  Elements(plan.folds[g].test) \cap Elements(plan.folds[fold].test) = {}
    <2>1. \A s \in Elements(plan.folds[fold].test) : s \in Samples /\ counts[s] = 0
      BY DEF FoldAccepted, WellFormed
    <2> QED
      BY <1>1, <1>3, <2>1 DEF CountInv
  <1>4. ASSUME NEW g \in 1 .. fold, NEW h \in 1 .. fold, g # h
        PROVE  Elements(plan.folds[g].test) \cap Elements(plan.folds[h].test) = {}
    <2>1. CASE g \in 1 .. fold - 1 /\ h \in 1 .. fold - 1
      BY <1>1, <1>4, <2>1 DEF DisjointInv
    <2>2. CASE g = fold /\ h \in 1 .. fold - 1
      BY <1>3, <2>2
    <2>3. CASE h = fold /\ g \in 1 .. fold - 1
      BY <1>3, <2>3
    <2> QED
      BY <1>2, <1>4, <2>1, <2>2, <2>3
  <1> QED
    BY <1>4

(* One fold scattered: its slice joins the others behind the last offset. *)
LEMMA SliceStep ==
    ASSUME TypeOK, CallInv, CountInv, DisjointInv, SliceInv, pc = "fit",
           out' = Scatter(plan.folds[fold]), plan' = plan, Fitted' = fold
    PROVE  SliceInv'
  <1> DEFINE o == out.test_offsets
             q == out.test_indices
             t == plan.folds[fold].test
             n == fold - 1
             o2 == Append(o, Len(q) + Len(t))
             q2 == q \o t
  <1>1. /\ fold \in Nat \ {0} /\ n \in Nat /\ Fitted = n /\ Len(plan.folds) \in Nat
        /\ \A g \in 1 .. fold : g \in 1 .. Len(plan.folds) /\ (g = fold \/ g \in 1 .. n)
        /\ fold \in 1 .. fold /\ \A g \in 1 .. n : g \in 1 .. fold /\ g # fold
    BY CurrentFold DEF CallInv, TypeOK, Plan, Fitted
  <1>2. o \in Seq(Nat) /\ q \in Seq(Int)
    BY DEF TypeOK, Result
  <1>3. \A g \in 1 .. fold : plan.folds[g] \in Fold /\ WellFormed(plan.folds[g])
    BY <1>1, CurrentFold DEF CountInv, Checked
  <1>4. t \in Seq(Int) /\ NoDuplicates(t)
    BY <1>1, <1>3 DEF Fold, WellFormed
  <1>5. out'.test_offsets = o2 /\ out'.test_indices = q2
    BY DEF Scatter
  <1>6. /\ Len(o) = n + 1 /\ o[n + 1] = Len(q) /\ NoDuplicates(q)
        /\ \A f \in 1 .. n : o[f + 1] <= Len(q) /\ SubSeq(q, o[f] + 1, o[f + 1]) = plan.folds[f].test
        /\ \A s \in Elements(q) : \E g \in 1 .. n : s \in Elements(plan.folds[g].test)
        /\ \A g \in 1 .. n : Elements(plan.folds[g].test) \subseteq Elements(q)
    BY <1>1 DEF SliceInv, Slice
  <1>7. /\ Len(q2) \in Nat /\ Len(o2) = n + 2 /\ o2[n + 2] = Len(q2)
        /\ SubSeq(q2, o2[n + 1] + 1, o2[n + 2]) = t
        /\ \A f \in 1 .. n : /\ o2[f + 1] <= Len(q2)
                             /\ SubSeq(q2, o2[f] + 1, o2[f + 1]) = plan.folds[f].test
    <2>1. Appended(o, q, t, n, o2, q2)
      BY <1>1, <1>2, <1>4, <1>6 DEF Appended
    <2> HIDE DEF o, q, t, n, o2, q2
    <2>2. SlicesKept(o, q, t, n, o2, q2)
      BY <2>1, AppendedSlice, Zenon
    <2> QED
      BY <1>6, <2>2, Zenon DEF SlicesKept
  <1>8. Elements(q) \cap Elements(t) = {}
    <2>1. \A g \in 1 .. n : Elements(plan.folds[g].test) \cap Elements(t) = {}
      BY <1>1 DEF DisjointInv, Checked
    <2> QED
      BY <1>6, <2>1
  <1>9. Elements(q2) = Elements(q) \cup Elements(t) /\ NoDuplicates(q2)
    <2> HIDE DEF q, t
    <2>1. q \in Seq(Int) /\ t \in Seq(Int) /\ NoDuplicates(q) /\ NoDuplicates(t)
      BY <1>2, <1>4, <1>6
    <2> QED
      BY <1>8, <2>1, AppendedElements, Zenon
  <1>10. n + 2 = fold + 1 /\ n + 1 = fold
    <2>1. fold \in Int
      BY <1>1
    <2> QED
      BY <2>1
  <1> HIDE DEF o2, q2
  <1>11. \A f \in 1 .. fold : /\ o2[f + 1] <= Len(q2)
                             /\ SubSeq(q2, o2[f] + 1, o2[f + 1]) = plan.folds[f].test
    <2>1. o2[fold + 1] <= Len(q2) /\ SubSeq(q2, o2[fold] + 1, o2[fold + 1]) = t
      <3>1. o2[fold + 1] = Len(q2) /\ SubSeq(q2, o2[fold] + 1, o2[fold + 1]) = t
        BY <1>7, <1>10, Zenon
      <3> QED
        BY <1>7, <3>1
    <2> QED
      BY <1>1, <1>7, <2>1, Zenon
  <1>12. /\ \A s \in Elements(q2) : \E g \in 1 .. fold : s \in Elements(plan.folds[g].test)
         /\ \A g \in 1 .. fold : Elements(plan.folds[g].test) \subseteq Elements(q2)
    BY <1>1, <1>6, <1>9
  <1> QED
    <2>1. \A f \in 1 .. fold : out'.test_offsets[f + 1] <= Len(out'.test_indices) /\ Slice(f)' = plan'.folds[f].test
      BY <1>5, <1>11 DEF Slice
    <2>2. Len(out'.test_offsets) = fold + 1 /\ out'.test_offsets[fold + 1] = Len(out'.test_indices)
      BY <1>5, <1>7, <1>10
    <2> QED
      BY <1>5, <1>9, <1>12, <2>1, <2>2 DEF SliceInv

LEMMA OffsetStep == InductiveInv /\ OffsetInv /\ [Next]_cvVars => OffsetInv'
  <1> SUFFICES ASSUME InductiveInv, OffsetInv, [Next]_cvVars PROVE OffsetInv'
    OBVIOUS
  <1>0. TypeOK /\ (InCall => CallInv /\ CountInv /\ DisjointInv /\ SliceInv)
    BY DEF InductiveInv, OffsetInv
  <1>1. ASSUME NEW code, Return(code, NoResult) PROVE OffsetInv'
    BY <1>1 DEF Return, OffsetInv, InCall, Answered
  <1>2. ASSUME NEW p \in Plans, NEW m \in MatrixStatuses, NEW fits \in BOOLEAN,
               Begin(p, m, fits)
        PROVE  OffsetInv'
    <2>1. pc' = "validate" /\ fold' = 1 /\ out' = FreshResult
      BY <1>2 DEF Begin, Enter
    <2>2. Checked' = 0 /\ Fitted' = 0
      BY <2>1 DEF Checked, Fitted
    <2>3. DisjointInv'
      BY <2>2 DEF DisjointInv
    <2>4. SliceInv'
      BY <2>1, <2>2 DEF SliceInv, FreshResult, NoDuplicates, Elements
    <2> QED
      BY <2>1, <2>3, <2>4 DEF OffsetInv, InCall, Answered
  <1>3. ASSUME NEW p \in Plans, NEW m \in MatrixStatuses, NEW fits \in BOOLEAN,
               RejectArguments(p, m, fits)
        PROVE  OffsetInv'
    BY <1>3 DEF RejectArguments, OffsetInv, InCall, Answered
  <1>4. CASE ValidateFold
    <2>0. pc = "validate" /\ CallInv /\ CountInv /\ DisjointInv /\ SliceInv
      BY <1>0, <1>4 DEF ValidateFold, InCall
    <2>1. CASE FoldAccepted(plan.folds[fold], counts)
      <3>1. fold \in 1 .. Len(plan.folds) /\ Len(plan.folds) \in Nat
        BY <1>0, <2>0, CurrentFold DEF CallInv
      <3>2. /\ plan' = plan /\ out' = out /\ pc' \in {"validate", "fit"}
            /\ Checked' = fold /\ Fitted' = 0 /\ Fitted = 0
        BY <1>4, <2>0, <2>1, <3>1 DEF ValidateFold, Checked, Fitted
      <3>3. DisjointInv'
        BY <1>0, <2>0, <2>1, <3>2, DisjointStep DEF DisjointInv
      <3>4. SliceInv'
        BY <2>0, <3>2 DEF SliceInv, Slice
      <3> QED
        BY <3>2, <3>3, <3>4 DEF OffsetInv, InCall, Answered
    <2> QED
      BY <1>1, <1>4, <2>1 DEF ValidateFold
  <1>5. CASE FitFold
    <2>0. pc = "fit" /\ CallInv /\ CountInv /\ DisjointInv /\ SliceInv
      BY <1>0, <1>5 DEF FitFold, InCall
    <2>1. CASE ~Return("FIT_ERROR", NoResult)
      <3>1. fold \in 1 .. Len(plan.folds) /\ Len(plan.folds) \in Nat
        BY <1>0, <2>0, CurrentFold DEF CallInv
      <3>2. /\ out' = Scatter(plan.folds[fold]) /\ plan' = plan
            /\ pc' \in {"fit", "check"} /\ Fitted' = fold /\ Checked' = Checked
        BY <1>5, <2>0, <2>1, <3>1 DEF FitFold, Fitted, Checked
      <3>3. SliceInv'
        BY <1>0, <2>0, <3>2, SliceStep
      <3>4. DisjointInv'
        BY <2>0, <3>2 DEF DisjointInv
      <3> QED
        BY <3>2, <3>3, <3>4 DEF OffsetInv, InCall, Answered
    <2> QED
      BY <1>1, <2>1
  <1>6. CASE CheckCoverage
    <2>0. pc = "check" /\ CallInv /\ CountInv /\ SliceInv
      BY <1>0, <1>6 DEF CheckCoverage, InCall
    <2>1. CASE Return("OK", out) /\ \A s \in Samples : counts[s] = 1
      <3>1. pc' = "idle" /\ out' = out /\ plan' = plan /\ Fitted' = Fitted
            /\ Fitted = Len(plan.folds) /\ Checked = Len(plan.folds)
        BY <2>0, <2>1 DEF Return, Fitted, Checked
      <3>2. SliceInv'
        BY <2>0, <3>1 DEF SliceInv, Slice
      <3>3. Elements(out.test_indices) \subseteq Samples
        BY <2>0, <3>1 DEF SliceInv, CountInv, WellFormed
      <3>4. ASSUME NEW s \in Samples PROVE s \in Elements(out.test_indices)
        <4>1. PICK g \in 1 .. Len(plan.folds) : s \in Elements(plan.folds[g].test)
          BY <2>0, <2>1, <3>1 DEF CountInv
        <4> QED
          BY <2>0, <3>1, <4>1 DEF SliceInv
      <3> QED
        BY <3>1, <3>2, <3>3, <3>4 DEF OffsetInv, InCall
    <2> QED
      BY <1>1, <1>6, <2>1 DEF CheckCoverage
  <1>7. CASE Catch
    BY <1>1, <1>7 DEF Catch
  <1>8. CASE UNCHANGED cvVars
    BY <1>8 DEF cvVars, OffsetInv, InCall, Answered, DisjointInv, SliceInv, Slice,
                Checked, Fitted
  <1>9. CASE RejectBuffers
    BY <1>1, <1>9 DEF RejectBuffers
  <1> QED
    BY <1>2, <1>3, <1>4, <1>5, <1>6, <1>7, <1>8, <1>9 DEF Next, CvStep

(* The slices cut out of a returned result with test_offsets are the test   *)
(* sets of the plan's folds, in order, and list every sample exactly once.  *)
THEOREM SlicesMatch == Spec => []FoldSlices
  <1>1. InductiveInv /\ OffsetInv => FoldSlices
    <2> SUFFICES ASSUME TypeOK, OffsetInv, Answered PROVE FoldSlices
      BY DEF InductiveInv, FoldSlices
    <2>1. /\ SliceInv /\ Elements(out.test_indices) = Samples /\ Fitted = Len(plan.folds)
          /\ DOMAIN plan.folds = 1 .. Len(plan.folds)
      BY DEF OffsetInv, Answered, Fitted, TypeOK, Plan
    <2> QED
      BY <2>1 DEF FoldSlices, SliceInv, Slice
  <1> QED
    BY <1>1, Inductive, OffsetInit, OffsetStep, PTL DEF Spec
=============================================================================
