----------------------------- MODULE OutOfFold -----------------------------
(***************************************************************************)
(* What cross_validate_regression promises its callers: one call at a time *)
(* returns either an error and nothing else, or, for every sample of X,    *)
(* one prediction made by a model that never saw that sample.              *)
(***************************************************************************)
CONSTANTS Samples,      \* the rows of X
          NoResult,     \* CrossValidationResult{}: the reset result
          Failures      \* the error codes a call may return

VARIABLES state,        \* "idle" between calls, "busy" inside one
          answer,       \* the status the last call returned
          trained       \* trained[s]: the rows the model predicting s was fitted on

oofVars == <<state, answer, trained>>

(* A prediction for every sample, none of them from a model fitted on it. *)
LeakFree(t) == t \in [Samples -> (SUBSET Samples) \ {{}}]
                 /\ \A s \in Samples : s \notin t[s]

Init == state = "idle" /\ answer = "OK" /\ trained = NoResult

Call == state = "idle" /\ state' = "busy" /\ trained' = NoResult /\ UNCHANGED answer

(* An argument error returns before the caller sees the call begin, a later *)
(* one from inside it.                                                      *)
Fail == state' = "idle" /\ trained' = NoResult /\ answer' \in Failures

Succeed == /\ state = "busy" /\ state' = "idle"
           /\ answer' = "OK" /\ LeakFree(trained')

Next == Call \/ Fail \/ Succeed

Spec == Init /\ [][Next]_oofVars
=============================================================================
