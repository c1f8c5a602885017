-------------------------- MODULE FittedEstimator --------------------------
(***************************************************************************)
(* What an estimator object promises: an answer always comes from the last *)
(* fit that succeeded, with the settings of that moment, and only for an   *)
(* argument that suits that fit.  Calls that raised in between, set_params, *)
(* copies and pickles change nothing in it.                                *)
(***************************************************************************)
CONSTANTS Estimators, Data, Settings,
          Suits(_, _),      \* Suits(fit, x): x is an argument that fit can answer for
          Unfitted, Nothing,
          Raised            \* what a call that raises leaves as its answer

VARIABLES kind,         \* what objects of their class answer for
          settings,     \* per object: its parameters
          model,        \* per object: its last successful fit
          answer        \* what the last call answered

feVars == <<kind, settings, model, answer>>

Init == /\ settings \in [Estimators -> Settings]
        /\ model = [e \in Estimators |-> Unfitted]
        /\ answer = Nothing

Refuse == answer' = Raised /\ UNCHANGED <<kind, settings, model>>

Set(e, s, m) == /\ settings' = [settings EXCEPT ![e] = s]
                /\ model' = [model EXCEPT ![e] = m]
                /\ answer' = Nothing /\ UNCHANGED kind

SetParams(e, s) == Set(e, s, model[e])
Fit(e, d) == Set(e, settings[e], [answers |-> kind, data |-> d, settings |-> settings[e]])
Copy(e, f) == Set(f, settings[e], model[e])
New(e, s) == Set(e, s, Unfitted)          \* an object just built, as a clone is

Predict(e, x) == /\ model[e] # Unfitted /\ Suits(model[e], x)
                 /\ answer' = [from |-> model[e], on |-> x]
                 /\ UNCHANGED <<kind, settings, model>>

Next == \/ Refuse
        \/ \E e \in Estimators : \/ \E s \in Settings : SetParams(e, s) \/ New(e, s)
                                 \/ \E d \in Data : Fit(e, d) \/ Predict(e, d)
                                 \/ \E f \in Estimators : Copy(e, f)

Spec == Init /\ [][Next]_feVars
=============================================================================
