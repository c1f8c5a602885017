--------------------------- MODULE ModelEstimator ---------------------------
(***************************************************************************)
(* The estimator objects of pls4all.sklearn: fit, predict or transform,    *)
(* set_params, copies (pickle, deepcopy) and clones, with every point where *)
(* a call can raise.  All objects of a behaviour are of one class.         *)
(*                                                                         *)
(* Numbers are abstracted to provenance: what a fit leaves behind is the   *)
(* data and the parameters that reached the core.                          *)
(* The form of an answer is left out, and with it _y_ndim_: whether y was  *)
(* a vector, which a fit records before anything of it can fail.           *)
(***************************************************************************)
EXTENDS EstimatorClasses

CONSTANTS Estimators,   \* the objects
          Classes,      \* classes to consider
          Data,         \* what is passed: content of X, rows, columns, targets, classes, finite
          Settings      \* parameters: n_components, solver, tuning

DataRecord == [x : STRING, rows : Nat, cols : Nat, targets : Nat, classes : Nat, finite : BOOLEAN]
(* tuning stands for the numbers a class documents beside these two: max_iter *)
(* or sparsity_lambda; "default" is what the core uses when it is told nothing. *)
Tunings == {"default", "tuned"}
SettingsRecord == [n_components : Nat, solver : AnySolver, tuning : Tunings]

ASSUME EstimatorAssumption == /\ Classes \subseteq AllClasses
                              /\ Data \subseteq DataRecord
                              /\ Settings \subseteq SettingsRecord

VARIABLES class, params,
          n_features_in_,   \* 0: no such attribute yet
          fitted_,          \* the fit of coef_, support_, predictions_, ...
          bundle_,          \* the fit in the exported bytes
          handle_,          \* the live model handle predict caches, and who opened it
          answer            \* what the last call returned

attrVars == <<n_features_in_, fitted_, bundle_>>
esVars == <<class, params, attrVars, handle_, answer>>

Unfitted == [answers |-> "none"]
Closed == [of |-> Unfitted]
Nothing == [from |-> Unfitted]          \* self or an exception
Raised == [from |-> Unfitted, raised |-> TRUE]

-----------------------------------------------------------------------------
(* What a configuration tells the core.  Config has no property max_iter or *)
(* sparsity_lambda: an assignment to them stays on the Python object.       *)
ReachesAll(c, p) ==         \* mutant: the assignments reach the core
    p
Reaches(c, p) == IF c.tuned THEN p ELSE [p EXCEPT !.tuning = "default"]

Trained(c, p, d) == [answers |-> c.answers, data |-> d, settings |-> Reaches(c, p)]

MinOf(a, b) == IF a < b THEN a ELSE b

(* validate_fit_request. *)
Accepts(algorithm, solver, deflation) ==
    \/ algorithm \in {"PLS_REGRESSION", "PLS_DA"} /\ solver \in Solvers /\ deflation = "REGRESSION"
    \/ algorithm = "PLS_CANONICAL" /\ solver \in {"nipals", "svd"} /\ deflation = "CANONICAL"
    \/ algorithm = "PLS_SVD" /\ solver = "svd" /\ deflation = "CANONICAL"
    \/ algorithm \in {"OPLS", "OPLS_DA"} /\ solver = "nipals" /\ deflation = "ORTHOGONAL"
    \/ algorithm = "PCR" /\ solver = "svd" /\ deflation = "REGRESSION"
    \/ algorithm = "SPARSE_PLS" /\ solver = "simpls" /\ deflation = "REGRESSION"
RankBound(algorithm, d) ==
    IF algorithm \in {"PLS_CANONICAL", "PLS_SVD"} THEN MinOf(MinOf(d.rows, d.cols), d.targets)
                                                  ELSE MinOf(d.rows, d.cols)

(* Config.solver, then Model.fit: whether it returns a model. *)
Fits(c, p, d) == /\ p.solver \in Solvers
                 /\ Accepts(c.config.algorithm, p.solver, c.config.deflation)
                 /\ d.rows >= 2 /\ p.n_components \in 1 .. RankBound(c.config.algorithm, d)

(* fit_model: a sparse fit without penalty is one of plain SIMPLS. *)
FittedAlgorithm(c, t) ==
    IF c.config.algorithm = "SPARSE_PLS" /\ t.settings.tuning = "default"
    THEN "PLS_REGRESSION" ELSE c.config.algorithm

(* The combinations Model.from_bytes takes back. *)
Imports(c, t) ==
    /\ Accepts(FittedAlgorithm(c, t), t.settings.solver, c.config.deflation)
    /\ FittedAlgorithm(c, t) # "SPARSE_PLS"

-----------------------------------------------------------------------------
Init == /\ class \in Classes
        /\ params \in [Estimators -> {p \in Settings : p.solver \in class.solvers}]
        /\ n_features_in_ = [e \in Estimators |-> 0]
        /\ fitted_ = [e \in Estimators |-> Unfitted]
        /\ bundle_ = [e \in Estimators |-> Unfitted]
        /\ handle_ = [e \in Estimators |-> Closed]
        /\ answer = Nothing

Opened(e, t) == [of |-> t, by |-> e]

(* A fit that succeeds leaves its own results; _store_fitted_model also the *)
(* bytes and the handle they were exported from.                           *)
StoreFittedModelOnly(e, t) ==       \* mutant: the handle is left to predict, which keeps one it has
    bundle_' = [bundle_ EXCEPT ![e] = t] /\ handle_' = handle_
StoreFittedModel(e, t) == /\ bundle_' = [bundle_ EXCEPT ![e] = t]
                          /\ handle_' = [handle_ EXCEPT ![e] = Opened(e, t)]
DropHandle(e) == handle_' = [handle_ EXCEPT ![e] = Closed]

SetsWidthRows(e, d) ==      \* mutant: X.shape[0]
    n_features_in_' = [n_features_in_ EXCEPT ![e] = d.rows]
SetsWidth(e, d) == n_features_in_' = [n_features_in_ EXCEPT ![e] = d.cols]
Commits(e, d) == /\ fitted_' = [fitted_ EXCEPT ![e] = Trained(class, params[e], d)]
                 /\ SetsWidth(e, d) /\ answer' = Nothing
Raises == answer' = Raised

(* _PlsRegressorBase.fit: the width and the handle go before the core is   *)
(* asked.                                                                  *)
FitRegressor(e, d) ==
    /\ class.fit = "regressor"
    /\ \/ ~d.finite /\ Raises /\ UNCHANGED <<attrVars, handle_>>
       \/ /\ d.finite /\ Fits(class, params[e], d)
          /\ Commits(e, d) /\ StoreFittedModel(e, Trained(class, params[e], d))
       \/ /\ d.finite /\ ~Fits(class, params[e], d)
          /\ SetsWidth(e, d) /\ DropHandle(e) /\ Raises /\ UNCHANGED <<fitted_, bundle_>>

(* PLSDAClassifier.fit: "All checks passed; now commit fitted state." *)
FitDiscriminantEarly(e, d) ==       \* mutant: validated as the regressors are
    /\ class.fit = "discriminant"
    /\ IF d.finite /\ d.classes >= 2 /\ Fits(class, params[e], d)
       THEN Commits(e, d) /\ StoreFittedModel(e, Trained(class, params[e], d))
       ELSE SetsWidth(e, d) /\ Raises /\ UNCHANGED <<fitted_, bundle_, handle_>>
FitDiscriminant(e, d) ==
    /\ class.fit = "discriminant"
    /\ IF d.finite /\ d.classes >= 2 /\ Fits(class, params[e], d)
       THEN Commits(e, d) /\ StoreFittedModel(e, Trained(class, params[e], d))
       ELSE Raises /\ UNCHANGED <<attrVars, handle_>>

(* The classes around one result: a missing extra input, the C method or a *)
(* missing key may raise before anything is kept.                          *)
FitResult(e, d) ==
    /\ class.fit = "result" /\ UNCHANGED <<bundle_, handle_>>
    /\ \/ (class.finite => d.finite) /\ Commits(e, d)
       \/ Raises /\ UNCHANGED attrVars

(* The selectors: the width is set, then top_k or min_features is checked  *)
(* and the method run.                                                     *)
FitSelector(e, d) ==
    /\ class.fit = "selector" /\ UNCHANGED <<bundle_, handle_>>
    /\ \/ d.finite /\ Commits(e, d)
       \/ d.finite /\ SetsWidth(e, d) /\ Raises /\ UNCHANGED <<fitted_, bundle_>>
       \/ ~d.finite /\ Raises /\ UNCHANGED attrVars

Fit(e, d) == /\ UNCHANGED <<class, params>>
             /\ FitRegressor(e, d) \/ FitDiscriminant(e, d) \/ FitResult(e, d) \/ FitSelector(e, d)

SetParams(e, p) == /\ p.solver \in class.solvers
                   /\ params' = [params EXCEPT ![e] = p] /\ answer' = Nothing
                   /\ UNCHANGED <<class, attrVars, handle_>>

Becomes(f, p, width, fit, bundle) ==
    /\ params' = [params EXCEPT ![f] = p]
    /\ n_features_in_' = [n_features_in_ EXCEPT ![f] = width]
    /\ fitted_' = [fitted_ EXCEPT ![f] = fit] /\ bundle_' = [bundle_ EXCEPT ![f] = bundle]
    /\ answer' = Nothing /\ UNCHANGED class

(* pickle, copy, deepcopy: f is a new object with e's state but for the    *)
(* handle; a pickle may come back in another process.                      *)
CopySharing(e, f) ==                \* mutant: __getstate__ keeps the handle
    /\ e # f /\ Becomes(f, params[e], n_features_in_[e], fitted_[e], bundle_[e])
    /\ handle_' = [handle_ EXCEPT ![f] = handle_[e]]
Copy(e, f) == /\ e # f /\ Becomes(f, params[e], n_features_in_[e], fitted_[e], bundle_[e])
              /\ DropHandle(f)
Clone(e, f) == /\ e # f /\ Becomes(f, params[e], 0, Unfitted, Unfitted)
               /\ DropHandle(f)

-----------------------------------------------------------------------------
Answers(t, x) == answer' = [from |-> t, on |-> x]

(* _check_X_p4a against the width the last fit set, successful or not. *)
Checked(e, x) == x.finite /\ x.cols = n_features_in_[e]

(* _ensure_model_handle: the cached handle, or one rebuilt from the bytes. *)
Ensure(e) == IF handle_[e] = Closed THEN Opened(e, bundle_[e]) ELSE handle_[e]

Ready(e, x) == /\ bundle_[e] # Unfitted /\ Checked(e, x)
               /\ handle_[e] # Closed \/ Imports(class, bundle_[e])

(* The core compares the width with the model's once more. *)
PredictModel(e, x) ==
    /\ class.fit \in {"regressor", "discriminant"}
    /\ UNCHANGED attrVars
    /\ \/ /\ Ready(e, x) /\ handle_' = [handle_ EXCEPT ![e] = Ensure(e)]
          /\ IF x.cols = Ensure(e).of.data.cols THEN Answers(Ensure(e).of, x) ELSE Raises
       \/ ~Ready(e, x) /\ Raises /\ UNCHANGED handle_

(* What the other classes check their argument for.  A mask is only applied *)
(* to as many columns as it has; an address, id(X), may be that of another  *)
(* array by now.                                                            *)
Suited(e, x) ==
    /\ fitted_[e] # Unfitted
    /\ CASE class.answers = "content" -> x.x = fitted_[e].data.x
         [] class.answers = "address" -> TRUE
         [] class.fit = "selector" -> Checked(e, x) /\ x.cols = fitted_[e].data.cols
         [] OTHER -> Checked(e, x)
PredictResult(e, x) ==
    /\ class.fit \in {"result", "selector"}
    /\ UNCHANGED <<attrVars, handle_>>
    /\ \/ Suited(e, x) /\ Answers(fitted_[e], x)
       \/ (Suited(e, x) => class.answers = "address") /\ Raises

Predict(e, x) == /\ UNCHANGED <<class, params>>
                 /\ PredictModel(e, x) \/ PredictResult(e, x)

Next == \E e \in Estimators : \/ \E d \in Data : Fit(e, d) \/ Predict(e, d)
                              \/ \E p \in Settings : SetParams(e, p)
                              \/ \E f \in Estimators : Copy(e, f) \/ Clone(e, f)

Spec == Init /\ [][Next]_esVars
-----------------------------------------------------------------------------
Trainings == {Unfitted} \cup
    [answers : {class.answers}, data : Data, settings : {Reaches(class, p) : p \in Settings}]

(* Every fit that is kept is one of this class, of data and parameters that *)
(* were passed; handles and answers come from such fits.                    *)
TypeOK == /\ class \in Classes /\ params \in [Estimators -> Settings]
          /\ n_features_in_ \in [Estimators -> {0} \cup {d.cols : d \in Data}]
          /\ fitted_ \in [Estimators -> Trainings] /\ bundle_ \in [Estimators -> Trainings]
          /\ handle_ \in [Estimators -> {Closed} \cup [of : Trainings, by : Estimators]]
          /\ answer \in {Nothing, Raised} \cup [from : Trainings, on : Data]

(* A cached handle is this object's own and holds the model of its bytes:  *)
(* not the one of an earlier fit, nor one a copy would close too.           *)
HandleMatchesBundle == \A e \in Estimators : handle_[e] \in {Closed, Opened(e, bundle_[e])}

KeepsBundle == class.fit \in {"regressor", "discriminant"}
(* The attributes (coef_, classes_) and the bytes predict uses come from    *)
(* the same fit.                                                            *)
AttributesMatchBundle == KeepsBundle => fitted_ = bundle_

(* Attributes, bytes and handle are of one fit, this object's last, after   *)
(* any failed fits, set_params, copies and rebuilt handles.                *)
OneFit == HandleMatchesBundle /\ AttributesMatchBundle

(* The bytes a fit stored are bytes Model.from_bytes accepts: an unpickled  *)
(* estimator can predict whenever the original could.                      *)
BundleRebuilds == \A e \in Estimators : bundle_[e] # Unfitted => Imports(class, bundle_[e])

(* Every class gives its function of _methods.py the inputs that takes, and *)
(* reads only results the C code writes under that name; what the diagnostic *)
(* functions do is no different.  (A fact about the code and not its state: *)
(* it is enough to look at it before the first fit.)                        *)
KeysAgree == (\A e \in Estimators : fitted_[e] = Unfitted) =>
    \A c \in Wrapping \cup Reports :
       c.passes = c.method.takes /\ c.reads \subseteq Writes(c.method.name)

(* The plan a selector made for itself tests every row of its data once and *)
(* trains on all the others, for any number of folds up to the rows.        *)
DefaultPlanPartitions ==
    \A e \in Estimators : class.fit = "selector" /\ fitted_[e] # Unfitted =>
       LET n == fitted_[e].data.rows
       IN  \A k \in 2 .. n : Partitions(default_plan(n, k), n)

(* _method_result.py: "a failed fit must leave the prior (or unfitted)      *)
(* state untouched"; the discriminants say the same.                        *)
FailedFitChangesNothing ==
    [][answer' = Raised /\ class.fit \in {"result", "discriminant"} => UNCHANGED attrVars]_esVars

(* The estimator promises FittedEstimator: answers only from the last fit   *)
(* that succeeded, with the parameters of that moment, for what suits it.   *)
Suits(t, x) == CASE t.answers = "content" -> x.x = t.data.x
                 [] t.answers = "address" -> TRUE
                 [] OTHER -> x.finite /\ x.cols = t.data.cols
Promise == INSTANCE FittedEstimator WITH
              Settings <- Settings \cup {[p EXCEPT !.tuning = "default"] : p \in Settings},
              kind <- class.answers,
              settings <- [e \in Estimators |-> Reaches(class, params[e])],
              model <- IF KeepsBundle THEN bundle_ ELSE fitted_
ImplementsFittedEstimator == Promise!Spec
=============================================================================
