------------------------ MODULE ModelEstimator_proof ------------------------
(***************************************************************************)
(* For any number of objects, data and settings: types, the coherence of   *)
(* attributes, bytes and handle, what a failed fit changes, the refinement  *)
(* of FittedEstimator, and what the classes pass and read.                  *)
(***************************************************************************)
EXTENDS ModelEstimator, TLAPS

-----------------------------------------------------------------------------
(* What the proofs need to know of the class table. *)
FitKinds == {"regressor", "discriminant", "result", "selector"}
Classified(c) == /\ c.fit \in FitKinds
                 /\ c.fit # "result" => c.answers = "width"
                 /\ c.fit \in {"regressor", "discriminant"} => c.tuned = FALSE

LEMMA BundledClassified == \A c \in Bundled : Classified(c)
  BY DEF Bundled, Regressors, Discriminants, Modelled, PLSRegression, OPLSRegression, PCR,
         SparsePLSRegression, PLSCanonical, PLSSVD, PLSDAClassifier, OPLSDAClassifier,
         Classified, FitKinds

LEMMA LinearClassified == \A c \in LinearResults : c.fit = "result"
  BY DEF LinearResults, Wraps, Linear, SparseSimplsRegression, CPPLSRegression, ECRegression,
         DIPLSRegression, MIRPLSRegression, MBPLSRegression, NPLSRegression, O2PLSRegression,
         PLSGLMRegressor, SparsePLSDAClassifier, PLSCoxRegressor, PDSTransformer, DSTransformer

LEMMA InSampleClassified == \A c \in InSampleResults : c.fit = "result"
  BY DEF InSampleResults, Wraps, InSample, KernelPLSRegression, PLSLogisticClassifier,
         PLSLDAClassifier, PLSQDAClassifier, WeightedPLSRegression, RobustPLSRegression,
         RidgePLSRegression, ContinuumRegression, RecursivePLSRegression, LWPLSRegression,
         MissingAwareNipalsRegression, GroupSparsePLSRegression, FusedSparsePLSRegression,
         BaggingPLSRegression, GPRPLSRegression, BoostingPLSRegression,
         RandomSubspacePLSRegression, SOPLSRegression, ROSARegression

LEMMA SelectorsClassified == \A c \in Selectors : c.fit = "selector" /\ c.answers = "width"
  BY DEF Selectors, Wraps, Selector, VIPSelector, CoefficientSelector, SelectivityRatioSelector,
         SPASelector, StabilitySelector, UVESelector, CARSSelector, RandomFrogSelector,
         SCARSSelector, GASelector, PSOSelector, VISSASelector, ShavingSelector, BVESelector,
         REPSelector, IPWSelector, STSelector, IntervalSelector, BiPLSSelector, SiPLSSelector,
         T2Selector, WVCSelector, WVCThresholdSelector, EMCUVESelector, RandomizationSelector,
         IRIVSelector, IRFSelector, VIPSPASelector

LEMMA AllClassified == \A c \in AllClasses : Classified(c)
  BY BundledClassified, LinearClassified, InSampleClassified, SelectorsClassified
  DEF AllClasses, Wrapping, Classified, FitKinds

-----------------------------------------------------------------------------
LEMMA TrainedType ==
    ASSUME TypeOK, NEW e \in Estimators, NEW d \in Data
    PROVE  Trained(class, params[e], d) \in Trainings
  BY DEF TypeOK, Trained, Trainings

(* A successful fit, of any class. *)
LEMMA CommitTypes ==
    ASSUME TypeOK, NEW e \in Estimators, NEW d \in Data, UNCHANGED <<class, params>>,
           Commits(e, d),
           UNCHANGED <<bundle_, handle_>> \/ StoreFittedModel(e, Trained(class, params[e], d))
    PROVE  TypeOK'
  <1>1. n_features_in_' \in [Estimators -> {0} \cup {x.cols : x \in Data}]
    BY DEF TypeOK, Commits, SetsWidth
  <1>2. fitted_' \in [Estimators -> Trainings]
    BY TrainedType DEF TypeOK, Commits
  <1>3. bundle_' \in [Estimators -> Trainings]
    BY TrainedType DEF TypeOK, StoreFittedModel
  <1>4. handle_' \in [Estimators -> {Closed} \cup [of : Trainings, by : Estimators]]
    BY TrainedType DEF TypeOK, StoreFittedModel, Opened
  <1> QED
    BY <1>1, <1>2, <1>3, <1>4 DEF TypeOK, Commits, Trainings

(* A call that raises, having set the width and dropped the handle or not. *)
LEMMA RaiseTypes ==
    ASSUME TypeOK, NEW e \in Estimators, NEW d \in Data, UNCHANGED <<class, params>>, Raises,
           UNCHANGED <<fitted_, bundle_>>, SetsWidth(e, d) \/ UNCHANGED n_features_in_,
           DropHandle(e) \/ UNCHANGED handle_
    PROVE  TypeOK'
  <1>1. n_features_in_' \in [Estimators -> {0} \cup {x.cols : x \in Data}]
    BY DEF TypeOK, SetsWidth
  <1>2. handle_' \in [Estimators -> {Closed} \cup [of : Trainings, by : Estimators]]
    BY DEF TypeOK, DropHandle
  <1> QED
    BY <1>1, <1>2 DEF TypeOK, Raises, Trainings

(* Every fit is one or the other. *)
LEMMA FitOutcomes ==
    ASSUME NEW e \in Estimators, NEW d \in Data, Fit(e, d)
    PROVE  \/ /\ Commits(e, d)
              /\ IF KeepsBundle THEN StoreFittedModel(e, Trained(class, params[e], d))
                                ELSE UNCHANGED <<bundle_, handle_>>
              /\ KeepsBundle => Fits(class, params[e], d)
           \/ /\ Raises /\ UNCHANGED <<fitted_, bundle_>>
              /\ SetsWidth(e, d) \/ UNCHANGED n_features_in_
              /\ class.fit \in {"result", "discriminant"} => UNCHANGED n_features_in_
              /\ DropHandle(e) \/ UNCHANGED handle_
  <1>1. CASE FitRegressor(e, d)
    BY <1>1 DEF FitRegressor, KeepsBundle, attrVars
  <1>2. CASE FitDiscriminant(e, d)
    BY <1>2 DEF FitDiscriminant, KeepsBundle, attrVars
  <1>3. CASE FitResult(e, d)
    BY <1>3 DEF FitResult, KeepsBundle, attrVars
  <1>4. CASE FitSelector(e, d)
    BY <1>4 DEF FitSelector, KeepsBundle, attrVars
  <1> QED
    BY <1>1, <1>2, <1>3, <1>4 DEF Fit

LEMMA FitTypes ==
    ASSUME TypeOK, NEW e \in Estimators, NEW d \in Data, Fit(e, d)
    PROVE  TypeOK'
  <1>1. UNCHANGED <<class, params>>
    BY DEF Fit
  <1> QED
    BY <1>1, FitOutcomes, CommitTypes, RaiseTypes

LEMMA PredictTypes ==
    ASSUME TypeOK, NEW e \in Estimators, NEW x \in Data, Predict(e, x)
    PROVE  TypeOK'
  <1>1. Ready(e, x) => Ensure(e) \in [of : Trainings, by : Estimators]
    BY DEF TypeOK, Ensure, Opened, Ready, Closed
  <1>2. handle_' \in [Estimators -> {Closed} \cup [of : Trainings, by : Estimators]]
    BY <1>1 DEF TypeOK, Predict, PredictModel, PredictResult
  <1>3. answer' \in {Nothing, Raised} \cup [from : Trainings, on : Data]
    <2>1. CASE PredictModel(e, x)
      BY <1>1, <2>1 DEF PredictModel, Answers, Raises
    <2>2. CASE PredictResult(e, x)
      BY <2>2 DEF PredictResult, Answers, Raises, TypeOK
    <2> QED
      BY <2>1, <2>2 DEF Predict
  <1>4. UNCHANGED <<class, params, n_features_in_, fitted_, bundle_>>
    BY DEF Predict, PredictModel, PredictResult, attrVars
  <1> QED
    BY <1>2, <1>3, <1>4 DEF TypeOK, Trainings

LEMMA BecomesTypes ==
    ASSUME TypeOK, NEW e \in Estimators, NEW f \in Estimators, Copy(e, f) \/ Clone(e, f)
    PROVE  TypeOK'
  <1>1. Unfitted \in Trainings
    BY DEF Trainings
  <1>2. /\ params' \in [Estimators -> Settings]
        /\ n_features_in_' \in [Estimators -> {0} \cup {d.cols : d \in Data}]
    BY DEF TypeOK, Copy, Clone, Becomes
  <1>3. fitted_' \in [Estimators -> Trainings] /\ bundle_' \in [Estimators -> Trainings]
    BY <1>1 DEF TypeOK, Copy, Clone, Becomes
  <1>4. handle_' \in [Estimators -> {Closed} \cup [of : Trainings, by : Estimators]]
    BY DEF TypeOK, Copy, Clone, DropHandle
  <1>5. class' = class /\ answer' = Nothing
    BY DEF Copy, Clone, Becomes
  <1> QED
    BY <1>2, <1>3, <1>4, <1>5 DEF TypeOK, Trainings

LEMMA TypeInit == Init => TypeOK
  <1> SUFFICES ASSUME Init PROVE TypeOK
    OBVIOUS
  <1>1. Unfitted \in Trainings
    BY DEF Trainings
  <1> QED
    BY <1>1 DEF Init, TypeOK

LEMMA TypeStep == TypeOK /\ [Next]_esVars => TypeOK'
  <1> SUFFICES ASSUME TypeOK, [Next]_esVars PROVE TypeOK'
    OBVIOUS
  <1>1. CASE UNCHANGED esVars
    BY <1>1 DEF esVars, attrVars, TypeOK, Trainings
  <1>2. ASSUME NEW e \in Estimators, NEW d \in Data, Fit(e, d) \/ Predict(e, d) PROVE TypeOK'
    BY <1>2, FitTypes, PredictTypes
  <1>3. ASSUME NEW e \in Estimators, NEW p \in Settings, SetParams(e, p) PROVE TypeOK'
    BY <1>3 DEF SetParams, TypeOK, Trainings, attrVars
  <1> QED
    BY <1>1, <1>2, <1>3, BecomesTypes DEF Next

(* Types of every attribute, bytes, handle and answer. *)
THEOREM TypeCorrect == Spec => []TypeOK
  BY TypeInit, TypeStep, PTL DEF Spec

-----------------------------------------------------------------------------
(* Division, and how multiples of a size are ordered. *)
LEMMA Division ==
    ASSUME NEW n \in Nat, NEW q \in Nat, q > 0
    PROVE  /\ n \div q \in Nat
           /\ (n \div q) * q <= n /\ n < ((n \div q) + 1) * q
  BY Z3

LEMMA Multiples ==
    ASSUME NEW q \in Nat, NEW f \in Nat, NEW g \in Nat, f <= g
    PROVE  f * q \in Nat /\ f * q <= g * q /\ (f + 1) * q = (f * q) + q
  BY Z3

(* What is before and after a part of the rows is the rest of them. *)
LEMMA Cut ==
    ASSUME NEW n \in Nat, NEW a \in Nat, NEW b \in Nat, a < b, b <= n
    PROVE  /\ a .. b - 1 # {}
           /\ 0 .. a - 1 \cup b .. n - 1 = (0 .. n - 1) \ (a .. b - 1)
  <1>1. a \in a .. b - 1
    OBVIOUS
  <1>2. ASSUME NEW r PROVE r \in 0 .. a - 1 \cup b .. n - 1 <=> r \in (0 .. n - 1) \ (a .. b - 1)
    OBVIOUS
  <1> QED
    BY <1>1, <1>2

(* The folds _default_plan makes test every row once and train on the rest: *)
(* equal runs of rows behind one another, the last one up to the end.       *)
LEMMA DefaultPlan ==
    ASSUME NEW n \in Nat, NEW k \in 2 .. n
    PROVE  Partitions(default_plan(n, k), n)
  <1> DEFINE q == n \div k
             first(f) == f * q
             after(f) == IF f < k - 1 THEN (f + 1) * q ELSE n
             plan == default_plan(n, k)
  <1>1. q \in Nat /\ q > 0 /\ k * q <= n
    <2>1. q \in Nat /\ q * k <= n /\ n < (q + 1) * k
      BY Division
    <2>2. q # 0
      BY <2>1
    <2> HIDE DEF q
    <2> QED
      BY <2>1, <2>2
  <1>2. fold_size(n, k) = q
    BY DEF fold_size
  <1>3. /\ DOMAIN plan = 0 .. k - 1
        /\ \A f \in 0 .. k - 1 : /\ plan[f].test = first(f) .. after(f) - 1
                                 /\ plan[f].train = 0 .. first(f) - 1 \cup after(f) .. n - 1
    BY <1>2 DEF default_plan, TestRows
  <1> HIDE DEF plan, q
  <1>4. \A f, g \in 0 .. k - 1 :
           f < g => /\ first(f) \in Nat /\ first(g) \in Nat /\ after(f) \in Nat
                    /\ after(f) <= first(g) /\ first(g) < n
    <2> SUFFICES ASSUME NEW f \in 0 .. k - 1, NEW g \in 0 .. k - 1, f < g
                 PROVE  /\ first(f) \in Nat /\ first(g) \in Nat /\ after(f) \in Nat
                        /\ after(f) <= first(g) /\ first(g) < n
      OBVIOUS
    <2>1. f * q \in Nat /\ (f + 1) * q = (f * q) + q
      BY <1>1, Multiples
    <2>2. (f + 1) * q \in Nat /\ (f + 1) * q <= g * q
      BY <1>1, Multiples
    <2>3. g * q \in Nat /\ g * q <= (k - 1) * q /\ (g + 1) * q = (g * q) + q
      BY <1>1, Multiples
    <2>4. ((k - 1) + 1) * q = ((k - 1) * q) + q /\ (k - 1) + 1 = k
      BY <1>1, Multiples
    <2> QED
      BY <1>1, <2>1, <2>2, <2>3, <2>4
  <1>5. \A f \in 0 .. k - 1 : /\ first(f) \in Nat /\ after(f) \in Nat
                              /\ first(f) < after(f) /\ after(f) <= n
    <2> SUFFICES ASSUME NEW f \in 0 .. k - 1
                 PROVE  /\ first(f) \in Nat /\ after(f) \in Nat
                        /\ first(f) < after(f) /\ after(f) <= n
      OBVIOUS
    <2>1. CASE f < k - 1
      <3>1. f * q \in Nat /\ (f + 1) * q = (f * q) + q
        BY <1>1, Multiples
      <3>2. after(f) = (f + 1) * q
        BY <2>1
      <3>3. k - 1 \in 0 .. k - 1
        OBVIOUS
      <3>4. /\ first(f) \in Nat /\ first(k - 1) \in Nat /\ after(f) \in Nat
            /\ after(f) <= first(k - 1) /\ first(k - 1) < n
        BY <1>4, <2>1, <3>3
      <3>5. after(f) = first(f) + q
        BY <3>1, <3>2
      <3> HIDE DEF after, first
      <3> QED
        BY <1>1, <3>4, <3>5
    <2>2. CASE f = k - 1
      BY <1>4, <2>2
    <2> QED
      BY <2>1, <2>2
  <1>6. \A r \in 0 .. n - 1 : \E f \in 0 .. k - 1 : first(f) <= r /\ r < after(f)
    <2> SUFFICES ASSUME NEW r \in 0 .. n - 1
                 PROVE  \E f \in 0 .. k - 1 : first(f) <= r /\ r < after(f)
      OBVIOUS
    <2> DEFINE t == r \div q
    <2>1. t \in Nat /\ t * q <= r /\ r < (t + 1) * q
      BY <1>1, Division
    <2> HIDE DEF t
    <2>2. CASE t < k - 1
      BY <2>1, <2>2
    <2>3. CASE t >= k - 1
      <3>1. (k - 1) * q \in Nat /\ (k - 1) * q <= t * q
        BY <1>1, <2>1, <2>3, Multiples
      <3>2. t * q \in Nat
        BY <1>1, <2>1, Multiples
      <3>3. first(k - 1) <= r
        BY <2>1, <3>1, <3>2
      <3>4. after(k - 1) = n
        OBVIOUS
      <3> QED
        BY <3>3, <3>4
    <2> QED
      BY <2>1, <2>2, <2>3
  <1> HIDE DEF first, after
  <1>7. ASSUME NEW f \in DOMAIN plan
        PROVE  plan[f].test # {} /\ plan[f].train = (0 .. n - 1) \ plan[f].test
    <2>1. /\ first(f) \in Nat /\ after(f) \in Nat /\ first(f) < after(f) /\ after(f) <= n
          /\ plan[f].test = first(f) .. after(f) - 1
          /\ plan[f].train = 0 .. first(f) - 1 \cup after(f) .. n - 1
      BY <1>3, <1>5, <1>7
    <2> QED
      BY <2>1, Cut
  <1>8. \A f \in 0 .. k - 1 : \A r \in 0 .. n - 1 :
           r \in plan[f].test <=> first(f) <= r /\ r < after(f)
    <2>1. \A a, b \in Nat : \A r \in 0 .. n - 1 : r \in a .. b - 1 <=> a <= r /\ r < b
      OBVIOUS
    <2>2. \A f \in 0 .. k - 1 : first(f) \in Nat /\ after(f) \in Nat
      BY <1>5
    <2> QED
      BY <1>3, <2>1, <2>2
  <1>9. ASSUME NEW r \in 0 .. n - 1
        PROVE  \E f \in DOMAIN plan :
                  r \in plan[f].test /\ \A g \in DOMAIN plan : r \in plan[g].test => g = f
    <2>1. PICK f \in 0 .. k - 1 : first(f) <= r /\ r < after(f)
      BY <1>6
    <2>2. f \in DOMAIN plan /\ r \in plan[f].test
      BY <1>3, <1>8, <2>1
    <2>3. ASSUME NEW g \in DOMAIN plan, r \in plan[g].test PROVE g = f
      <3>1. g \in 0 .. k - 1 /\ first(g) <= r /\ r < after(g)
        BY <1>3, <1>8, <2>3
      <3>2. ~(f < g) /\ ~(g < f)
        BY <1>4, <1>5, <2>1, <3>1
      <3> QED
        BY <3>1, <3>2
    <2> QED
      BY <2>2, <2>3
  <1> QED
    BY <1>7, <1>9 DEF Partitions, plan

(* The plan a selector makes for the rows it was given partitions them, for *)
(* any number of folds up to the rows.                                      *)
THEOREM DefaultPlansPartition == Spec => []DefaultPlanPartitions
  <1>1. TypeOK => DefaultPlanPartitions
    <2> SUFFICES ASSUME TypeOK, NEW e \in Estimators, fitted_[e] # Unfitted,
                        NEW k \in 2 .. fitted_[e].data.rows
                 PROVE  Partitions(default_plan(fitted_[e].data.rows, k), fitted_[e].data.rows)
      BY DEF DefaultPlanPartitions
    <2>1. fitted_[e].data \in Data
      BY DEF TypeOK, Trainings
    <2>2. fitted_[e].data.rows \in Nat
      BY <2>1, EstimatorAssumption DEF DataRecord
    <2> QED
      BY <2>2, DefaultPlan
  <1> QED
    BY <1>1, TypeCorrect, PTL

-----------------------------------------------------------------------------
(* What every call keeps: the handle and the attributes are those of the   *)
(* bytes, the bytes can be imported, and a class that wraps a result was   *)
(* fitted on matrices as wide as n_features_in_ says.                       *)
WidthMatches == class.fit = "result" =>
    \A e \in Estimators : fitted_[e] # Unfitted => n_features_in_[e] = fitted_[e].data.cols
NoBundle == ~KeepsBundle =>
    \A e \in Estimators : bundle_[e] = Unfitted /\ handle_[e] = Closed
Coherent == /\ TypeOK /\ HandleMatchesBundle /\ AttributesMatchBundle
            /\ BundleRebuilds /\ WidthMatches /\ NoBundle

LEMMA ClassKnown == TypeOK => Classified(class)
  BY EstimatorAssumption, AllClassified DEF TypeOK

(* What Model.fit accepts, Model.from_bytes takes back, since no penalty    *)
(* ever reaches the core.                                                  *)
LEMMA FittedImports ==
    ASSUME NEW c, NEW p \in Settings, NEW d \in Data, c.tuned = FALSE, Fits(c, p, d)
    PROVE  Imports(c, Trained(c, p, d))
  <1>1. p \in SettingsRecord
    BY EstimatorAssumption
  <1>2. /\ Reaches(c, p).tuning = "default"
        /\ Reaches(c, p).solver = p.solver
    BY <1>1 DEF Reaches, SettingsRecord
  <1>3. Trained(c, p, d).settings = Reaches(c, p)
    BY DEF Trained
  <1>4. Accepts(c.config.algorithm, p.solver, c.config.deflation)
    BY DEF Fits
  <1>5. CASE c.config.algorithm = "SPARSE_PLS"
    BY <1>2, <1>3, <1>4, <1>5 DEF Imports, FittedAlgorithm, Accepts, Solvers
  <1>6. CASE c.config.algorithm # "SPARSE_PLS"
    BY <1>2, <1>3, <1>4, <1>6 DEF Imports, FittedAlgorithm
  <1> QED
    BY <1>5, <1>6

LEMMA CommitCoherent ==
    ASSUME Coherent, TypeOK', NEW e \in Estimators, NEW d \in Data,
           UNCHANGED <<class, params>>, Commits(e, d),
           IF KeepsBundle THEN StoreFittedModel(e, Trained(class, params[e], d))
                          ELSE UNCHANGED <<bundle_, handle_>>,
           KeepsBundle => Fits(class, params[e], d)
    PROVE  Coherent'
  <1> DEFINE t == Trained(class, params[e], d)
  <1>1. t.data = d /\ t \in Trainings
    BY TrainedType DEF Trained, Coherent
  <1>2. HandleMatchesBundle' /\ NoBundle'
    <2>1. CASE KeepsBundle
      BY <2>1 DEF Coherent, TypeOK, HandleMatchesBundle, NoBundle, StoreFittedModel, Opened,
                  KeepsBundle
    <2>2. CASE ~KeepsBundle
      BY <2>2 DEF Coherent, HandleMatchesBundle, NoBundle, KeepsBundle, Opened
    <2> QED
      BY <2>1, <2>2
  <1>3. AttributesMatchBundle'
    BY DEF Coherent, TypeOK, AttributesMatchBundle, KeepsBundle, StoreFittedModel, Commits
  <1>4. BundleRebuilds'
    <2>1. CASE KeepsBundle
      <3>1. class.tuned = FALSE /\ params[e] \in Settings
        BY <2>1, ClassKnown DEF Coherent, KeepsBundle, Classified, TypeOK
      <3>2. Imports(class, t)
        BY <2>1, <3>1, FittedImports
      <3> HIDE DEF t
      <3>3. bundle_' = [bundle_ EXCEPT ![e] = t]
        BY <2>1 DEF StoreFittedModel, t
      <3> QED
        BY <3>2, <3>3 DEF Coherent, TypeOK, BundleRebuilds, Imports, FittedAlgorithm
    <2>2. CASE ~KeepsBundle
      BY <2>2 DEF Coherent, BundleRebuilds, Imports, FittedAlgorithm
    <2> QED
      BY <2>1, <2>2
  <1>5. WidthMatches'
    BY <1>1 DEF Coherent, TypeOK, WidthMatches, Commits, SetsWidth
  <1> QED
    BY <1>2, <1>3, <1>4, <1>5 DEF Coherent

LEMMA RaiseCoherent ==
    ASSUME Coherent, TypeOK', NEW e \in Estimators, NEW d \in Data,
           UNCHANGED <<class, params, fitted_, bundle_>>,
           SetsWidth(e, d) \/ UNCHANGED n_features_in_,
           class.fit \in {"result", "discriminant"} => UNCHANGED n_features_in_,
           DropHandle(e) \/ UNCHANGED handle_
    PROVE  Coherent'
  <1>1. HandleMatchesBundle' /\ NoBundle'
    BY DEF Coherent, TypeOK, HandleMatchesBundle, NoBundle, KeepsBundle, DropHandle, Opened
  <1>2. AttributesMatchBundle' /\ BundleRebuilds'
    BY DEF Coherent, AttributesMatchBundle, KeepsBundle, BundleRebuilds, Imports, FittedAlgorithm
  <1>3. WidthMatches'
    BY DEF Coherent, WidthMatches
  <1> QED
    BY <1>1, <1>2, <1>3 DEF Coherent

LEMMA PredictCoherent ==
    ASSUME Coherent, TypeOK', NEW e \in Estimators, NEW x \in Data, Predict(e, x)
    PROVE  Coherent'
  <1>1. UNCHANGED <<class, params, n_features_in_, fitted_, bundle_>>
    BY DEF Predict, PredictModel, PredictResult, attrVars
  <1>2. HandleMatchesBundle' /\ NoBundle'
    <2>1. CASE PredictModel(e, x)
      BY <1>1, <2>1 DEF PredictModel, Ensure, Coherent, TypeOK, HandleMatchesBundle, NoBundle,
                        KeepsBundle, Opened
    <2>2. CASE PredictResult(e, x)
      BY <1>1, <2>2 DEF PredictResult, Coherent, HandleMatchesBundle, NoBundle, KeepsBundle, Opened
    <2> QED
      BY <2>1, <2>2 DEF Predict
  <1> QED
    BY <1>1, <1>2 DEF Coherent, AttributesMatchBundle, KeepsBundle, BundleRebuilds, Imports,
                      FittedAlgorithm, WidthMatches

LEMMA BecomesCoherent ==
    ASSUME Coherent, TypeOK', NEW e \in Estimators, NEW f \in Estimators,
           Copy(e, f) \/ Clone(e, f)
    PROVE  Coherent'
  <1>1. class' = class
    BY DEF Copy, Clone, Becomes
  <1>2. HandleMatchesBundle'
    BY DEF Coherent, TypeOK, HandleMatchesBundle, Copy, Clone, Becomes, DropHandle, Opened
  <1>3. NoBundle'
    BY <1>1 DEF Coherent, TypeOK, NoBundle, KeepsBundle, Copy, Clone, Becomes, DropHandle
  <1>4. AttributesMatchBundle'
    BY <1>1 DEF Coherent, TypeOK, AttributesMatchBundle, KeepsBundle, Copy, Clone, Becomes
  <1>5. BundleRebuilds'
    BY <1>1 DEF Coherent, TypeOK, BundleRebuilds, Copy, Clone, Becomes, Imports, FittedAlgorithm
  <1>6. WidthMatches'
    BY <1>1 DEF Coherent, TypeOK, WidthMatches, Copy, Clone, Becomes
  <1> QED
    BY <1>2, <1>3, <1>4, <1>5, <1>6 DEF Coherent

LEMMA CoherentInit == Init => Coherent
  BY TypeInit DEF Init, Coherent, HandleMatchesBundle, AttributesMatchBundle, BundleRebuilds,
                  WidthMatches, NoBundle

LEMMA CoherentStep == Coherent /\ [Next]_esVars => Coherent'
  <1> SUFFICES ASSUME Coherent, [Next]_esVars PROVE Coherent'
    OBVIOUS
  <1>1. TypeOK'
    BY TypeStep DEF Coherent
  <1>2. CASE UNCHANGED esVars
    BY <1>1, <1>2 DEF esVars, attrVars, Coherent, HandleMatchesBundle, AttributesMatchBundle,
             KeepsBundle, BundleRebuilds, Imports, FittedAlgorithm, WidthMatches, NoBundle, Opened
  <1>3. ASSUME NEW e \in Estimators, NEW d \in Data, Fit(e, d) PROVE Coherent'
    <2>1. UNCHANGED <<class, params>>
      BY <1>3 DEF Fit
    <2> QED
      BY <1>1, <1>3, <2>1, FitOutcomes, CommitCoherent, RaiseCoherent
  <1>4. ASSUME NEW e \in Estimators, NEW p \in Settings, SetParams(e, p) PROVE Coherent'
    BY <1>1, <1>4 DEF SetParams, attrVars, Coherent, HandleMatchesBundle, AttributesMatchBundle,
             KeepsBundle, BundleRebuilds, Imports, FittedAlgorithm, WidthMatches, NoBundle, Opened
  <1> QED
    BY <1>1, <1>2, <1>3, <1>4, PredictCoherent, BecomesCoherent DEF Next

THEOREM AlwaysCoherent == Spec => []Coherent
  BY CoherentInit, CoherentStep, PTL DEF Spec

(* predict uses the object's own model of its own bytes, and coef_ and     *)
(* classes_ are of the fit that made those, for any number of objects.     *)
THEOREM SameFit == Spec => []OneFit
  BY AlwaysCoherent, PTL DEF Coherent, OneFit

(* An estimator that could be fitted can be unpickled and predict. *)
THEOREM Rebuilds == Spec => []BundleRebuilds
  BY AlwaysCoherent, PTL DEF Coherent

(* A failed fit of a classifier or of a class around one result leaves the *)
(* fitted state as it was.                                                 *)
THEOREM FailedFit == Spec => FailedFitChangesNothing
  <1>1. [Next]_esVars => [answer' = Raised /\ class.fit \in {"result", "discriminant"}
                            => UNCHANGED attrVars]_esVars
    <2> SUFFICES ASSUME Next, answer' = Raised, class.fit \in {"result", "discriminant"}
                 PROVE  UNCHANGED attrVars
      OBVIOUS
    <2>1. Raised # Nothing
      BY DEF Raised, Nothing, Unfitted
    <2>2. ASSUME NEW e \in Estimators, NEW d \in Data, Fit(e, d) PROVE UNCHANGED attrVars
      BY <2>1, <2>2, FitOutcomes DEF Commits, attrVars
    <2>3. ASSUME NEW e \in Estimators, NEW d \in Data, Predict(e, d) PROVE UNCHANGED attrVars
      BY <2>3 DEF Predict, PredictModel, PredictResult
    <2>4. ASSUME NEW e \in Estimators, NEW p \in Settings, SetParams(e, p)
          PROVE  UNCHANGED attrVars
      BY <2>4 DEF SetParams
    <2>5. ASSUME NEW e \in Estimators, NEW f \in Estimators, Copy(e, f) \/ Clone(e, f)
          PROVE  UNCHANGED attrVars
      BY <2>1, <2>5 DEF Copy, Clone, Becomes
    <2> QED
      BY <2>2, <2>3, <2>4, <2>5 DEF Next
  <1> QED
    BY <1>1, PTL DEF Spec, FailedFitChangesNothing

-----------------------------------------------------------------------------
(* The refinement.  What an object promises is read off its bytes, or off  *)
(* its attributes where it keeps none.                                     *)
Told == [e \in Estimators |-> Reaches(class, params[e])]
Kept == IF KeepsBundle THEN bundle_ ELSE fitted_

LEMMA RefuseRefines ==
    ASSUME UNCHANGED <<class, params, fitted_, bundle_>>, Raises
    PROVE  Promise!Refuse
  <1>1. answer' = Raised
    BY DEF Raises
  <1>2. Told' = Told /\ Kept' = Kept
    BY DEF Told, Kept, KeepsBundle, Reaches
  <1> QED
    BY <1>1, <1>2 DEF Promise!Refuse, Told, Kept

LEMMA CommitRefines ==
    ASSUME Coherent, NEW e \in Estimators, NEW d \in Data, UNCHANGED <<class, params>>,
           Commits(e, d),
           IF KeepsBundle THEN StoreFittedModel(e, Trained(class, params[e], d))
                          ELSE UNCHANGED <<bundle_, handle_>>
    PROVE  Promise!Fit(e, d)
  <1>1. answer' = Nothing
    BY DEF Commits
  <1>2. Told' = Told /\ Told' = [Told EXCEPT ![e] = Told[e]]
    BY DEF Told, Reaches
  <1>3. Trained(class, params[e], d) = [answers |-> class.answers, data |-> d, settings |-> Told[e]]
    BY DEF Trained, Told
  <1>4. Kept' = [Kept EXCEPT ![e] = Trained(class, params[e], d)]
    <2>1. CASE KeepsBundle
      BY <2>1 DEF StoreFittedModel, Kept, KeepsBundle
    <2>2. CASE ~KeepsBundle
      BY <2>2 DEF Commits, Kept, KeepsBundle
    <2> QED
      BY <2>1, <2>2
  <1> QED
    BY <1>1, <1>2, <1>3, <1>4 DEF Promise!Fit, Promise!Set, Told, Kept

LEMMA FitRefines ==
    ASSUME Coherent, NEW e \in Estimators, NEW d \in Data, Fit(e, d)
    PROVE  Promise!Fit(e, d) \/ Promise!Refuse
  <1>1. UNCHANGED <<class, params>>
    BY DEF Fit
  <1> QED
    BY <1>1, FitOutcomes, CommitRefines, RefuseRefines

LEMMA SetParamsRefines ==
    ASSUME Coherent, NEW e \in Estimators, NEW p \in Settings, SetParams(e, p)
    PROVE  \E s \in Settings \cup {[q EXCEPT !.tuning = "default"] : q \in Settings} :
              Promise!SetParams(e, s)
  <1>1. answer' = Nothing
    BY DEF SetParams
  <1>2. Kept' = Kept /\ Kept' = [Kept EXCEPT ![e] = Kept[e]]
    BY DEF SetParams, attrVars, Kept, KeepsBundle, Coherent, TypeOK
  <1>3. Told' = [Told EXCEPT ![e] = Reaches(class, p)]
    BY DEF SetParams, Told, Coherent, TypeOK, Reaches
  <1>4. class' = class
    BY DEF SetParams
  <1>5. Reaches(class, p) \in Settings \cup {[q EXCEPT !.tuning = "default"] : q \in Settings}
    BY Zenon DEF Reaches
  <1>6. Promise!SetParams(e, Reaches(class, p))
    BY <1>1, <1>2, <1>3, <1>4 DEF Promise!SetParams, Promise!Set, Told, Kept
  <1> QED
    BY <1>5, <1>6

LEMMA BecomesRefines ==
    ASSUME Coherent, NEW e \in Estimators, NEW f \in Estimators, Copy(e, f) \/ Clone(e, f)
    PROVE  \/ Promise!Copy(e, f)
           \/ \E s \in Settings \cup {[q EXCEPT !.tuning = "default"] : q \in Settings} :
                 Promise!New(f, s)
  <1>1. answer' = Nothing
    BY DEF Copy, Clone, Becomes
  <1>2. class' = class /\ Told' = [Told EXCEPT ![f] = Told[e]]
    <2>1. class' = class /\ params' = [params EXCEPT ![f] = params[e]]
      BY DEF Copy, Clone, Becomes
    <2>2. params \in [Estimators -> Settings]
      BY DEF Coherent, TypeOK
    <2> QED
      BY <2>1, <2>2 DEF Told, Reaches
  <1>3. CASE Copy(e, f)
    <2>1. Kept' = [Kept EXCEPT ![f] = Kept[e]]
      BY <1>2, <1>3 DEF Copy, Becomes, Kept, KeepsBundle
    <2> QED
      BY <1>1, <1>2, <2>1 DEF Promise!Copy, Promise!Set, Told, Kept
  <1>4. CASE Clone(e, f)
    <2>1. Kept' = [Kept EXCEPT ![f] = Unfitted]
      BY <1>2, <1>4 DEF Clone, Becomes, Kept, KeepsBundle
    <2>2. Promise!New(f, Told[e])
      BY <1>1, <1>2, <2>1 DEF Promise!New, Promise!Set, Told, Kept
    <2>3. params[e] \in Settings
      BY DEF Coherent, TypeOK
    <2>4. Told[e] \in Settings \cup {[q EXCEPT !.tuning = "default"] : q \in Settings}
      BY <2>3, Zenon DEF Told, Reaches
    <2> QED
      BY <2>2, <2>4
  <1> QED
    BY <1>3, <1>4

LEMMA AnswerRefines ==
    ASSUME UNCHANGED <<class, params, fitted_, bundle_>>, NEW e \in Estimators, NEW x \in Data,
           Kept[e] # Unfitted, Suits(Kept[e], x), Answers(Kept[e], x)
    PROVE  Promise!Predict(e, x)
  <1>1. answer' = [from |-> Kept[e], on |-> x]
    BY DEF Answers
  <1>2. Told' = Told /\ Kept' = Kept
    BY DEF Told, Kept, KeepsBundle, Reaches
  <1> QED
    BY <1>1, <1>2 DEF Promise!Predict, Told, Kept

LEMMA PredictRefines ==
    ASSUME Coherent, NEW e \in Estimators, NEW x \in Data, Predict(e, x)
    PROVE  Promise!Predict(e, x) \/ Promise!Refuse
  <1>1. UNCHANGED <<class, params, n_features_in_, fitted_, bundle_>>
    BY DEF Predict, PredictModel, PredictResult, attrVars
  <1>2. CASE Raises
    BY <1>1, <1>2, RefuseRefines
  <1>3. ASSUME PredictModel(e, x), ~Raises PROVE Promise!Predict(e, x)
    <2>1. KeepsBundle /\ Kept = bundle_ /\ bundle_[e] # Unfitted
      BY <1>3 DEF PredictModel, KeepsBundle, Kept, Ready
    <2>2. Ensure(e).of = bundle_[e]
      BY DEF Ensure, Opened, Coherent, HandleMatchesBundle
    <2>3. /\ x.finite /\ x.cols = bundle_[e].data.cols
          /\ Answers(bundle_[e], x)
      BY <1>3, <2>2 DEF PredictModel, Ready, Checked
    <2>4. bundle_[e].answers = "width"
      BY <2>1, ClassKnown DEF Coherent, TypeOK, Trainings, Classified, KeepsBundle
    <2>5. Suits(bundle_[e], x)
      BY <2>3, <2>4 DEF Suits
    <2> QED
      BY <1>1, <2>1, <2>3, <2>5, AnswerRefines
  <1>4. ASSUME PredictResult(e, x), ~Raises PROVE Promise!Predict(e, x)
    <2>1. /\ ~KeepsBundle /\ Kept = fitted_ /\ fitted_[e] # Unfitted
          /\ Suited(e, x) /\ Answers(fitted_[e], x)
      BY <1>4 DEF PredictResult, KeepsBundle, Kept, Suited
    <2>2. fitted_[e].answers = class.answers
      BY <2>1 DEF Coherent, TypeOK, Trainings
    <2>3. class.fit \in {"result", "selector"} /\ (class.fit = "selector" => class.answers = "width")
      BY <1>4, ClassKnown DEF PredictResult, Coherent, Classified
    <2>4. class.fit = "result" => n_features_in_[e] = fitted_[e].data.cols
      BY <2>1 DEF Coherent, WidthMatches
    <2>5. Suits(fitted_[e], x)
      BY <2>1, <2>2, <2>3, <2>4 DEF Suits, Suited, Checked
    <2> QED
      BY <1>1, <2>1, <2>5, AnswerRefines
  <1> QED
    BY <1>2, <1>3, <1>4 DEF Predict

(* Every behaviour of the objects is one of FittedEstimator. *)
THEOREM Implementation == Spec => ImplementsFittedEstimator
  <1>1. Init => Promise!Init
    <2> SUFFICES ASSUME Init PROVE Promise!Init
      OBVIOUS
    <2>1. Kept = [e \in Estimators |-> Unfitted]
      BY DEF Init, Kept
    <2>2. answer = Nothing
      BY DEF Init
    <2>3. Told \in [Estimators ->
                      Settings \cup {[q EXCEPT !.tuning = "default"] : q \in Settings}]
      <3>1. \A e \in Estimators : params[e] \in Settings
        BY DEF Init
      <3> QED
        BY <3>1, Zenon DEF Told, Reaches
    <2> QED
      BY <2>1, <2>2, <2>3 DEF Promise!Init, Kept, Told
  <1>2. Coherent /\ [Next]_esVars => [Promise!Next]_(Promise!feVars)
    <2> SUFFICES ASSUME Coherent, [Next]_esVars
                 PROVE  Promise!Next \/ UNCHANGED Promise!feVars
      OBVIOUS
    <2>1. CASE UNCHANGED esVars
      <3>1. class' = class /\ Told' = Told /\ Kept' = Kept /\ answer' = answer
        BY <2>1 DEF esVars, attrVars, Told, Kept, KeepsBundle, Reaches
      <3> QED
        BY <3>1 DEF Promise!feVars, Told, Kept
    <2>2. ASSUME NEW e \in Estimators, NEW d \in Data, Fit(e, d) \/ Predict(e, d)
          PROVE  Promise!Next
      BY <2>2, FitRefines, PredictRefines DEF Promise!Next
    <2>3. ASSUME NEW e \in Estimators, NEW p \in Settings, SetParams(e, p)
          PROVE  Promise!Next
      BY <2>3, SetParamsRefines DEF Promise!Next
    <2>4. ASSUME NEW e \in Estimators, NEW f \in Estimators, Copy(e, f) \/ Clone(e, f)
          PROVE  Promise!Next
      BY <2>4, BecomesRefines DEF Promise!Next
    <2> QED
      BY <2>1, <2>2, <2>3, <2>4 DEF Next
  <1> QED
    BY <1>1, <1>2, AlwaysCoherent, PTL DEF Spec, ImplementsFittedEstimator, Promise!Spec
-----------------------------------------------------------------------------
(* What every class and report is checked for, and what it reads of each    *)
(* result.                                                                 *)
Supplied(c) == c.passes = c.method.takes /\ c.reads \subseteq Writes(c.method.name)

LEMMA PackedWritten ==
    \A name \in {"cppls_fit", "mir_pls_fit", "n_pls_fit", "o2pls_fit", "ecr_fit",
                 "sparse_simpls_fit", "di_pls_fit", "sparse_pls_da_fit",
                 "weighted_pls_fit", "robust_pls_fit", "ridge_pls_fit",
                 "continuum_regression_fit", "missing_aware_nipals_fit",
                 "group_sparse_pls_fit", "fused_sparse_pls_fit",
                 "bagging_pls_fit", "boosting_pls_fit", "random_subspace_pls_fit"} :
       Writes(name) = Packed
  BY DEF Writes

LEMMA LinearWritten ==
    /\ {"coefficients", "x_mean", "x_scale", "intercept", "block_weights"}
          \subseteq Writes("mb_pls_fit")
    /\ {"coefficients", "intercept"} \subseteq Writes("pls_glm_fit")
    /\ {"coefficients", "x_mean"} \subseteq Writes("pls_cox_fit")
    /\ {"transformation"} \subseteq Writes("pds_fit")
    /\ {"transformation", "bias"} \subseteq Writes("ds_fit")
  BY DEF Writes

LEMMA InSampleWritten ==
    /\ {"alpha", "y_mean", "predictions"} \subseteq Writes("kernel_pls_fit")
    /\ {"decision_scores", "probabilities"} \subseteq Writes("pls_logistic_fit")
    /\ {"decision_scores"} \subseteq Writes("pls_lda_fit")
    /\ \A name \in {"pls_qda_fit", "recursive_pls_run", "lw_pls_fit", "gpr_pls_fit",
                    "so_pls_fit", "rosa_fit"} : {"predictions"} \subseteq Writes(name)
  BY DEF Writes

LEMMA SelectionWritten ==
    /\ \A name \in {"cars_select", "shaving_select", "bve_select", "rep_select", "st_select",
                    "interval_select", "bipls_select", "sipls_select", "emcuve_select",
                    "iriv_select"} : Selected \subseteq Writes(name)
    /\ Selected \cup {"scores"} \subseteq Writes("variable_select_rank")
    /\ \A name \in {"spa_select", "scars_select"} :
          Selected \cup {"coefficient_scores"} \subseteq Writes(name)
    /\ Selected \cup {"stability_scores"} \subseteq Writes("stability_select")
    /\ Selected \cup {"real_stability_scores"} \subseteq Writes("uve_select")
    /\ \A name \in {"random_frog_select", "ga_select"} :
          Selected \cup {"global_scores"} \subseteq Writes(name)
    /\ Selected \cup {"inclusion_frequencies"} \subseteq Writes("pso_select")
    /\ Selected \cup {"final_probabilities"} \subseteq Writes("vissa_select")
    /\ Selected \cup {"score_path"} \subseteq Writes("ipw_select")
    /\ Selected \cup {"t2_scores"} \subseteq Writes("t2_select")
    /\ \A name \in {"wvc_select", "wvc_threshold_select"} :
          Selected \cup {"final_scores"} \subseteq Writes(name)
    /\ Selected \cup {"p_values"} \subseteq Writes("randomization_select")
    /\ Selected \cup {"probability"} \subseteq Writes("irf_select")
    /\ Selected \cup {"vip_scores"} \subseteq Writes("vip_spa_select")
  BY DEF Writes

LEMMA DiagnosesWritten ==
    /\ {"t2", "q", "dmodx"} \subseteq Writes("pls_diagnostics_compute")
    /\ {"t2", "q", "t2_alarms", "q_alarms", "any_alarms"} \subseteq Writes("pls_monitoring_run")
    /\ {"press_per_component"} \subseteq Writes("approximate_press_compute")
    /\ {"one_se_n_components", "mean_rmse_per_component"}
          \subseteq Writes("one_se_rule_compute")
    /\ {"transformed"} \subseteq Writes("aom_preprocess_fit")
    /\ {"joint_loadings", "unique_loadings", "joint_scores", "block_reconstruction"}
          \subseteq Writes("on_pls_fit")
  BY DEF Writes

LEMMA LinearResultsSupplied == \A c \in LinearResults : Supplied(c)
  <1>1. /\ Supplied(SparseSimplsRegression) /\ Supplied(CPPLSRegression)
        /\ Supplied(ECRegression) /\ Supplied(DIPLSRegression)
        /\ Supplied(MIRPLSRegression)
    BY PackedWritten, LinearWritten
    DEF Supplied, SparseSimplsRegression, CPPLSRegression, ECRegression, DIPLSRegression,
        MIRPLSRegression, sparse_simpls_fit, cppls_fit, ecr_fit, di_pls_fit, mir_pls_fit,
        Linear, Wraps, Method, OnData, Means, Packed
  <1>2. /\ Supplied(MBPLSRegression) /\ Supplied(NPLSRegression)
        /\ Supplied(O2PLSRegression) /\ Supplied(PLSGLMRegressor)
        /\ Supplied(PLSCoxRegressor)
    BY PackedWritten, LinearWritten
    DEF Supplied, MBPLSRegression, NPLSRegression, O2PLSRegression, PLSGLMRegressor,
        PLSCoxRegressor, mb_pls_fit, n_pls_fit, o2pls_fit, pls_glm_fit, pls_cox_fit,
        Linear, Wraps, Method, OnData, Means, Packed
  <1>3. Supplied(PDSTransformer) /\ Supplied(DSTransformer)
    BY PackedWritten, LinearWritten
    DEF Supplied, PDSTransformer, DSTransformer, pds_fit, ds_fit, Wraps, Method, Packed
  <1>4. Supplied(SparsePLSDAClassifier)
    BY PackedWritten, LinearWritten
    DEF Supplied, SparsePLSDAClassifier, sparse_pls_da_fit, Linear, Wraps, Method,
        OnLabels, Means, Packed
  <1> QED
    BY <1>1, <1>2, <1>3, <1>4 DEF LinearResults

LEMMA InSampleResultsSupplied == \A c \in InSampleResults : Supplied(c)
  <1>1. /\ Supplied(PLSLogisticClassifier) /\ Supplied(PLSLDAClassifier)
        /\ Supplied(PLSQDAClassifier) /\ Supplied(WeightedPLSRegression)
        /\ Supplied(RobustPLSRegression)
    BY PackedWritten, InSampleWritten
    DEF Supplied, PLSLogisticClassifier, PLSLDAClassifier, PLSQDAClassifier,
        WeightedPLSRegression, RobustPLSRegression, pls_logistic_fit, pls_lda_fit,
        pls_qda_fit, weighted_pls_fit, robust_pls_fit, InSample, Wraps, Method, OnData,
        OnLabels, Packed
  <1>2. /\ Supplied(RidgePLSRegression) /\ Supplied(ContinuumRegression)
        /\ Supplied(RecursivePLSRegression) /\ Supplied(LWPLSRegression)
        /\ Supplied(MissingAwareNipalsRegression)
    BY PackedWritten, InSampleWritten
    DEF Supplied, RidgePLSRegression, ContinuumRegression, RecursivePLSRegression,
        LWPLSRegression, MissingAwareNipalsRegression, ridge_pls_fit,
        continuum_regression_fit, recursive_pls_run, lw_pls_fit, missing_aware_nipals_fit,
        InSample, Wraps, Method, OnData, Packed
  <1>3. /\ Supplied(GroupSparsePLSRegression) /\ Supplied(FusedSparsePLSRegression)
        /\ Supplied(BaggingPLSRegression) /\ Supplied(GPRPLSRegression)
        /\ Supplied(BoostingPLSRegression)
    BY PackedWritten, InSampleWritten
    DEF Supplied, GroupSparsePLSRegression, FusedSparsePLSRegression, BaggingPLSRegression,
        GPRPLSRegression, BoostingPLSRegression, group_sparse_pls_fit,
        fused_sparse_pls_fit, bagging_pls_fit, gpr_pls_fit, boosting_pls_fit, InSample,
        Wraps, Method, OnData, Packed
  <1>4. /\ Supplied(RandomSubspacePLSRegression) /\ Supplied(SOPLSRegression)
        /\ Supplied(ROSARegression)
    BY PackedWritten, InSampleWritten
    DEF Supplied, RandomSubspacePLSRegression, SOPLSRegression, ROSARegression,
        random_subspace_pls_fit, so_pls_fit, rosa_fit, InSample, Wraps, Method, OnData,
        Packed
  <1>5. Supplied(KernelPLSRegression)
    BY PackedWritten, InSampleWritten
    DEF Supplied, KernelPLSRegression, kernel_pls_fit, InSample, Wraps, Method, OnData,
        Packed
  <1> QED
    BY <1>1, <1>2, <1>3, <1>4, <1>5 DEF InSampleResults

LEMMA SelectorsSupplied == \A c \in Selectors : Supplied(c)
  <1>1. /\ Supplied(VIPSelector) /\ Supplied(CoefficientSelector)
        /\ Supplied(SelectivityRatioSelector) /\ Supplied(SPASelector)
        /\ Supplied(StabilitySelector)
    BY SelectionWritten
    DEF Supplied, VIPSelector, CoefficientSelector, SelectivityRatioSelector, SPASelector,
        StabilitySelector, variable_select_rank, spa_select, stability_select, Selector,
        Wraps, Method, OnData, OnPlan
  <1>2. /\ Supplied(UVESelector) /\ Supplied(CARSSelector)
        /\ Supplied(RandomFrogSelector) /\ Supplied(SCARSSelector)
        /\ Supplied(GASelector)
    BY SelectionWritten
    DEF Supplied, UVESelector, CARSSelector, RandomFrogSelector, SCARSSelector, GASelector,
        uve_select, cars_select, random_frog_select, scars_select, ga_select, Selector,
        Wraps, Method, OnData, OnPlan
  <1>3. /\ Supplied(PSOSelector) /\ Supplied(VISSASelector)
        /\ Supplied(ShavingSelector) /\ Supplied(BVESelector) /\ Supplied(REPSelector)
    BY SelectionWritten
    DEF Supplied, PSOSelector, VISSASelector, ShavingSelector, BVESelector, REPSelector,
        pso_select, vissa_select, shaving_select, bve_select, rep_select, Selector, Wraps,
        Method, OnData, OnPlan
  <1>4. /\ Supplied(IPWSelector) /\ Supplied(STSelector) /\ Supplied(IntervalSelector)
        /\ Supplied(BiPLSSelector) /\ Supplied(SiPLSSelector)
    BY SelectionWritten
    DEF Supplied, IPWSelector, STSelector, IntervalSelector, BiPLSSelector, SiPLSSelector,
        ipw_select, st_select, interval_select, bipls_select, sipls_select, Selector,
        Wraps, Method, OnData, OnPlan
  <1>5. /\ Supplied(T2Selector) /\ Supplied(WVCSelector)
        /\ Supplied(WVCThresholdSelector) /\ Supplied(EMCUVESelector)
        /\ Supplied(RandomizationSelector)
    BY SelectionWritten
    DEF Supplied, T2Selector, WVCSelector, WVCThresholdSelector, EMCUVESelector,
        RandomizationSelector, t2_select, wvc_select, wvc_threshold_select, emcuve_select,
        randomization_select, Selector, Wraps, Method, OnData, OnPlan
  <1>6. Supplied(IRIVSelector) /\ Supplied(IRFSelector) /\ Supplied(VIPSPASelector)
    BY SelectionWritten
    DEF Supplied, IRIVSelector, IRFSelector, VIPSPASelector, iriv_select, irf_select,
        vip_spa_select, Selector, Wraps, Method, OnData, OnPlan
  <1> QED
    BY <1>1, <1>2, <1>3, <1>4, <1>5, <1>6 DEF Selectors

LEMMA ReportsSupplied == \A c \in Reports : Supplied(c)
  <1>1. /\ Supplied(t2_score) /\ Supplied(q_score) /\ Supplied(dmodx_score)
        /\ Supplied(pls_monitoring) /\ Supplied(approximate_press)
    BY DiagnosesWritten
    DEF Supplied, t2_score, q_score, dmodx_score, pls_monitoring, approximate_press,
        pls_diagnostics_compute, pls_monitoring_run, approximate_press_compute, Report,
        Method, OnData, Diagnoses
  <1>2. Supplied(one_se_rule) /\ Supplied(aom_preprocess) /\ Supplied(on_pls)
    BY DiagnosesWritten
    DEF Supplied, one_se_rule, aom_preprocess, on_pls, one_se_rule_compute,
        aom_preprocess_fit, on_pls_fit, Report, Method
  <1> QED
    BY <1>1, <1>2 DEF Reports

(* For every class and in every state before the first fit: each class     *)
(* gives its function the inputs that takes, and reads only what the C code *)
(* writes under that name.                                                 *)
THEOREM MethodsSupplied == Spec => []KeysAgree
  <1>1. KeysAgree
    BY LinearResultsSupplied, InSampleResultsSupplied, SelectorsSupplied, ReportsSupplied
    DEF KeysAgree, Wrapping, Supplied
  <1> QED
    BY <1>1, PTL
=============================================================================
