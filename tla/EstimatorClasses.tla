-------------------------- MODULE EstimatorClasses --------------------------
(***************************************************************************)
(* The estimator classes of pls4all.sklearn, one record each:              *)
(*   fit      which of the fit methods of ModelEstimator it runs           *)
(*   answers  the argument predict or transform answers for: a matrix as   *)
(*            wide as the fit ("width"), the content fitted on ("content"),*)
(*            an object with the address of the one fitted on ("address")  *)
(*   config   what _make_config asks the core for (Model-based classes)    *)
(*   method, passes, reads   the function of Methods it calls, the inputs  *)
(*            it gives it and the results it reads                         *)
(*   finite   whether fit rejects NaN and infinity itself                  *)
(*   tuned    whether the tuning number it documents is passed to the core *)
(***************************************************************************)
EXTENDS Integers, Methods

Solvers == {"nipals", "simpls", "orthogonal-scores", "kernel", "wide-kernel", "svd", "power",
            "randomized-svd"}
Ask(algorithm, deflation) == [algorithm |-> algorithm, deflation |-> deflation]

(* Model-based: the fit is kept as a bundle. *)
Modelled(name, fit, algorithm, solvers, deflation) ==
    [name |-> name, fit |-> fit, answers |-> "width", solvers |-> solvers, finite |-> TRUE,
     tuned |-> FALSE, config |-> Ask(algorithm, deflation)]
AnySolver == Solvers \cup {"unknown"}       \* set_params takes any string

PLSRegression == Modelled("PLSRegression", "regressor", "PLS_REGRESSION", AnySolver, "REGRESSION")
OPLSRegression == Modelled("OPLSRegression", "regressor", "OPLS", AnySolver, "ORTHOGONAL")
PCR == Modelled("PCR", "regressor", "PCR", {"svd"}, "REGRESSION")
SparsePLSRegression ==
    Modelled("SparsePLSRegression", "regressor", "SPARSE_PLS", AnySolver, "REGRESSION")
PLSCanonical == Modelled("PLSCanonical", "regressor", "PLS_CANONICAL", AnySolver, "CANONICAL")
PLSSVD == Modelled("PLSSVD", "regressor", "PLS_SVD", {"svd"}, "CANONICAL")
PLSDAClassifier == Modelled("PLSDAClassifier", "discriminant", "PLS_DA", AnySolver, "REGRESSION")
OPLSDAClassifier ==
    Modelled("OPLSDAClassifier", "discriminant", "OPLS_DA", AnySolver, "ORTHOGONAL")

(* The others keep what they read from one result. *)
Wraps(name, fit, answers, method, passes, reads, finite) ==
    [name |-> name, fit |-> fit, answers |-> answers, method |-> method, passes |-> passes,
     reads |-> reads, finite |-> finite, tuned |-> TRUE, solvers |-> {"simpls"}]
Linear(name, method, passes, reads) == Wraps(name, "result", "width", method, passes, reads, TRUE)
InSample(name, method, passes) ==
    Wraps(name, "result", "content", method, passes, {"predictions"}, TRUE)
Means == {"coefficients", "x_mean", "y_mean"}

SparseSimplsRegression == Linear("SparseSimplsRegression", sparse_simpls_fit, OnData, Means)
CPPLSRegression == Linear("CPPLSRegression", cppls_fit, OnData, Means)
ECRegression == Linear("ECRegression", ecr_fit, OnData, Means)
DIPLSRegression == Linear("DIPLSRegression", di_pls_fit, OnData \cup {"X_target"}, Means)
MIRPLSRegression == Linear("MIRPLSRegression", mir_pls_fit, OnData, Means)
MBPLSRegression == Linear("MBPLSRegression", mb_pls_fit, OnData \cup {"block_sizes"},
                          {"coefficients", "x_mean", "x_scale", "intercept", "block_weights"})
NPLSRegression == Linear("NPLSRegression", n_pls_fit, OnData, Means)
O2PLSRegression == Linear("O2PLSRegression", o2pls_fit, OnData, Means)
PLSGLMRegressor == Linear("PLSGLMRegressor", pls_glm_fit, OnData, {"coefficients", "intercept"})
KernelPLSRegression == [InSample("KernelPLSRegression", kernel_pls_fit, OnData)
                          EXCEPT !.reads = {"alpha", "y_mean", "predictions"}]
SparsePLSDAClassifier == [Linear("SparsePLSDAClassifier", sparse_pls_da_fit, OnLabels, Means)
                            EXCEPT !.tuned = FALSE]
PLSCoxRegressor ==
    Wraps("PLSCoxRegressor", "result", "width", pls_cox_fit,
          {"cfg", "X", "survival_times", "event_indicators"}, {"coefficients", "x_mean"}, FALSE)
PLSLogisticClassifier ==
    Wraps("PLSLogisticClassifier", "result", "content", pls_logistic_fit, OnLabels,
          {"decision_scores", "probabilities"}, TRUE)
PLSLDAClassifier == Wraps("PLSLDAClassifier", "result", "address", pls_lda_fit, OnLabels,
                          {"decision_scores"}, TRUE)
PLSQDAClassifier == Wraps("PLSQDAClassifier", "result", "address", pls_qda_fit, OnLabels,
                          {"predictions"}, TRUE)
PDSTransformer == Wraps("PDSTransformer", "result", "width", pds_fit, {"X", "X_target"},
                        {"transformation"}, FALSE)
DSTransformer == Wraps("DSTransformer", "result", "width", ds_fit, {"X", "X_target"},
                       {"transformation", "bias"}, FALSE)

WeightedPLSRegression ==
    InSample("WeightedPLSRegression", weighted_pls_fit, OnData \cup {"sample_weights"})
RobustPLSRegression == InSample("RobustPLSRegression", robust_pls_fit, OnData)
RidgePLSRegression == InSample("RidgePLSRegression", ridge_pls_fit, OnData)
ContinuumRegression == InSample("ContinuumRegression", continuum_regression_fit, OnData)
RecursivePLSRegression == InSample("RecursivePLSRegression", recursive_pls_run, OnData)
LWPLSRegression == InSample("LWPLSRegression", lw_pls_fit, OnData)
MissingAwareNipalsRegression ==
    InSample("MissingAwareNipalsRegression", missing_aware_nipals_fit, OnData)
GroupSparsePLSRegression ==
    InSample("GroupSparsePLSRegression", group_sparse_pls_fit, OnData \cup {"group_assignment"})
FusedSparsePLSRegression == InSample("FusedSparsePLSRegression", fused_sparse_pls_fit, OnData)
BaggingPLSRegression == InSample("BaggingPLSRegression", bagging_pls_fit, OnData)
GPRPLSRegression == InSample("GPRPLSRegression", gpr_pls_fit, OnData)
BoostingPLSRegression == InSample("BoostingPLSRegression", boosting_pls_fit, OnData)
RandomSubspacePLSRegression ==
    InSample("RandomSubspacePLSRegression", random_subspace_pls_fit, OnData)
SOPLSRegression == InSample("SOPLSRegression", so_pls_fit, {"cfg", "X_blocks", "Y"})
ROSARegression == InSample("ROSARegression", rosa_fit, {"cfg", "X_blocks", "Y"})

(* Selectors; scores names the scores they publish, if they read any. *)
Selector(name, method, passes, scores) ==
    Wraps(name, "selector", "width", method, passes, Selected \cup scores, TRUE)

VIPSelector == Selector("VIPSelector", variable_select_rank, {"model", "X"}, {"scores"})
CoefficientSelector ==
    Selector("CoefficientSelector", variable_select_rank, {"model", "X"}, {"scores"})
SelectivityRatioSelector ==
    Selector("SelectivityRatioSelector", variable_select_rank, {"model", "X"}, {"scores"})
SPASelector == Selector("SPASelector", spa_select, OnData, {"coefficient_scores"})
StabilitySelector == Selector("StabilitySelector", stability_select, OnPlan, {"stability_scores"})
UVESelector == Selector("UVESelector", uve_select, OnPlan, {"real_stability_scores"})
CARSSelector == Selector("CARSSelector", cars_select, OnPlan, {})
RandomFrogSelector == Selector("RandomFrogSelector", random_frog_select, OnPlan, {"global_scores"})
SCARSSelector == Selector("SCARSSelector", scars_select, OnPlan, {"coefficient_scores"})
GASelector == Selector("GASelector", ga_select, OnPlan, {"global_scores"})
PSOSelector == Selector("PSOSelector", pso_select, OnPlan, {"inclusion_frequencies"})
VISSASelector == Selector("VISSASelector", vissa_select, OnPlan, {"final_probabilities"})
ShavingSelector == Selector("ShavingSelector", shaving_select, OnPlan, {})
BVESelector == Selector("BVESelector", bve_select, OnPlan, {})
REPSelector == Selector("REPSelector", rep_select, OnPlan, {})
IPWSelector == Selector("IPWSelector", ipw_select, OnPlan, {"score_path"})
STSelector == Selector("STSelector", st_select, OnPlan, {})
IntervalSelector == Selector("IntervalSelector", interval_select, OnPlan, {})
BiPLSSelector == Selector("BiPLSSelector", bipls_select, OnPlan, {})
SiPLSSelector == Selector("SiPLSSelector", sipls_select, OnPlan, {})
T2Selector == Selector("T2Selector", t2_select, OnPlan, {"t2_scores"})
WVCSelector == Selector("WVCSelector", wvc_select, {"X", "Y"}, {"final_scores"})
WVCThresholdSelector ==
    Selector("WVCThresholdSelector", wvc_threshold_select, {"X", "Y"}, {"final_scores"})
EMCUVESelector == Selector("EMCUVESelector", emcuve_select, OnPlan, {})
RandomizationSelector ==
    Selector("RandomizationSelector", randomization_select, OnData, {"p_values"})
IRIVSelector == Selector("IRIVSelector", iriv_select, OnPlan, {})
IRFSelector == Selector("IRFSelector", irf_select, OnPlan, {"probability"})
VIPSPASelector == Selector("VIPSPASelector", vip_spa_select, OnData, {"vip_scores"})

(* Functions that keep nothing (_diagnostics.py). *)
Report(name, method, passes, reads) ==
    [name |-> name, method |-> method, passes |-> passes, reads |-> reads]
Diagnoses == {"model", "X", "X_reference"}
t2_score == Report("t2_score", pls_diagnostics_compute, Diagnoses, {"t2"})
q_score == Report("q_score", pls_diagnostics_compute, Diagnoses, {"q"})
dmodx_score == Report("dmodx_score", pls_diagnostics_compute, Diagnoses, {"dmodx"})
pls_monitoring ==
    Report("pls_monitoring", pls_monitoring_run, {"model", "X_reference", "X_monitor"},
           {"t2", "q", "t2_alarms", "q_alarms", "any_alarms"})
approximate_press ==
    Report("approximate_press", approximate_press_compute, OnData, {"press_per_component"})
one_se_rule == Report("one_se_rule", one_se_rule_compute, {"fold_rmse_matrix"},
                      {"one_se_n_components", "mean_rmse_per_component"})
aom_preprocess == Report("aom_preprocess", aom_preprocess_fit, {"bank", "gate", "X", "Y"},
                         {"transformed"})
on_pls == Report("on_pls", on_pls_fit, {"cfg", "X_blocks"},
                 {"joint_loadings", "unique_loadings", "joint_scores", "block_reconstruction"})

-----------------------------------------------------------------------------
Regressors == {PLSRegression, OPLSRegression, PCR, SparsePLSRegression, PLSCanonical, PLSSVD}
Discriminants == {PLSDAClassifier, OPLSDAClassifier}
LinearResults ==
    {SparseSimplsRegression, CPPLSRegression, ECRegression, DIPLSRegression, MIRPLSRegression,
     MBPLSRegression, NPLSRegression, O2PLSRegression, PLSGLMRegressor, SparsePLSDAClassifier,
     PLSCoxRegressor, PDSTransformer, DSTransformer}
InSampleResults ==
    {KernelPLSRegression, PLSLogisticClassifier, PLSLDAClassifier, PLSQDAClassifier,
     WeightedPLSRegression, RobustPLSRegression, RidgePLSRegression, ContinuumRegression,
     RecursivePLSRegression, LWPLSRegression, MissingAwareNipalsRegression,
     GroupSparsePLSRegression, FusedSparsePLSRegression, BaggingPLSRegression, GPRPLSRegression,
     BoostingPLSRegression, RandomSubspacePLSRegression, SOPLSRegression, ROSARegression}
Selectors ==
    {VIPSelector, CoefficientSelector, SelectivityRatioSelector, SPASelector, StabilitySelector,
     UVESelector, CARSSelector, RandomFrogSelector, SCARSSelector, GASelector, PSOSelector,
     VISSASelector, ShavingSelector, BVESelector, REPSelector, IPWSelector, STSelector,
     IntervalSelector, BiPLSSelector, SiPLSSelector, T2Selector, WVCSelector,
     WVCThresholdSelector, EMCUVESelector, RandomizationSelector, IRIVSelector, IRFSelector,
     VIPSPASelector}
Reports == {t2_score, q_score, dmodx_score, pls_monitoring, approximate_press, one_se_rule,
            aom_preprocess, on_pls}

Bundled == Regressors \cup Discriminants
Wrapping == LinearResults \cup InSampleResults \cup Selectors
AllClasses == Bundled \cup Wrapping

-----------------------------------------------------------------------------
(* _default_plan: contiguous folds of rows 0 .. n - 1, the remainder in the *)
(* last one.                                                               *)
fold_size(n, k) == IF n < k THEN 1 ELSE n \div k
TestRowsEqual(n, k, f) ==       \* mutant: the remainder of the division is in no fold
    (f * fold_size(n, k)) .. (f + 1) * fold_size(n, k) - 1
TestRows(n, k, f) ==
    (f * fold_size(n, k)) .. (IF f < k - 1 THEN (f + 1) * fold_size(n, k) - 1 ELSE n - 1)
default_plan(n, k) ==
    [f \in 0 .. k - 1 |-> [train |-> 0 .. f * fold_size(n, k) - 1 \cup
                             (IF f < k - 1 THEN (f + 1) * fold_size(n, k) ELSE n) .. n - 1,
                           test |-> TestRows(n, k, f)]]

(* A plan whose folds cover the rows once, each trained on the others. *)
Partitions(plan, n) ==
    /\ \A f \in DOMAIN plan : plan[f].test # {} /\ plan[f].train = (0 .. n - 1) \ plan[f].test
    /\ \A r \in 0 .. n - 1 : \E f \in DOMAIN plan :
          r \in plan[f].test /\ \A g \in DOMAIN plan : r \in plan[g].test => g = f
=============================================================================
