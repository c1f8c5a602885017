------------------------------- MODULE Methods -------------------------------
(***************************************************************************)
(* pls4all/_methods.py: the one-shot methods of the C library.  Each        *)
(* function borrows views of the arrays and handles it is given, calls the  *)
(* C function of its name and wraps the result it gets in an owning         *)
(* MethodResult.  A method is its name and the inputs it takes; numbers     *)
(* that tune it are left out.  Writes(name) is what its result holds.       *)
(***************************************************************************)

Method(name, takes) == [name |-> name, takes |-> takes]

OnData == {"cfg", "X", "Y"}
OnPlan == OnData \cup {"plan"}
OnLabels == {"cfg", "X", "y_labels"}

sparse_simpls_fit         == Method("sparse_simpls_fit", OnData)
di_pls_fit                == Method("di_pls_fit", OnData \cup {"X_target"})
recursive_pls_run         == Method("recursive_pls_run", OnData)
cppls_fit                 == Method("cppls_fit", OnData)
weighted_pls_fit          == Method("weighted_pls_fit", OnData \cup {"sample_weights"})
robust_pls_fit            == Method("robust_pls_fit", OnData)
ridge_pls_fit             == Method("ridge_pls_fit", OnData)
continuum_regression_fit  == Method("continuum_regression_fit", OnData)
n_pls_fit                 == Method("n_pls_fit", OnData)
kernel_pls_fit            == Method("kernel_pls_fit", OnData)
o2pls_fit                 == Method("o2pls_fit", OnData)
approximate_press_compute == Method("approximate_press_compute", OnData)
sparse_pls_da_fit         == Method("sparse_pls_da_fit", OnLabels)
group_sparse_pls_fit      == Method("group_sparse_pls_fit", OnData \cup {"group_assignment"})
fused_sparse_pls_fit      == Method("fused_sparse_pls_fit", OnData)
pls_monitoring_run        == Method("pls_monitoring_run", {"model", "X_reference", "X_monitor"})
one_se_rule_compute       == Method("one_se_rule_compute", {"fold_rmse_matrix"})
so_pls_fit                == Method("so_pls_fit", {"cfg", "X_blocks", "Y"})
on_pls_fit                == Method("on_pls_fit", {"cfg", "X_blocks"})
rosa_fit                  == Method("rosa_fit", {"cfg", "X_blocks", "Y"})
bagging_pls_fit           == Method("bagging_pls_fit", OnData)
gpr_pls_fit               == Method("gpr_pls_fit", OnData)
boosting_pls_fit          == Method("boosting_pls_fit", OnData)
random_subspace_pls_fit   == Method("random_subspace_pls_fit", OnData)
pls_glm_fit               == Method("pls_glm_fit", OnData)
pls_qda_fit               == Method("pls_qda_fit", OnLabels)
pls_cox_fit               == Method("pls_cox_fit", {"cfg", "X", "survival_times", "event_indicators"})
pds_fit                   == Method("pds_fit", {"X", "X_target"})
ds_fit                    == Method("ds_fit", {"X", "X_target"})
mir_pls_fit               == Method("mir_pls_fit", OnData)
missing_aware_nipals_fit  == Method("missing_aware_nipals_fit", OnData)
pls_diagnostics_compute   == Method("pls_diagnostics_compute", {"model", "X", "X_reference"})
mb_pls_fit                == Method("mb_pls_fit", OnData \cup {"block_sizes"})
lw_pls_fit                == Method("lw_pls_fit", OnData)
pls_lda_fit               == Method("pls_lda_fit", OnLabels)
pls_logistic_fit          == Method("pls_logistic_fit", OnLabels)
aom_preprocess_fit        == Method("aom_preprocess_fit", {"bank", "gate", "X", "Y"})

variable_select_rank      == Method("variable_select_rank", {"model", "X"})
interval_select           == Method("interval_select", OnPlan)
stability_select          == Method("stability_select", OnPlan)
uve_select                == Method("uve_select", OnPlan)
spa_select                == Method("spa_select", OnData)
cars_select               == Method("cars_select", OnPlan)
random_frog_select        == Method("random_frog_select", OnPlan)
scars_select              == Method("scars_select", OnPlan)
ga_select                 == Method("ga_select", OnPlan)
pso_select                == Method("pso_select", OnPlan)
vissa_select              == Method("vissa_select", OnPlan)
shaving_select            == Method("shaving_select", OnPlan)
bve_select                == Method("bve_select", OnPlan)
t2_select                 == Method("t2_select", OnPlan)
wvc_select                == Method("wvc_select", {"X", "Y"})
wvc_threshold_select      == Method("wvc_threshold_select", {"X", "Y"})
emcuve_select             == Method("emcuve_select", OnPlan)
randomization_select      == Method("randomization_select", OnData)
bipls_select              == Method("bipls_select", OnPlan)
sipls_select              == Method("sipls_select", OnPlan)
rep_select                == Method("rep_select", OnPlan)
ipw_select                == Method("ipw_select", OnPlan)
st_select                 == Method("st_select", OnPlan)
ecr_fit                   == Method("ecr_fit", OnData)
iriv_select               == Method("iriv_select", OnPlan)
irf_select                == Method("irf_select", OnPlan)
vip_spa_select            == Method("vip_spa_select", OnData)

(* The named arrays of each result, as packed in c_api_method_result.cpp; *)
(* scalars, error curves and counters are left out.                       *)
PackedBare == {"coefficients", "predictions"}   \* mutant: the means are not packed
Packed == {"coefficients", "x_mean", "y_mean", "predictions"}
Selected == {"selected_indices"}

Writes(name) ==
    CASE name \in {"cppls_fit", "mir_pls_fit", "n_pls_fit", "o2pls_fit", "ecr_fit",
                   "sparse_simpls_fit", "di_pls_fit", "sparse_pls_da_fit",
                   "weighted_pls_fit", "robust_pls_fit", "ridge_pls_fit",
                   "continuum_regression_fit", "missing_aware_nipals_fit",
                   "group_sparse_pls_fit", "fused_sparse_pls_fit",
                   "bagging_pls_fit", "boosting_pls_fit", "random_subspace_pls_fit"} -> Packed
      [] name = "mb_pls_fit" ->
            {"coefficients", "intercept", "x_mean", "x_scale", "block_weights", "predictions"}
      [] name = "pls_glm_fit" -> {"coefficients", "intercept", "predictions"}
      [] name = "pls_cox_fit" ->
            {"coefficients", "baseline_hazard", "event_times", "x_mean", "predictions"}
      [] name = "kernel_pls_fit" -> {"alpha", "y_mean", "predictions"}
      [] name = "gpr_pls_fit" -> {"rotation_r", "x_mean", "alpha", "L_lower", "training_scores",
                                  "predictions", "predictive_variance"}
      [] name \in {"so_pls_fit", "rosa_fit"} -> {"predictions", "y_mean"}
      [] name \in {"recursive_pls_run", "lw_pls_fit"} -> {"predictions"}
      [] name = "pls_qda_fit" -> {"class_means", "class_covariances", "log_class_priors",
                                  "rotations_r", "x_mean", "predictions"}
      [] name = "pls_lda_fit" -> {"decision_scores", "predictions"}
      [] name = "pls_logistic_fit" ->
            {"decision_scores", "probabilities", "intercepts", "coefficients", "predictions"}
      [] name = "pds_fit" -> {"transformation", "predictions"}
      [] name = "ds_fit" -> {"transformation", "bias", "predictions"}
      [] name = "pls_diagnostics_compute" -> {"t2", "q", "dmodx"}
      [] name = "pls_monitoring_run" -> {"t2", "q", "t2_reference", "q_reference",
                                         "t2_alarms", "q_alarms", "any_alarms"}
      [] name = "approximate_press_compute" -> {"press_per_component", "selected_n_components"}
      [] name = "one_se_rule_compute" ->
            {"mean_rmse_per_component", "best_n_components", "one_se_n_components"}
      [] name = "aom_preprocess_fit" -> {"transformed", "operator_outputs", "weights"}
      [] name = "on_pls_fit" -> {"joint_loadings", "unique_loadings", "joint_scores",
                                 "block_reconstruction"}
      [] name = "variable_select_rank" -> Selected \cup {"scores"}
      [] name = "stability_select" -> Selected \cup {"stability_scores"}
      [] name \in {"scars_select", "cars_select", "shaving_select", "rep_select", "st_select"} ->
            Selected \cup {"coefficient_scores"}
      [] name = "pso_select" -> Selected \cup {"inclusion_frequencies"}
      [] name = "vissa_select" -> Selected \cup {"inclusion_frequencies", "final_probabilities"}
      [] name = "t2_select" -> Selected \cup {"t2_scores"}
      [] name = "randomization_select" -> Selected \cup {"observed_scores", "p_values"}
      [] name = "ipw_select" -> Selected \cup {"score_path"}
      [] name = "irf_select" -> Selected \cup {"probability"}
      [] name = "uve_select" -> Selected \cup {"real_stability_scores", "noise_stability_scores"}
      [] name = "spa_select" -> Selected \cup {"coefficient_scores", "selection_scores"}
      [] name \in {"random_frog_select", "ga_select"} ->
            Selected \cup {"global_scores", "inclusion_frequencies"}
      [] name \in {"wvc_select", "wvc_threshold_select"} -> Selected \cup {"final_scores"}
      [] name = "vip_spa_select" -> Selected \cup {"vip_scores", "selection_scores"}
      [] OTHER -> Selected
=============================================================================
