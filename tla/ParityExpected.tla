---------------------------- MODULE ParityExpected ----------------------------
EXTENDS TLC

(***************************************************************************)
(* What the reference implementations of pls4all_parity.suites put under   *)
(* "expected". The numbers are what their NumPy code computes; here only   *)
(* the names they are filed under matter, and the form of each value,      *)
(* because cpp_header finds them again by name and casts by form.          *)
(***************************************************************************)

(* A float array, an array of whole numbers, or a bare JSON value.         *)
Fields(floats, ints, plain) ==
    [k \in floats |-> "floats"] @@ [k \in ints |-> "ints"] @@ [k \in plain |-> "plain"]
Floats(keys) == Fields(keys, {}, {})

FitArrays == {"coefficients", "intercept", "x_mean", "x_scale", "y_mean", "y_scale",
              "weights_W", "loadings_P", "y_loadings_Q", "rotations_R", "scores_T",
              "predict_train"}

(* Without the scores: scikit-learn's PLSRegression is asked for the rest. *)
expected_from_pls == Floats(FitArrays \ {"scores_T"})
expected_from_pls_da == Floats(FitArrays)
simpls_expected == Floats(FitArrays)
svd_pls_expected == Floats(FitArrays)
pls_svd_expected == Floats(FitArrays)
pipeline_expected == Floats({"transform_train"})
aom_preprocessing_expected ==
    Fields({"operator_outputs", "transformed", "weights"},
           {"operator_kinds"},
           {"gating_mode"})
regression_metrics_expected == Floats({"metrics"})
binary_classification_metrics_expected == Floats({"metrics"})
multiclass_classification_metrics_expected ==
    Floats({"confusion_matrix", "per_class_metrics", "summary_metrics"})
binary_calibration_curve_expected == Floats({"calibration_curve"})
pls_lda_expected == Fields({"decision_scores"}, {"predictions"}, {})
pls_logistic_expected ==
    Fields({"coefficients", "decision_scores", "intercepts", "probabilities"},
           {"predictions"},
           {})
mb_pls_expected ==
    Floats({"block_weights", "coefficients", "intercept", "predictions",
            "x_mean", "x_scale"})
lw_pls_expected == Fields({"predictions"}, {"neighbor_indices"}, {})
variable_importance_expected == Floats({"selectivity_ratio", "vip"})
variable_selection_expected ==
    Fields({"coefficient_scores", "selectivity_ratio_scores", "vip_scores"},
           {"coefficient_indices", "selectivity_ratio_indices", "vip_indices"},
           {})
interval_selection_expected ==
    Fields({"metrics_by_interval", "rmse"},
           {"best_index", "best_interval", "intervals"},
           {})
bipls_selection_expected ==
    Fields({"rmse_path"},
           {"active_counts", "best_step", "intervals", "removed_intervals",
            "selected_feature_indices", "selected_interval_indices"},
           {})
sipls_selection_expected ==
    Fields({"rmse_by_combination"},
           {"best_combination_index", "candidate_interval_indices",
            "intervals", "selected_feature_indices",
            "selected_interval_indices"},
           {})
coefficient_stability_expected ==
    Fields({"mean_coefficients", "stability_scores", "std_coefficients"},
           {"selected_indices"},
           {})
uve_expected ==
    Fields({"noise_stability_scores", "real_stability_scores"},
           {"selected_indices"},
           {"noise_threshold"})
emcuve_expected ==
    Fields({"mean_real_stability_scores", "noise_thresholds",
            "vote_frequencies"},
           {"selected_indices"},
           {})
randomization_selection_expected ==
    Fields({"observed_scores", "p_values"},
           {"exceedance_counts", "selected_indices"},
           {})
spa_selection_expected ==
    Fields({"coefficient_scores", "selection_scores"},
           {"selected_indices"},
           {})
cars_selection_as_arrays ==   \* mutant
    Fields({"coefficient_scores", "rmse_by_iteration", "best_rmse"},
           {"retained_counts", "selected_indices", "best_iteration"}, {})

cars_selection_expected ==
    Fields({"coefficient_scores", "rmse_by_iteration"},
           {"retained_counts", "selected_indices"},
           {"best_iteration", "best_rmse"})
random_frog_selection_expected ==
    Fields({"global_scores", "inclusion_frequencies", "rmse_by_iteration"},
           {"best_indices", "selected_indices", "subset_sizes"},
           {"best_rmse"})
scars_selection_expected ==
    Fields({"coefficient_scores", "rmse_by_iteration", "stability_scores"},
           {"retained_counts", "selected_indices"},
           {"best_iteration", "best_rmse", "sample_count"})
ga_population_expected ==
    Fields({"best_rmse_by_generation", "global_scores",
            "inclusion_frequencies", "mean_rmse_by_generation"},
           {"best_subset_sizes", "selected_indices"},
           {"best_rmse"})
shaving_selection_expected ==
    Fields({"coefficient_scores", "rmse_by_step"},
           {"retained_counts", "selected_indices"},
           {"best_rmse", "best_step"})
rep_selection_expected ==
    Fields({"coefficient_scores", "rmse_by_step"},
           {"removed_counts", "removed_indices", "retained_counts",
            "selected_indices"},
           {"best_rmse", "best_step"})
ipw_selection_expected ==
    Fields({"rmse_by_iteration", "score_path", "weight_path"},
           {"ranking_indices", "selected_by_iteration", "selected_indices"},
           {"best_iteration", "best_rmse"})
st_selection_expected ==
    Fields({"coefficient_scores", "rmse_by_threshold", "thresholds"},
           {"ranking_indices", "selected_counts", "selected_indices",
            "selected_masks"},
           {"best_rmse", "best_threshold", "best_threshold_index"})
bve_selection_expected ==
    Fields({"candidate_rmse", "rmse_by_step"},
           {"removed_indices", "retained_counts", "selected_indices"},
           {"best_rmse", "best_step"})
t2_selection_expected ==
    Fields({"rmse_by_alpha", "t2_scores", "ucl_by_alpha"},
           {"selected_counts", "selected_indices_best_error",
            "selected_indices_min_set", "selected_mask"},
           {"best_error_index", "best_rmse", "min_set_index", "min_set_rmse"})
wvc_selection_expected ==
    Fields({"final_scores", "loadings_P", "weights_W", "wvc_scores",
            "y_loadings_Q"},
           {"selected_indices"},
           {})
wvc_threshold_selection_expected ==
    Fields({"final_scores"},
           {"ranked_indices", "selected_indices"},
           {"effective_threshold", "mean_score", "score_threshold",
            "threshold_factor"})
component_coefficients_expected == Floats({"coefficients_by_component"})
validation_expected ==
    Fields({},
           {"test_indices", "test_offsets", "train_indices", "train_offsets"},
           {"n_folds"})
folds_to_validation_expected ==
    Fields({},
           {"test_indices", "test_offsets", "train_indices", "train_offsets"},
           {"n_folds"})
advanced_validation_expected == folds_to_validation_expected
cross_validation_expected ==
    Fields({"predictions"}, {"test_indices", "test_offsets"}, {}) @@ regression_metrics_expected
component_cv_expected ==
    Fields({"metrics_by_component"}, {"best_n_components"}, {})
power_pls_expected == Floats(FitArrays)
randomized_svd_pls_expected == Floats(FitArrays)
canonical_pls_expected == Floats(FitArrays)
kernel_pls_expected == Floats(FitArrays)
orthogonal_scores_expected == Floats(FitArrays)
opls_expected == Floats(FitArrays)
pcr_expected == Floats(FitArrays)
aom_bench_reference_expected ==
    Fields({"operator_params", "operator_scores", "predictions",
            "rmse_curves"},
           {"fold_test_indices", "fold_test_offsets", "fold_train_indices",
            "fold_train_offsets", "operator_kinds", "operator_param_offsets"},
           {"best_score", "operator_names", "selected_n_components",
            "selected_operator_index"})
aom_bench_pop_reference_expected ==
    Fields({"component_scores", "operator_params", "predictions",
            "prefix_scores"},
           {"fold_test_indices", "fold_test_offsets", "fold_train_indices",
            "fold_train_offsets", "operator_kinds", "operator_param_offsets",
            "selected_operator_indices"},
           {"best_score", "operator_names", "selected_n_components"})
aom_bench_operator_expected ==
    Fields({"operator_outputs", "operator_params"},
           {"operator_kinds", "operator_param_offsets"},
           {"operator_names"})
==============================================================================
