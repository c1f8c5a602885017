---------------------------- MODULE ParityHeaders ----------------------------
EXTENDS ParitySuites

(***************************************************************************)
(* pls4all_parity.cpp_header: the fixtures of each family of C++ tests and *)
(* what the family's generator looks up in each of them.                   *)
(***************************************************************************)
Reads(params, data, expected) ==
    [params |-> params, data |-> data, expected |-> expected, optional |-> {}]
(* "if field in ...": left out of the header when the fixture lacks it.     *)
Optional(keys, r) == [r EXCEPT !.optional = keys]

generate ==
    Reads({"n_components"}, XY,
          Floats(FitArrays))
generate_pipeline ==
    Reads({"operators"}, XY,
          Floats({"transform_train"}))
generate_aom_preprocessing ==
    Reads({}, Floats({"X"}),
          Fields({"operator_outputs", "transformed", "weights"},
                 {"operator_kinds"},
                 {"gating_mode"}))
generate_aom_selection ==
    Reads({"cv", "max_components"}, XY,
          Fields({"operator_params", "operator_scores", "predictions",
                  "rmse_curves"},
                 {"fold_test_indices", "fold_test_offsets",
                  "fold_train_indices", "fold_train_offsets",
                  "operator_kinds", "operator_param_offsets"},
                 {"best_score", "selected_n_components",
                  "selected_operator_index"}))
generate_aom_operators ==
    Reads({}, Floats({"X"}),
          Fields({"operator_outputs", "operator_params"},
                 {"operator_kinds", "operator_param_offsets"},
                 {}))
generate_aom_pop_selection ==
    Reads({"cv", "max_components"}, XY,
          Fields({"component_scores", "operator_params", "predictions",
                  "prefix_scores"},
                 {"fold_test_indices", "fold_test_offsets",
                  "fold_train_indices", "fold_train_offsets",
                  "operator_kinds", "operator_param_offsets",
                  "selected_operator_indices"},
                 {"best_score", "selected_n_components"}))
generate_metrics ==
    Reads({}, Floats({"Y_pred", "Y_true"}),
          Floats({"metrics"}))
generate_classification_metrics ==
    Reads({"threshold"}, Fields({"scores"}, {"labels"}, {}),
          Floats({"metrics"}))
generate_classification_extensions ==
    Optional({"calibration_curve", "confusion_matrix", "per_class_metrics",
              "summary_metrics"},
    Reads({"kind", "n_bins", "n_classes"}, Fields({"scores"}, {"labels"}, {}),
          Floats({"calibration_curve", "confusion_matrix",
                  "per_class_metrics", "summary_metrics"})))
generate_pls_lda ==
    Reads({"n_classes", "n_components"}, Fields({"X"}, {"labels"}, {}),
          Fields({"decision_scores"}, {"predictions"}, {}))
generate_pls_logistic ==
    Reads({"n_classes", "n_components"}, Fields({"X"}, {"labels"}, {}),
          Fields({"coefficients", "decision_scores", "intercepts",
                  "probabilities"},
                 {"predictions"},
                 {}))
generate_mb_pls ==
    Reads({"block_sizes", "n_components"}, XY,
          Floats({"block_weights", "coefficients", "intercept", "predictions",
                  "x_mean", "x_scale"}))
generate_lw_pls ==
    Reads({"n_components", "n_neighbors"}, XY,
          Fields({"predictions"}, {"neighbor_indices"}, {}))
generate_variable_importance ==
    Reads({"n_components"}, XY,
          Floats({"selectivity_ratio", "vip"}))
generate_variable_selection ==
    Reads({"n_components", "top_k"}, XY,
          Fields({"coefficient_scores", "selectivity_ratio_scores",
                  "vip_scores"},
                 {"coefficient_indices", "selectivity_ratio_indices",
                  "vip_indices"},
                 {}))
generate_interval_selection ==
    Reads({"interval_width", "n_components", "n_splits", "step"}, XY,
          Fields({"metrics_by_interval", "rmse"},
                 {"best_index", "best_interval", "intervals"},
                 {}))
generate_bipls_selection ==
    Reads({"interval_width", "min_intervals", "n_components", "n_splits"}, XY,
          Fields({"rmse_path"},
                 {"active_counts", "best_step", "intervals",
                  "removed_intervals", "selected_feature_indices",
                  "selected_interval_indices"},
                 {}))
generate_sipls_selection ==
    Reads({"combination_size", "interval_width", "n_components", "n_splits"}, XY,
          Fields({"rmse_by_combination"},
                 {"best_combination_index", "candidate_interval_indices",
                  "intervals", "selected_feature_indices",
                  "selected_interval_indices"},
                 {}))
generate_stability_selection ==
    Reads({"n_components", "n_repeats", "seed", "test_count", "top_k"}, XY,
          Fields({"mean_coefficients", "stability_scores", "std_coefficients"},
                 {"selected_indices"},
                 {}))
generate_uve_selection ==
    Reads({"n_components", "n_repeats", "noise_features", "noise_seed",
           "test_count", "validation_seed"}, XY,
          Fields({"noise_stability_scores", "real_stability_scores"},
                 {"selected_indices"},
                 {"noise_threshold"}))
generate_emcuve_selection ==
    Reads({"n_components", "n_ensembles", "n_repeats", "noise_features",
           "noise_seed", "test_count", "validation_seed", "vote_threshold"}, XY,
          Fields({"mean_real_stability_scores", "noise_thresholds",
                  "vote_frequencies"},
                 {"selected_indices"},
                 {}))
generate_randomization_selection ==
    Reads({"alpha", "n_components", "n_permutations", "randomization_seed"}, XY,
          Fields({"observed_scores", "p_values"},
                 {"exceedance_counts", "selected_indices"},
                 {}))
generate_spa_selection ==
    Reads({"n_components", "top_k"}, XY,
          Fields({"coefficient_scores", "selection_scores"},
                 {"selected_indices"},
                 {}))
generate_cars_selection ==
    Reads({"min_features", "n_components", "n_iterations", "n_splits"}, XY,
          Fields({"coefficient_scores", "rmse_by_iteration"},
                 {"retained_counts", "selected_indices"},
                 {"best_iteration", "best_rmse"}))
generate_random_frog_selection ==
    Reads({"initial_size", "max_size", "min_size", "n_components",
           "n_iterations", "n_splits", "seed", "top_k"}, XY,
          Fields({"global_scores", "inclusion_frequencies",
                  "rmse_by_iteration"},
                 {"best_indices", "selected_indices", "subset_sizes"},
                 {"best_rmse"}))
generate_scars_selection ==
    Reads({"min_features", "n_components", "n_iterations", "n_splits",
           "sample_fraction", "seed"}, XY,
          Fields({"coefficient_scores", "rmse_by_iteration",
                  "stability_scores"},
                 {"retained_counts", "selected_indices"},
                 {"best_iteration", "best_rmse", "sample_count"}))
generate_ga_selection ==
    Reads({"max_features", "min_features", "mutation_rate", "n_components",
           "n_generations", "n_splits", "population_size", "seed"}, XY,
          Fields({"best_rmse_by_generation", "global_scores",
                  "inclusion_frequencies", "mean_rmse_by_generation"},
                 {"best_subset_sizes", "selected_indices"},
                 {"best_rmse"}))
generate_shaving_selection ==
    Reads({"min_features", "n_components", "n_splits", "n_steps",
           "shave_fraction"}, XY,
          Fields({"coefficient_scores", "rmse_by_step"},
                 {"retained_counts", "selected_indices"},
                 {"best_rmse", "best_step"}))
generate_rep_selection ==
    Reads({"min_features", "n_components", "n_splits", "n_steps",
           "remove_count"}, XY,
          Fields({"coefficient_scores", "rmse_by_step"},
                 {"removed_counts", "removed_indices", "retained_counts",
                  "selected_indices"},
                 {"best_rmse", "best_step"}))
generate_ipw_selection ==
    Reads({"damping", "n_components", "n_iterations", "n_splits", "top_k",
           "weight_floor"}, XY,
          Fields({"rmse_by_iteration", "score_path", "weight_path"},
                 {"ranking_indices", "selected_by_iteration",
                  "selected_indices"},
                 {"best_iteration", "best_rmse"}))
generate_st_selection ==
    Reads({"min_selected", "n_components", "n_splits", "thresholds"}, XY,
          Fields({"coefficient_scores", "rmse_by_threshold", "thresholds"},
                 {"ranking_indices", "selected_counts", "selected_indices",
                  "selected_masks"},
                 {"best_rmse", "best_threshold", "best_threshold_index"}))
generate_bve_selection ==
    Reads({"min_features", "n_components", "n_splits", "n_steps"}, XY,
          Fields({"candidate_rmse", "rmse_by_step"},
                 {"removed_indices", "retained_counts", "selected_indices"},
                 {"best_rmse", "best_step"}))
generate_t2_selection ==
    Reads({"alpha", "min_selected", "n_components", "n_splits"}, XY,
          Fields({"rmse_by_alpha", "t2_scores", "ucl_by_alpha"},
                 {"selected_counts", "selected_indices_best_error",
                  "selected_indices_min_set", "selected_mask"},
                 {"best_error_index", "best_rmse", "min_set_index",
                  "min_set_rmse"}))
generate_wvc_selection ==
    Reads({"n_components", "normalize", "top_k"}, XY,
          Fields({"final_scores", "loadings_P", "weights_W", "wvc_scores",
                  "y_loadings_Q"},
                 {"selected_indices"},
                 {}))
generate_wvc_threshold_selection ==
    Reads({"min_selected", "n_components", "normalize", "score_threshold",
           "threshold_factor"}, XY,
          Fields({"final_scores"},
                 {"ranked_indices", "selected_indices"},
                 {"effective_threshold", "mean_score"}))
generate_component_coefficients ==
    Reads({"n_components"}, XY,
          Floats({"coefficients_by_component"}))
generate_validation ==
    Reads({"holdout_count", "holdout_start", "kind", "n_samples", "n_splits"}, Floats({}),
          Fields({},
                 {"test_indices", "test_offsets", "train_indices",
                  "train_offsets"},
                 {}))
generate_advanced_validation ==
    Optional({"X", "Y", "fold_ids"},
    Reads({"kind", "n_repeats", "n_samples", "n_splits", "seed", "test_count",
           "train_count"}, Fields({"X", "Y"}, {"fold_ids"}, {}),
          Fields({},
                 {"test_indices", "test_offsets", "train_indices",
                  "train_offsets"},
                 {})))
generate_cross_validation ==
    Reads({"n_components", "n_splits"}, XY,
          Fields({"metrics", "predictions"},
                 {"test_indices", "test_offsets"},
                 {}))
generate_component_cv ==
    Reads({"n_components_max", "n_splits", "solver"}, XY,
          Fields({"metrics_by_component"}, {"best_n_components"}, {}))

(* main's chain of "elif args.family == ...", whose else branch is generate. *)
Dispatch ==
    "pipeline" :> generate_pipeline @@
    "aom-preprocessing" :> generate_aom_preprocessing @@
    "aom-selection" :> generate_aom_selection @@
    "aom-operators" :> generate_aom_operators @@
    "aom-pop-selection" :> generate_aom_pop_selection @@
    "metrics" :> generate_metrics @@
    "classification-metrics" :> generate_classification_metrics @@
    "classification-extensions" :> generate_classification_extensions @@
    "pls-lda" :> generate_pls_lda @@
    "pls-logistic" :> generate_pls_logistic @@
    "mb-pls" :> generate_mb_pls @@
    "lw-pls" :> generate_lw_pls @@
    "variable-importance" :> generate_variable_importance @@
    "variable-selection" :> generate_variable_selection @@
    "interval-selection" :> generate_interval_selection @@
    "bipls-selection" :> generate_bipls_selection @@
    "sipls-selection" :> generate_sipls_selection @@
    "stability-selection" :> generate_stability_selection @@
    "uve-selection" :> generate_uve_selection @@
    "emcuve-selection" :> generate_emcuve_selection @@
    "randomization-selection" :> generate_randomization_selection @@
    "spa-selection" :> generate_spa_selection @@
    "cars-selection" :> generate_cars_selection @@
    "random-frog-selection" :> generate_random_frog_selection @@
    "scars-selection" :> generate_scars_selection @@
    "ga-selection" :> generate_ga_selection @@
    "shaving-selection" :> generate_shaving_selection @@
    "rep-selection" :> generate_rep_selection @@
    "ipw-selection" :> generate_ipw_selection @@
    "st-selection" :> generate_st_selection @@
    "bve-selection" :> generate_bve_selection @@
    "t2-selection" :> generate_t2_selection @@
    "wvc-selection" :> generate_wvc_selection @@
    "wvc-threshold-selection" :> generate_wvc_threshold_selection @@
    "component-coefficients" :> generate_component_coefficients @@
    "validation" :> generate_validation @@
    "advanced-validation" :> generate_advanced_validation @@
    "cross-validation" :> generate_cross_validation @@
    "component-cv" :> generate_component_cv
Generator(family) ==
    IF family \in DOMAIN Dispatch THEN Dispatch[family] ELSE generate

HEADER_SPECS ==
    "simpls" :> {"synthetic_simpls_small_pls2_v1",
                     "synthetic_simpls_tiny_pls1_v1"} @@
    "svd" :> {"synthetic_svd_small_pls2_v1", "synthetic_svd_tiny_pls1_v1"} @@
    "pls-svd" :> {"synthetic_pls_svd_small_v1",
                      "synthetic_pls_svd_tiny_v1"} @@
    "pipeline" :> {"synthetic_pipeline_asls_v1",
                       "synthetic_pipeline_autoscale_v1",
                       "synthetic_pipeline_center_v1",
                       "synthetic_pipeline_detrend_poly_v1",
                       "synthetic_pipeline_emsc_v1",
                       "synthetic_pipeline_epo_v1",
                       "synthetic_pipeline_identity_v1",
                       "synthetic_pipeline_msc_v1",
                       "synthetic_pipeline_norris_williams_v1",
                       "synthetic_pipeline_osc_v1",
                       "synthetic_pipeline_pareto_v1",
                       "synthetic_pipeline_savgol_derivative_v1",
                       "synthetic_pipeline_savgol_smooth_v1",
                       "synthetic_pipeline_snv_v1",
                       "synthetic_pipeline_wavelet_haar_v1"} @@
    "aom-preprocessing" :> {"synthetic_aom_hard_preprocessing_v1",
                                "synthetic_aom_soft_preprocessing_v1"} @@
    "aom-selection" :> {"synthetic_aom_global_simpls_cv_v1",
                            "synthetic_aom_global_simpls_fck_whittaker_cv_v1",
                            "synthetic_aom_global_simpls_sg_cv_v1"} @@
    "aom-operators" :> {"synthetic_aom_extended_strict_operators_v1",
                            "synthetic_aom_strict_operators_v1"} @@
    "aom-pop-selection" :> {"synthetic_aom_pop_simpls_covariance_cv_v1"} @@
    "metrics" :> {"synthetic_metrics_regression_v1"} @@
    "classification-metrics" :> {"synthetic_classification_binary_metrics_v1"} @@
    "classification-extensions" :> {"synthetic_classification_calibration_curve_v1",
                                        "synthetic_classification_multiclass_metrics_v1"} @@
    "pls-lda" :> {"synthetic_pls_lda_multiclass_v1"} @@
    "pls-logistic" :> {"synthetic_pls_logistic_multiclass_v1"} @@
    "mb-pls" :> {"synthetic_mb_pls_block_weighted_v1"} @@
    "lw-pls" :> {"synthetic_lw_pls_local_window_v1"} @@
    "variable-importance" :> {"synthetic_variable_importance_pls2_v1"} @@
    "variable-selection" :> {"synthetic_variable_selection_rankers_v1"} @@
    "interval-selection" :> {"synthetic_interval_selection_moving_window_v1"} @@
    "bipls-selection" :> {"synthetic_bipls_backward_intervals_v1"} @@
    "sipls-selection" :> {"synthetic_sipls_interval_combinations_v1"} @@
    "stability-selection" :> {"synthetic_coefficient_stability_mcuve_v1"} @@
    "uve-selection" :> {"synthetic_uve_artificial_variables_v1"} @@
    "emcuve-selection" :> {"synthetic_emcuve_pls_ensemble_v1"} @@
    "randomization-selection" :> {"synthetic_randomization_pls_permutation_v1"} @@
    "spa-selection" :> {"synthetic_spa_pls_projection_v1"} @@
    "cars-selection" :> {"synthetic_cars_pls_competitive_v1"} @@
    "random-frog-selection" :> {"synthetic_random_frog_pls_v1"} @@
    "scars-selection" :> {"synthetic_scars_pls_stability_v1"} @@
    "ga-selection" :> {"synthetic_ga_pls_wrapper_v1"} @@
    "shaving-selection" :> {"synthetic_shaving_pls_recursive_v1"} @@
    "rep-selection" :> {"synthetic_rep_pls_recursive_v1"} @@
    "ipw-selection" :> {"synthetic_ipw_pls_reweighted_v1"} @@
    "st-selection" :> {"synthetic_st_pls_threshold_v1"} @@
    "bve-selection" :> {"synthetic_bve_pls_backward_v1"} @@
    "t2-selection" :> {"synthetic_t2_pls_hotelling_v1"} @@
    "wvc-selection" :> {"synthetic_wvc_pls_numeric_v1"} @@
    "wvc-threshold-selection" :> {"synthetic_wvc_threshold_factor_v1"} @@
    "component-coefficients" :> {"synthetic_component_coefficients_pls2_v1"} @@
    "validation" :> {"synthetic_validation_holdout_v1",
                         "synthetic_validation_kfold_balanced_v1",
                         "synthetic_validation_leave_one_out_v1"} @@
    "advanced-validation" :> {"synthetic_validation_external_folds_v1",
                                  "synthetic_validation_kennard_stone_v1",
                                  "synthetic_validation_monte_carlo_v1",
                                  "synthetic_validation_repeated_kfold_v1",
                                  "synthetic_validation_spxy_v1"} @@
    "cross-validation" :> {"synthetic_cv_kfold_nipals_pls1_v1",
                               "synthetic_cv_kfold_nipals_pls2_v1"} @@
    "component-cv" :> {"synthetic_component_cv_simpls_pls2_v1"} @@
    "power" :> {"synthetic_power_small_pls2_v1",
                    "synthetic_power_tiny_pls1_v1"} @@
    "randomized-svd" :> {"synthetic_randomized_svd_small_pls2_v1",
                             "synthetic_randomized_svd_tiny_pls1_v1"} @@
    "canonical" :> {"synthetic_canonical_small_pls2_v1",
                        "synthetic_canonical_tiny_pls1_v1"} @@
    "canonical-svd" :> {"synthetic_canonical_svd_small_pls2_v1",
                            "synthetic_canonical_svd_tiny_pls1_v1"} @@
    "pls-da" :> {"synthetic_pls_da_binary_v1",
                     "synthetic_pls_da_multiclass_v1"} @@
    "opls" :> {"synthetic_opls_small_pls1_v1",
                   "synthetic_opls_small_pls2_v1",
                   "synthetic_opls_tiny_pls1_v1"} @@
    "opls-da" :> {"synthetic_opls_da_binary_v1",
                      "synthetic_opls_da_multiclass_v1"} @@
    "pcr" :> {"synthetic_pcr_small_pls2_v1", "synthetic_pcr_tiny_pls1_v1"} @@
    "kernel" :> {"synthetic_kernel_tiny_pls1_v1",
                     "synthetic_kernel_wide_pls2_v1"} @@
    "wide-kernel" :> {"synthetic_wide_kernel_pls1_v1",
                          "synthetic_wide_kernel_pls2_v1"} @@
    "orthogonal-scores" :> {"synthetic_oscores_small_pls2_v1",
                                "synthetic_oscores_tiny_pls1_v1"}
==============================================================================
