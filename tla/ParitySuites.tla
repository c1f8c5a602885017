----------------------------- MODULE ParitySuites -----------------------------
EXTENDS ParityExpected

(***************************************************************************)
(* The fixtures of pls4all_parity.suites: which producer makes each, and   *)
(* the names a consumer finds in it. "bench" marks the fixtures whose      *)
(* numbers come from the AOM_v0 reference outside this repository: without *)
(* it the producer hands back the file that is already checked in.         *)
(***************************************************************************)
Fixture(params, data, expected) ==
    [params |-> params, data |-> data, expected |-> expected, bench |-> FALSE]
BenchOr(f) == [f EXCEPT !.bench = TRUE]

XY == Floats({"X", "Y"})
FitParams == {"n_components", "scale", "deflation_mode", "algorithm"}

fixture ==
    Fixture(FitParams \cup {"max_iter", "tol"}, XY, expected_from_pls)
simpls_fixture ==
    Fixture(FitParams \cup {"reference"}, XY, simpls_expected)
svd_fixture ==
    Fixture(FitParams \cup {"reference"}, XY, svd_pls_expected)
pls_svd_fixture ==
    Fixture(FitParams \cup {"reference"}, XY, pls_svd_expected)
pipeline_fixture ==
    Fixture({"operators", "reference"}, XY, pipeline_expected)
aom_preprocessing_fixture ==
    Fixture({"gating_mode", "operators", "reference"},
            Floats({"X"}), aom_preprocessing_expected)
aom_global_selection_fixture ==
    Fixture({"criterion", "cv", "engine", "max_components", "operator_names",
             "random_state", "reference", "selection"},
            XY, aom_bench_reference_expected)
aom_pop_selection_fixture ==
    Fixture({"criterion", "cv", "engine", "max_components", "operator_names",
             "orthogonalization", "random_state", "reference", "selection"},
            XY, aom_bench_pop_reference_expected)
aom_operator_fixture ==
    Fixture({"operator_names", "reference"},
            Floats({"X"}), aom_bench_operator_expected)
metrics_fixture ==
    Fixture({"reference"},
            Floats({"Y_pred", "Y_true"}), regression_metrics_expected)
classification_metrics_fixture ==
    Fixture({"reference", "threshold"},
            Fields({"scores"}, {"labels"}, {}), binary_classification_metrics_expected)
classification_extensions_fixture(kind) ==
    Fixture({"kind", "n_bins", "n_classes", "reference"}, Fields({"scores"}, {"labels"}, {}),
            IF kind = "multiclass" THEN multiclass_classification_metrics_expected
            ELSE binary_calibration_curve_expected)
pls_lda_fixture ==
    Fixture({"algorithm", "n_classes", "n_components", "reference", "solver"},
            Fields({"X"}, {"labels"}, {}), pls_lda_expected)
pls_logistic_fixture ==
    Fixture({"algorithm", "n_classes", "n_components", "reference", "ridge",
             "solver"},
            Fields({"X"}, {"labels"}, {}), pls_logistic_expected)
mb_pls_fixture ==
    Fixture({"algorithm", "block_sizes", "n_components", "reference",
             "solver"},
            XY, mb_pls_expected)
lw_pls_fixture ==
    Fixture({"algorithm", "n_components", "n_neighbors", "reference",
             "solver"},
            XY, lw_pls_expected)
variable_importance_fixture ==
    Fixture({"n_components", "reference"}, XY, variable_importance_expected)
variable_selection_fixture ==
    Fixture({"n_components", "reference", "top_k"},
            XY, variable_selection_expected)
interval_selection_fixture ==
    Fixture({"algorithm", "interval_width", "n_components", "n_splits",
             "reference", "solver", "step"},
            XY, interval_selection_expected)
bipls_selection_fixture ==
    Fixture({"algorithm", "interval_width", "min_intervals", "n_components",
             "n_splits", "reference", "solver"},
            XY, bipls_selection_expected)
sipls_selection_fixture ==
    Fixture({"algorithm", "combination_size", "interval_width",
             "n_components", "n_splits", "reference", "solver"},
            XY, sipls_selection_expected)
coefficient_stability_fixture ==
    Fixture({"algorithm", "n_components", "n_repeats", "reference", "seed",
             "solver", "test_count", "top_k"},
            XY, coefficient_stability_expected)
uve_fixture ==
    Fixture({"algorithm", "n_components", "n_repeats", "noise_features",
             "noise_seed", "reference", "solver", "test_count",
             "validation_seed"},
            XY, uve_expected)
emcuve_fixture ==
    Fixture({"algorithm", "n_components", "n_ensembles", "n_repeats",
             "noise_features", "noise_seed", "reference", "solver",
             "test_count", "validation_seed", "vote_threshold"},
            XY, emcuve_expected)
randomization_selection_fixture ==
    Fixture({"algorithm", "alpha", "n_components", "n_permutations",
             "randomization_seed", "reference", "solver"},
            XY, randomization_selection_expected)
spa_selection_fixture ==
    Fixture({"algorithm", "n_components", "reference", "solver", "top_k"},
            XY, spa_selection_expected)
cars_selection_fixture ==
    Fixture({"algorithm", "min_features", "n_components", "n_iterations",
             "n_splits", "reference", "solver"},
            XY, cars_selection_expected)
random_frog_selection_fixture ==
    Fixture({"algorithm", "initial_size", "max_size", "min_size",
             "n_components", "n_iterations", "n_splits", "reference", "seed",
             "solver", "top_k"},
            XY, random_frog_selection_expected)
scars_selection_fixture ==
    Fixture({"algorithm", "min_features", "n_components", "n_iterations",
             "n_splits", "reference", "sample_fraction", "seed", "solver"},
            XY, scars_selection_expected)
ga_selection_fixture ==
    Fixture({"algorithm", "max_features", "min_features", "mutation_rate",
             "n_components", "n_generations", "n_splits", "population_size",
             "reference", "seed", "solver"},
            XY, ga_population_expected)
shaving_selection_fixture ==
    Fixture({"algorithm", "min_features", "n_components", "n_splits",
             "n_steps", "reference", "shave_fraction", "solver"},
            XY, shaving_selection_expected)
rep_selection_fixture ==
    Fixture({"algorithm", "min_features", "n_components", "n_splits",
             "n_steps", "reference", "remove_count", "solver"},
            XY, rep_selection_expected)
ipw_selection_fixture ==
    Fixture({"algorithm", "damping", "n_components", "n_iterations",
             "n_splits", "reference", "solver", "top_k", "weight_floor"},
            XY, ipw_selection_expected)
st_selection_fixture ==
    Fixture({"algorithm", "min_selected", "n_components", "n_splits",
             "reference", "solver", "thresholds"},
            XY, st_selection_expected)
bve_selection_fixture ==
    Fixture({"algorithm", "min_features", "n_components", "n_splits",
             "n_steps", "reference", "solver"},
            XY, bve_selection_expected)
t2_selection_fixture ==
    Fixture({"algorithm", "alpha", "min_selected", "n_components", "n_splits",
             "reference", "solver"},
            XY, t2_selection_expected)
wvc_selection_fixture ==
    Fixture({"algorithm", "n_components", "normalize", "reference", "solver",
             "top_k"},
            XY, wvc_selection_expected)
wvc_threshold_selection_fixture ==
    Fixture({"algorithm", "min_selected", "n_components", "normalize",
             "reference", "score_threshold", "solver", "threshold_factor"},
            XY, wvc_threshold_selection_expected)
component_coefficients_fixture ==
    Fixture({"n_components", "reference"}, XY, component_coefficients_expected)
validation_fixture ==
    Fixture({"holdout_count", "holdout_start", "kind", "n_samples",
             "n_splits", "reference"},
            Fields({}, {"sample_indices"}, {}), validation_expected)
advanced_validation_fixture(given) ==
    Fixture({"kind", "n_repeats", "n_samples", "n_splits", "reference",
             "seed", "test_count", "train_count"},
            Fields(given \cap {"X", "Y"}, {"sample_indices"} \cup (given \cap {"fold_ids"}), {}),
            advanced_validation_expected)
cross_validation_fixture ==
    Fixture({"algorithm", "n_components", "n_splits", "reference", "solver"},
            XY, cross_validation_expected)
component_cv_fixture ==
    Fixture({"algorithm", "n_components_max", "n_splits", "reference",
             "solver"},
            XY, component_cv_expected)
power_fixture ==
    Fixture(FitParams \cup {"reference"}, XY, power_pls_expected)
randomized_svd_fixture ==
    Fixture(FitParams \cup {"random_seed", "reference"},
            XY, randomized_svd_pls_expected)
canonical_fixture ==
    Fixture(FitParams \cup {"reference"}, XY, canonical_pls_expected)
pls_da_fixture ==
    Fixture(FitParams \cup {"reference"}, XY, expected_from_pls_da)
kernel_fixture ==
    Fixture(FitParams \cup {"reference"}, XY, kernel_pls_expected)
wide_kernel_fixture ==
    Fixture(FitParams \cup {"reference"}, XY, kernel_pls_expected)
orthogonal_scores_fixture ==
    Fixture(FitParams \cup {"reference"}, XY, orthogonal_scores_expected)
opls_fixture ==
    Fixture(FitParams \cup {"reference"}, XY, opls_expected)
opls_da_fixture ==
    Fixture(FitParams \cup {"reference"}, XY, opls_expected)
pcr_fixture ==
    Fixture(FitParams \cup {"reference"}, XY, pcr_expected)

(* The datasets, one per file. *)
synthetic_small_pls1_v1 == fixture
synthetic_small_pls2_v1 == fixture
synthetic_tiny_centered_v1 == fixture
synthetic_simpls_tiny_pls1_v1 == simpls_fixture
synthetic_simpls_small_pls2_v1 == simpls_fixture
synthetic_svd_tiny_pls1_v1 == svd_fixture
synthetic_svd_small_pls2_v1 == svd_fixture
synthetic_pls_svd_tiny_v1 == pls_svd_fixture
synthetic_pls_svd_small_v1 == pls_svd_fixture
synthetic_pipeline_identity_v1 == pipeline_fixture
synthetic_pipeline_center_v1 == pipeline_fixture
synthetic_pipeline_autoscale_v1 == pipeline_fixture
synthetic_pipeline_pareto_v1 == pipeline_fixture
synthetic_pipeline_snv_v1 == pipeline_fixture
synthetic_aom_soft_preprocessing_v1 == aom_preprocessing_fixture
synthetic_aom_hard_preprocessing_v1 == aom_preprocessing_fixture
synthetic_aom_global_simpls_cv_v1 == BenchOr(aom_global_selection_fixture)
synthetic_aom_strict_operators_v1 == BenchOr(aom_operator_fixture)
synthetic_aom_global_simpls_sg_cv_v1 == BenchOr(aom_global_selection_fixture)
synthetic_aom_extended_strict_operators_v1 == BenchOr(aom_operator_fixture)
synthetic_aom_global_simpls_fck_whittaker_cv_v1 ==
    BenchOr(aom_global_selection_fixture)
synthetic_aom_pop_simpls_covariance_cv_v1 == BenchOr(aom_pop_selection_fixture)
synthetic_pipeline_msc_v1 == pipeline_fixture
synthetic_pipeline_emsc_v1 == pipeline_fixture
synthetic_pipeline_detrend_poly_v1 == pipeline_fixture
synthetic_pipeline_savgol_smooth_v1 == pipeline_fixture
synthetic_pipeline_savgol_derivative_v1 == pipeline_fixture
synthetic_pipeline_asls_v1 == pipeline_fixture
synthetic_pipeline_norris_williams_v1 == pipeline_fixture
synthetic_pipeline_wavelet_haar_v1 == pipeline_fixture
synthetic_pipeline_osc_v1 == pipeline_fixture
synthetic_pipeline_epo_v1 == pipeline_fixture
synthetic_metrics_regression_v1 == metrics_fixture
synthetic_classification_binary_metrics_v1 == classification_metrics_fixture
synthetic_classification_multiclass_metrics_v1 ==
    classification_extensions_fixture("multiclass")
synthetic_classification_calibration_curve_v1 ==
    classification_extensions_fixture("calibration")
synthetic_pls_lda_multiclass_v1 == pls_lda_fixture
synthetic_pls_logistic_multiclass_v1 == pls_logistic_fixture
synthetic_mb_pls_block_weighted_v1 == mb_pls_fixture
synthetic_lw_pls_local_window_v1 == lw_pls_fixture
synthetic_variable_importance_pls2_v1 == variable_importance_fixture
synthetic_variable_selection_rankers_v1 == variable_selection_fixture
synthetic_interval_selection_moving_window_v1 == interval_selection_fixture
synthetic_bipls_backward_intervals_v1 == bipls_selection_fixture
synthetic_sipls_interval_combinations_v1 == sipls_selection_fixture
synthetic_coefficient_stability_mcuve_v1 == coefficient_stability_fixture
synthetic_uve_artificial_variables_v1 == uve_fixture
synthetic_emcuve_pls_ensemble_v1 == emcuve_fixture
synthetic_randomization_pls_permutation_v1 == randomization_selection_fixture
synthetic_spa_pls_projection_v1 == spa_selection_fixture
synthetic_cars_pls_competitive_v1 == cars_selection_fixture
synthetic_random_frog_pls_v1 == random_frog_selection_fixture
synthetic_scars_pls_stability_v1 == scars_selection_fixture
synthetic_ga_pls_wrapper_v1 == ga_selection_fixture
synthetic_shaving_pls_recursive_v1 == shaving_selection_fixture
synthetic_rep_pls_recursive_v1 == rep_selection_fixture
synthetic_ipw_pls_reweighted_v1 == ipw_selection_fixture
synthetic_st_pls_threshold_v1 == st_selection_fixture
synthetic_bve_pls_backward_v1 == bve_selection_fixture
synthetic_t2_pls_hotelling_v1 == t2_selection_fixture
synthetic_wvc_pls_numeric_v1 == wvc_selection_fixture
synthetic_wvc_threshold_factor_v1 == wvc_threshold_selection_fixture
synthetic_component_coefficients_pls2_v1 == component_coefficients_fixture
synthetic_validation_kfold_balanced_v1 == validation_fixture
synthetic_validation_leave_one_out_v1 == validation_fixture
synthetic_validation_holdout_v1 == validation_fixture
synthetic_validation_external_folds_v1 ==
    advanced_validation_fixture({"fold_ids"})
synthetic_validation_repeated_kfold_v1 == advanced_validation_fixture({})
synthetic_validation_monte_carlo_v1 == advanced_validation_fixture({})
synthetic_validation_kennard_stone_v1 == advanced_validation_fixture({"X"})
synthetic_validation_spxy_v1 == advanced_validation_fixture({"X", "Y"})
synthetic_cv_kfold_nipals_pls1_v1 == cross_validation_fixture
synthetic_cv_kfold_nipals_pls2_v1 == cross_validation_fixture
synthetic_component_cv_simpls_pls2_v1 == component_cv_fixture
synthetic_power_tiny_pls1_v1 == power_fixture
synthetic_power_small_pls2_v1 == power_fixture
synthetic_randomized_svd_tiny_pls1_v1 == randomized_svd_fixture
synthetic_randomized_svd_small_pls2_v1 == randomized_svd_fixture
synthetic_canonical_tiny_pls1_v1 == canonical_fixture
synthetic_canonical_small_pls2_v1 == canonical_fixture
synthetic_canonical_svd_tiny_pls1_v1 == canonical_fixture
synthetic_canonical_svd_small_pls2_v1 == canonical_fixture
synthetic_pls_da_binary_v1 == pls_da_fixture
synthetic_pls_da_multiclass_v1 == pls_da_fixture
synthetic_opls_tiny_pls1_v1 == opls_fixture
synthetic_opls_small_pls1_v1 == opls_fixture
synthetic_opls_small_pls2_v1 == opls_fixture
synthetic_opls_da_binary_v1 == opls_da_fixture
synthetic_opls_da_multiclass_v1 == opls_da_fixture
synthetic_kernel_tiny_pls1_v1 == kernel_fixture
synthetic_kernel_wide_pls2_v1 == kernel_fixture
synthetic_wide_kernel_pls1_v1 == wide_kernel_fixture
synthetic_wide_kernel_pls2_v1 == wide_kernel_fixture
synthetic_oscores_tiny_pls1_v1 == orthogonal_scores_fixture
synthetic_oscores_small_pls2_v1 == orthogonal_scores_fixture
synthetic_pcr_tiny_pls1_v1 == pcr_fixture
synthetic_pcr_small_pls2_v1 == pcr_fixture

(* cli._generate_all *)
generate_all ==
    [synthetic_small_pls1_v1 |-> synthetic_small_pls1_v1,
     synthetic_small_pls2_v1 |-> synthetic_small_pls2_v1,
     synthetic_tiny_centered_v1 |-> synthetic_tiny_centered_v1,
     synthetic_simpls_tiny_pls1_v1 |-> synthetic_simpls_tiny_pls1_v1,
     synthetic_simpls_small_pls2_v1 |-> synthetic_simpls_small_pls2_v1,
     synthetic_svd_tiny_pls1_v1 |-> synthetic_svd_tiny_pls1_v1,
     synthetic_svd_small_pls2_v1 |-> synthetic_svd_small_pls2_v1,
     synthetic_pls_svd_tiny_v1 |-> synthetic_pls_svd_tiny_v1,
     synthetic_pls_svd_small_v1 |-> synthetic_pls_svd_small_v1,
     synthetic_pipeline_identity_v1 |-> synthetic_pipeline_identity_v1,
     synthetic_pipeline_center_v1 |-> synthetic_pipeline_center_v1,
     synthetic_pipeline_autoscale_v1 |-> synthetic_pipeline_autoscale_v1,
     synthetic_pipeline_pareto_v1 |-> synthetic_pipeline_pareto_v1,
     synthetic_pipeline_snv_v1 |-> synthetic_pipeline_snv_v1,
     synthetic_pipeline_msc_v1 |-> synthetic_pipeline_msc_v1,
     synthetic_pipeline_emsc_v1 |-> synthetic_pipeline_emsc_v1,
     synthetic_pipeline_detrend_poly_v1 |-> synthetic_pipeline_detrend_poly_v1,
     synthetic_pipeline_savgol_smooth_v1 |-> synthetic_pipeline_savgol_smooth_v1,
     synthetic_pipeline_savgol_derivative_v1 |-> synthetic_pipeline_savgol_derivative_v1,
     synthetic_aom_soft_preprocessing_v1 |-> synthetic_aom_soft_preprocessing_v1,
     synthetic_aom_hard_preprocessing_v1 |-> synthetic_aom_hard_preprocessing_v1,
     synthetic_aom_strict_operators_v1 |-> synthetic_aom_strict_operators_v1,
     synthetic_aom_extended_strict_operators_v1 |-> synthetic_aom_extended_strict_operators_v1,
     synthetic_aom_global_simpls_cv_v1 |-> synthetic_aom_global_simpls_cv_v1,
     synthetic_aom_global_simpls_sg_cv_v1 |-> synthetic_aom_global_simpls_sg_cv_v1,
     synthetic_aom_global_simpls_fck_whittaker_cv_v1 |-> synthetic_aom_global_simpls_fck_whittaker_cv_v1,
     synthetic_aom_pop_simpls_covariance_cv_v1 |-> synthetic_aom_pop_simpls_covariance_cv_v1,
     synthetic_pipeline_asls_v1 |-> synthetic_pipeline_asls_v1,
     synthetic_pipeline_norris_williams_v1 |-> synthetic_pipeline_norris_williams_v1,
     synthetic_pipeline_wavelet_haar_v1 |-> synthetic_pipeline_wavelet_haar_v1,
     synthetic_pipeline_osc_v1 |-> synthetic_pipeline_osc_v1,
     synthetic_pipeline_epo_v1 |-> synthetic_pipeline_epo_v1,
     synthetic_metrics_regression_v1 |-> synthetic_metrics_regression_v1,
     synthetic_classification_binary_metrics_v1 |-> synthetic_classification_binary_metrics_v1,
     synthetic_classification_multiclass_metrics_v1 |-> synthetic_classification_multiclass_metrics_v1,
     synthetic_classification_calibration_curve_v1 |-> synthetic_classification_calibration_curve_v1,
     synthetic_pls_lda_multiclass_v1 |-> synthetic_pls_lda_multiclass_v1,
     synthetic_pls_logistic_multiclass_v1 |-> synthetic_pls_logistic_multiclass_v1,
     synthetic_mb_pls_block_weighted_v1 |-> synthetic_mb_pls_block_weighted_v1,
     synthetic_lw_pls_local_window_v1 |-> synthetic_lw_pls_local_window_v1,
     synthetic_variable_importance_pls2_v1 |-> synthetic_variable_importance_pls2_v1,
     synthetic_variable_selection_rankers_v1 |-> synthetic_variable_selection_rankers_v1,
     synthetic_interval_selection_moving_window_v1 |-> synthetic_interval_selection_moving_window_v1,
     synthetic_bipls_backward_intervals_v1 |-> synthetic_bipls_backward_intervals_v1,
     synthetic_sipls_interval_combinations_v1 |-> synthetic_sipls_interval_combinations_v1,
     synthetic_coefficient_stability_mcuve_v1 |-> synthetic_coefficient_stability_mcuve_v1,
     synthetic_uve_artificial_variables_v1 |-> synthetic_uve_artificial_variables_v1,
     synthetic_emcuve_pls_ensemble_v1 |-> synthetic_emcuve_pls_ensemble_v1,
     synthetic_randomization_pls_permutation_v1 |-> synthetic_randomization_pls_permutation_v1,
     synthetic_spa_pls_projection_v1 |-> synthetic_spa_pls_projection_v1,
     synthetic_cars_pls_competitive_v1 |-> synthetic_cars_pls_competitive_v1,
     synthetic_random_frog_pls_v1 |-> synthetic_random_frog_pls_v1,
     synthetic_scars_pls_stability_v1 |-> synthetic_scars_pls_stability_v1,
     synthetic_ga_pls_wrapper_v1 |-> synthetic_ga_pls_wrapper_v1,
     synthetic_shaving_pls_recursive_v1 |-> synthetic_shaving_pls_recursive_v1,
     synthetic_rep_pls_recursive_v1 |-> synthetic_rep_pls_recursive_v1,
     synthetic_ipw_pls_reweighted_v1 |-> synthetic_ipw_pls_reweighted_v1,
     synthetic_st_pls_threshold_v1 |-> synthetic_st_pls_threshold_v1,
     synthetic_bve_pls_backward_v1 |-> synthetic_bve_pls_backward_v1,
     synthetic_t2_pls_hotelling_v1 |-> synthetic_t2_pls_hotelling_v1,
     synthetic_wvc_pls_numeric_v1 |-> synthetic_wvc_pls_numeric_v1,
     synthetic_wvc_threshold_factor_v1 |-> synthetic_wvc_threshold_factor_v1,
     synthetic_component_coefficients_pls2_v1 |-> synthetic_component_coefficients_pls2_v1,
     synthetic_validation_kfold_balanced_v1 |-> synthetic_validation_kfold_balanced_v1,
     synthetic_validation_leave_one_out_v1 |-> synthetic_validation_leave_one_out_v1,
     synthetic_validation_holdout_v1 |-> synthetic_validation_holdout_v1,
     synthetic_validation_external_folds_v1 |-> synthetic_validation_external_folds_v1,
     synthetic_validation_repeated_kfold_v1 |-> synthetic_validation_repeated_kfold_v1,
     synthetic_validation_monte_carlo_v1 |-> synthetic_validation_monte_carlo_v1,
     synthetic_validation_kennard_stone_v1 |-> synthetic_validation_kennard_stone_v1,
     synthetic_validation_spxy_v1 |-> synthetic_validation_spxy_v1,
     synthetic_cv_kfold_nipals_pls1_v1 |-> synthetic_cv_kfold_nipals_pls1_v1,
     synthetic_cv_kfold_nipals_pls2_v1 |-> synthetic_cv_kfold_nipals_pls2_v1,
     synthetic_component_cv_simpls_pls2_v1 |-> synthetic_component_cv_simpls_pls2_v1,
     synthetic_power_tiny_pls1_v1 |-> synthetic_power_tiny_pls1_v1,
     synthetic_power_small_pls2_v1 |-> synthetic_power_small_pls2_v1,
     synthetic_randomized_svd_tiny_pls1_v1 |-> synthetic_randomized_svd_tiny_pls1_v1,
     synthetic_randomized_svd_small_pls2_v1 |-> synthetic_randomized_svd_small_pls2_v1,
     synthetic_canonical_tiny_pls1_v1 |-> synthetic_canonical_tiny_pls1_v1,
     synthetic_canonical_small_pls2_v1 |-> synthetic_canonical_small_pls2_v1,
     synthetic_canonical_svd_tiny_pls1_v1 |-> synthetic_canonical_svd_tiny_pls1_v1,
     synthetic_canonical_svd_small_pls2_v1 |-> synthetic_canonical_svd_small_pls2_v1,
     synthetic_pls_da_binary_v1 |-> synthetic_pls_da_binary_v1,
     synthetic_pls_da_multiclass_v1 |-> synthetic_pls_da_multiclass_v1,
     synthetic_opls_tiny_pls1_v1 |-> synthetic_opls_tiny_pls1_v1,
     synthetic_opls_small_pls1_v1 |-> synthetic_opls_small_pls1_v1,
     synthetic_opls_small_pls2_v1 |-> synthetic_opls_small_pls2_v1,
     synthetic_opls_da_binary_v1 |-> synthetic_opls_da_binary_v1,
     synthetic_opls_da_multiclass_v1 |-> synthetic_opls_da_multiclass_v1,
     synthetic_kernel_tiny_pls1_v1 |-> synthetic_kernel_tiny_pls1_v1,
     synthetic_kernel_wide_pls2_v1 |-> synthetic_kernel_wide_pls2_v1,
     synthetic_wide_kernel_pls1_v1 |-> synthetic_wide_kernel_pls1_v1,
     synthetic_wide_kernel_pls2_v1 |-> synthetic_wide_kernel_pls2_v1,
     synthetic_oscores_tiny_pls1_v1 |-> synthetic_oscores_tiny_pls1_v1,
     synthetic_oscores_small_pls2_v1 |-> synthetic_oscores_small_pls2_v1,
     synthetic_pcr_tiny_pls1_v1 |-> synthetic_pcr_tiny_pls1_v1,
     synthetic_pcr_small_pls2_v1 |-> synthetic_pcr_small_pls2_v1]
==============================================================================
