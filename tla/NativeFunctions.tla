---------------------------- MODULE NativeFunctions ----------------------------
(***************************************************************************)
(* n4m/python.py: the one-shot functions.  Each creates the handle of a C   *)
(* family, fits it when that family needs a fit, applies it and destroys    *)
(* it; nothing is kept.  A function is what it passes to create, in the     *)
(* order of the call, and what it fits on.                                  *)
(***************************************************************************)
EXTENDS NativeClasses

Applies(prefix, passes) == [prefix |-> prefix, passes |-> passes, needs |-> {}, axis |-> "none"]
FitsApplies(prefix, needs, passes) == [Applies(prefix, passes) EXCEPT !.needs = needs]
Augments(prefix, axis, passes) == [Applies(prefix, passes) EXCEPT !.axis = axis]

(* Some pass literal numbers, those the class has as defaults.              *)
Defaults == <<"defaults">>

snv == Applies("n4m_pp_snv", <<"with_mean", "with_std", "ddof">>)
lsnv == Applies("n4m_pp_lsnv", <<"window", "pad_mode", "constant_value">>)
rnv == Applies("n4m_pp_rnv", <<"with_center", "with_scale", "k">>)
area_norm == Applies("n4m_pp_area", <<"method">>)
normalize == Applies("n4m_pp_normalize", <<"feature_min", "feature_max">>)
simple_scale == Applies("n4m_pp_simple_scale", <<>>)
log_transform ==
    FitsApplies("n4m_pp_log", {"X"}, <<"base", "offset", "auto_offset", "min_value">>)
msc == FitsApplies("n4m_pp_msc", {"X"}, <<>>)
emsc == FitsApplies("n4m_pp_emsc", {"X"}, <<"degree">>)
baseline_center == FitsApplies("n4m_pp_baseline", {"X"}, <<>>)
derivate == FitsApplies("n4m_pp_derivate", {"X"}, <<"order", "delta">>)
savitzky_golay ==
    Applies("n4m_pp_savgol",
        <<"window_length", "polyorder", "deriv", "delta", "mode", "cval">>)
first_derivative == Applies("n4m_pp_first_derivative", <<"delta", "edge_order">>)
second_derivative == Applies("n4m_pp_second_derivative", <<"delta", "edge_order">>)
norris_williams ==
    Applies("n4m_pp_norris_williams", <<"segment", "gap", "derivative_order", "delta">>)
gaussian == Applies("n4m_pp_gaussian", <<"sigma", "order", "mode", "cval", "truncate">>)
to_absorbance ==
    Applies("n4m_pp_to_absorbance", <<"is_percent", "epsilon", "clip_negative">>)
from_absorbance == Applies("n4m_pp_from_absorbance", <<"is_percent">>)
pct_to_frac == Applies("n4m_pp_pct_to_frac", <<>>)
frac_to_pct == Applies("n4m_pp_frac_to_pct", <<>>)
kubelka_munk == Applies("n4m_pp_kubelka_munk", <<"is_percent", "epsilon">>)
detrend == Applies("n4m_pp_detrend", <<"polyorder">>)
asls == Applies("n4m_pp_asls", <<"lam", "p", "max_iter", "tol">>)
airpls == Applies("n4m_pp_airpls", <<"lam", "max_iter", "tol">>)
arpls == Applies("n4m_pp_arpls", <<"lam", "max_iter", "tol">>)
modpoly == Applies("n4m_pp_modpoly", <<"polyorder", "max_iter", "tol">>)
imodpoly == Applies("n4m_pp_imodpoly", <<"polyorder", "max_iter", "tol">>)
snip == Applies("n4m_pp_snip", <<"max_half_window">>)
rolling_ball == Applies("n4m_pp_rolling_ball", <<"half_window", "smooth_half_window">>)
iasls_swapped ==    \* mutant: the first two in the other order
    Applies("n4m_pp_iasls",
        <<"p", "lam", "lam_1", "polyorder", "diff_order", "max_iter", "tol">>)
iasls ==
    Applies("n4m_pp_iasls",
        <<"lam", "p", "lam_1", "polyorder", "diff_order", "max_iter", "tol">>)
beads == Applies("n4m_pp_beads", <<"lam_0", "lam_1", "lam_2", "max_iter", "tol">>)
wavelet == Applies("n4m_pp_wavelet", <<"family", "mode">>)
haar == Applies("n4m_pp_haar", <<>>)
wavelet_denoise ==
    Applies("n4m_pp_wavelet_denoise",
        <<"family", "mode", "level", "threshold_mode", "noise_estimator">>)
wavelet_features ==
    Applies("n4m_pp_wavelet_features", <<"family", "mode", "max_level", "entropy">>)
wavelet_pca ==
    FitsApplies("n4m_pp_wavelet_pca", {"X"},
        <<"family", "mode", "max_level", "n_components">>)
wavelet_svd ==
    FitsApplies("n4m_pp_wavelet_svd", {"X"},
        <<"family", "mode", "max_level", "n_components">>)
osc == FitsApplies("n4m_pp_osc", {"X", "y"}, <<"n_components", "scale">>)
epo == FitsApplies("n4m_pp_epo", {"X", "d"}, <<"scale">>)
flexible_pca == FitsApplies("n4m_pp_flex_pca", {"X"}, <<"n_components">>)
flexible_svd == FitsApplies("n4m_pp_flex_svd", {"X"}, <<"n_components">>)
fck_static == Applies("n4m_pp_fck_static", <<"kernel_size", "alphas", "sigmas">>)
direct_standardization ==
    FitsApplies("n4m_pp_direct_standardization", {"source", "target"},
        <<"fit_intercept", "ridge">>)
robust_direct_standardization ==
    FitsApplies("n4m_pp_robust_direct_standardization", {"source", "target"},
        <<"fit_intercept", "ridge", "trim_quantile", "max_iter">>)
piecewise_direct_standardization ==
    FitsApplies("n4m_pp_piecewise_direct_standardization", {"source", "target"},
        <<"window_size", "fit_intercept", "ridge">>)
score_augmented_projection_standardization ==
    FitsApplies("n4m_pp_saps", {"source", "target"},
        <<"n_components", "score_weight", "fit_intercept", "ridge">>)
slope_bias_correction == FitsApplies("n4m_pp_slope_bias", {"y_source", "y_target"}, <<>>)
local_centering == FitsApplies("n4m_pp_local_centering", {"source", "target"}, <<>>)
weighted_snv == FitsApplies("n4m_pp_weighted_snv", {"X"}, <<"weights", "ddof", "eps">>)
variable_sorting_normalization == FitsApplies("n4m_pp_vsn", {"X"}, <<"eps">>)
piecewise_snv ==
    FitsApplies("n4m_pp_piecewise_snv", {"X"}, <<"window_size", "ddof", "eps">>)
piecewise_msc ==
    FitsApplies("n4m_pp_piecewise_msc", {"X"}, <<"reference", "window_size", "eps">>)
localized_msc ==
    FitsApplies("n4m_pp_localized_msc", {"X"}, <<"reference", "window_size", "eps">>)
cross_correlation_alignment ==
    FitsApplies("n4m_pp_xcorr_align", {"X"}, <<"reference", "0", "max_shift">>)
icoshift_alignment ==
    FitsApplies("n4m_pp_icoshift_align", {"X"},
        <<"reference", "interval_size", "max_shift">>)
dynamic_time_warping_alignment ==
    FitsApplies("n4m_pp_dtw_align", {"X"}, <<"reference", "0", "0">>)
correlation_optimized_warping ==
    FitsApplies("n4m_pp_cow_align", {"X"}, <<"reference", "interval_size", "max_shift">>)
variance_filter == FitsApplies("n4m_filter_variance", {"X"}, <<"threshold", "top_k">>)
correlation_filter ==
    FitsApplies("n4m_filter_correlation", {"X", "y"}, <<"threshold", "top_k">>)
interval_generator ==
    FitsApplies("n4m_interval_generator", {"X"}, <<"interval_size", "step">>)
crop == Applies("n4m_pp_crop", <<"start", "end">>)
resample == Applies("n4m_pp_resample", <<"num_samples">>)
resampler ==
    FitsApplies("n4m_pp_resampler", {"wavelengths"},
        <<"target_wavelengths", "method", "crop_min", "crop_max", "use_crop", "fill_value",
          "bounds_error", "extrapolate">>)
range_discretizer == Applies("n4m_pp_range_disc", <<"edges">>)
kbins_discretizer == FitsApplies("n4m_pp_kbins_disc", {"X"}, <<"n_bins", "strategy">>)
kennard_stone == Applies("n4m_split_kennard_stone", <<"test_size">>)
spxy == Applies("n4m_split_spxy", <<"test_size">>)
kbins_stratified ==
    Applies("n4m_split_kbins_stratified", <<"test_size", "seed", "n_bins", "strategy">>)
y_outlier_filter ==
    FitsApplies("n4m_filter_y_outlier", {"y"},
        <<"method", "threshold", "lower_percentile", "upper_percentile">>)
x_outlier_filter ==
    FitsApplies("n4m_filter_x_outlier", {"X"},
        <<"method", "use_threshold", "threshold", "n_components", "contamination", "seed",
          "n_estimators", "max_samples">>)
high_leverage_filter ==
    FitsApplies("n4m_filter_leverage", {"X"},
        <<"method", "threshold_multiplier", "absolute_threshold", "n_components",
          "center">>)
spectral_quality_filter ==
    Applies("n4m_filter_quality",
        <<"max_nan_ratio", "max_zero_ratio", "min_variance", "max_value", "min_value",
          "check_inf">>)
aug_gaussian_noise == Augments("n4m_aug_gaussian_noise", "none", <<"sigma">>)
aug_multiplicative_noise ==
    Augments("n4m_aug_multiplicative_noise", "none", <<"sigma_gain">>)
aug_spike_noise ==
    Augments("n4m_aug_spike_noise", "none",
        <<"n_spikes_min", "n_spikes_max", "amplitude_min", "amplitude_max">>)
aug_hetero_noise ==
    Augments("n4m_aug_hetero_noise", "none", <<"noise_base", "noise_signal_dep">>)
aug_linear_drift ==
    Augments("n4m_aug_linear_drift", "none",
        <<"offset_min", "offset_max", "slope_min", "slope_max">>)
aug_poly_drift ==
    Augments("n4m_aug_poly_drift", "none", <<"degree", "coeff_min", "coeff_max">>)
aug_path_length ==
    Augments("n4m_aug_path_length", "none", <<"path_length_std", "min_path_length">>)
aug_wavelength_shift ==
    Augments("n4m_aug_wavelength_shift", "optional",
        <<"shift_lo", "shift_hi", "wavelengths">>)
aug_wavelength_stretch ==
    Augments("n4m_aug_wavelength_stretch", "optional",
        <<"stretch_lo", "stretch_hi", "wavelengths">>)
aug_local_warp ==
    Augments("n4m_aug_local_warp", "optional",
        <<"n_control_points", "max_shift", "wavelengths">>)
aug_band_perturb ==
    Augments("n4m_aug_band_perturb", "none",
        <<"n_bands", "bw_lo", "bw_hi", "gain_lo", "gain_hi", "offset_lo", "offset_hi">>)
aug_band_mask ==
    Augments("n4m_aug_band_mask", "none",
        <<"n_bands_lo", "n_bands_hi", "bw_lo", "bw_hi", "mode">>)
aug_channel_dropout ==
    Augments("n4m_aug_channel_dropout", "none", <<"dropout_prob", "mode">>)
aug_gauss_jitter ==
    Augments("n4m_aug_gauss_jitter", "none", <<"sigma_lo", "sigma_hi", "kernel_width">>)
aug_unsharp_mask ==
    Augments("n4m_aug_unsharp_mask", "none",
        <<"amount_lo", "amount_hi", "sigma", "kernel_width">>)
aug_magnitude_warp ==
    Augments("n4m_aug_magnitude_warp", "optional",
        <<"n_control_points", "gain_lo", "gain_hi", "wavelengths">>)
aug_local_clip ==
    Augments("n4m_aug_local_clip", "none", <<"n_regions", "width_lo", "width_hi">>)
aug_mixup == Augments("n4m_aug_mixup", "none", <<"alpha">>)
aug_local_mixup == Augments("n4m_aug_local_mixup", "none", <<"alpha", "k_neighbors">>)
aug_scatter_sim ==
    Augments("n4m_aug_scatter_sim", "none", <<"a_low", "a_high", "b_low", "b_high">>)
aug_particle_size == Augments("n4m_aug_particle_size", "create", Defaults)
aug_emsc_distort == Augments("n4m_aug_emsc_distort", "create", Defaults)
aug_batch_effect == Augments("n4m_aug_batch_effect", "optional", Defaults)
aug_instrument_broaden == Augments("n4m_aug_instrument_broaden", "optional", Defaults)
aug_dead_band == Augments("n4m_aug_dead_band", "none", Defaults)
aug_temperature == Augments("n4m_aug_temperature", "create", Defaults)
aug_moisture == Augments("n4m_aug_moisture", "create", Defaults)
aug_detector_rolloff == Augments("n4m_aug_detector_rolloff", "apply", Defaults)
aug_stray_light == Augments("n4m_aug_stray_light", "apply", Defaults)
aug_edge_curve == Augments("n4m_aug_edge_curve", "apply", Defaults)
aug_truncated_peak == Augments("n4m_aug_truncated_peak", "apply", Defaults)
aug_edge_artifacts == Augments("n4m_aug_edge_artifacts", "apply", Defaults)
aug_spline_smooth == Augments("n4m_aug_spline_smooth", "none", <<>>)
aug_spline_x_perturb == Augments("n4m_aug_spline_x_perturb", "none", Defaults)
aug_spline_y_perturb == Augments("n4m_aug_spline_y_perturb", "none", Defaults)
aug_rotate_translate == Augments("n4m_aug_rotate_translate", "none", Defaults)
aug_random_x_op == Augments("n4m_aug_random_x_op", "none", Defaults)

OneShots == {snv, lsnv, rnv, area_norm, normalize, simple_scale, log_transform, msc,
    emsc, baseline_center, derivate, savitzky_golay, first_derivative,
    second_derivative, norris_williams, gaussian, to_absorbance, from_absorbance,
    pct_to_frac, frac_to_pct, kubelka_munk, detrend, asls, airpls, arpls, modpoly,
    imodpoly, snip, rolling_ball, iasls, beads, wavelet, haar, wavelet_denoise,
    wavelet_features, wavelet_pca, wavelet_svd, osc, epo, flexible_pca, flexible_svd,
    fck_static, direct_standardization, robust_direct_standardization,
    piecewise_direct_standardization, score_augmented_projection_standardization,
    slope_bias_correction, local_centering, weighted_snv,
    variable_sorting_normalization, piecewise_snv, piecewise_msc, localized_msc,
    cross_correlation_alignment, icoshift_alignment, dynamic_time_warping_alignment,
    correlation_optimized_warping, variance_filter, correlation_filter,
    interval_generator, crop, resample, resampler, range_discretizer, kbins_discretizer,
    kennard_stone, spxy, kbins_stratified, y_outlier_filter, x_outlier_filter,
    high_leverage_filter, spectral_quality_filter, aug_gaussian_noise,
    aug_multiplicative_noise, aug_spike_noise, aug_hetero_noise, aug_linear_drift,
    aug_poly_drift, aug_path_length, aug_wavelength_shift, aug_wavelength_stretch,
    aug_local_warp, aug_band_perturb, aug_band_mask, aug_channel_dropout,
    aug_gauss_jitter, aug_unsharp_mask, aug_magnitude_warp, aug_local_clip, aug_mixup,
    aug_local_mixup, aug_scatter_sim, aug_particle_size, aug_emsc_distort,
    aug_batch_effect, aug_instrument_broaden, aug_dead_band, aug_temperature,
    aug_moisture, aug_detector_rolloff, aug_stray_light, aug_edge_curve,
    aug_truncated_peak, aug_edge_artifacts, aug_spline_smooth, aug_spline_x_perturb,
    aug_spline_y_perturb, aug_rotate_translate, aug_random_x_op}

(* A function does what an object of the class of its family does.          *)
SameAs(f, c) == /\ f.prefix = c.prefix /\ f.needs = c.needs /\ f.axis = c.axis
                /\ f.passes \in {c.passes, Defaults}
================================================================================
