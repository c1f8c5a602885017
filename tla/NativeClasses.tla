----------------------------- MODULE NativeClasses -----------------------------
(***************************************************************************)
(* The operator classes of n4m.sklearn: Python objects around one C handle. *)
(* A class is the C family it calls and what the objects' behaviour depends *)
(* on: the parameters it creates the handle with, in the order of the call, *)
(* what a fit needs, and how the C side and the Python side keep a fit.     *)
(***************************************************************************)

(* StatelessOperator: only creation reads parameters, fit opens the handle. *)
Stateless(prefix, passes) ==
    [prefix |-> prefix, passes |-> passes,
     needs |-> {},           \* the inputs of fit
     shape |-> "input",      \* what the width of the result comes from
     loses |-> "nothing",    \* what a refit that fails in C has overwritten
     width |-> FALSE,        \* fit records n_features_in_
     ready |-> FALSE,        \* it says it is fitted from the start
     resolves |-> FALSE,     \* the constructor already resolves "method"
     settable |-> TRUE,      \* it has get_params and set_params
     axis |-> "none"]        \* augmenters: when the wavelengths are used

(* StatefulOperator, and the classes whose fit also records the width.      *)
Fitted(prefix, needs, passes) == [Stateless(prefix, passes) EXCEPT !.needs = needs]
Recording(prefix, needs, passes) == [Fitted(prefix, needs, passes) EXCEPT !.width = TRUE]

(* _AugmenterBase is no BaseEstimator; _SplitHandle splits without a fit.   *)
Augmenter(prefix, axis, passes) ==
    [Stateless(prefix, passes) EXCEPT !.settable = FALSE, !.axis = axis]
Splitter(prefix, passes) == [Stateless(prefix, passes) EXCEPT !.shape = "split"]

Sized(shape, c) == [c EXCEPT !.shape = shape]
Loses(how, c) == [c EXCEPT !.loses = how]
Ready(c) == [c EXCEPT !.ready = TRUE]
Resolving(c) == [c EXCEPT !.resolves = TRUE]
(* n_splits is kept as n_splits_value: sklearn's get_params does not find it. *)
Frozen(c) == [c EXCEPT !.settable = FALSE]

(* preprocessing.py *)
SNV == Stateless("n4m_pp_snv", <<"with_mean", "with_std", "ddof">>)
LSNV == Stateless("n4m_pp_lsnv", <<"window", "pad_mode", "constant_value">>)
RNV == Stateless("n4m_pp_rnv", <<"with_center", "with_scale", "k">>)
AreaNormalization == Stateless("n4m_pp_area", <<"method">>)
Normalize == Stateless("n4m_pp_normalize", <<"feature_min", "feature_max">>)
SimpleScale == Stateless("n4m_pp_simple_scale", <<>>)
LogTransform ==
    Sized("any", Fitted("n4m_pp_log", {"X"},
        <<"base", "offset", "auto_offset", "min_value">>))
MSC == Fitted("n4m_pp_msc", {"X"}, <<>>)
EMSC == Fitted("n4m_pp_emsc", {"X"}, <<"degree">>)
BaselineCenter == Fitted("n4m_pp_baseline", {"X"}, <<>>)
Derivate == Sized("params", Fitted("n4m_pp_derivate", {"X"}, <<"order", "delta">>))
SavitzkyGolay ==
    Stateless("n4m_pp_savgol",
        <<"window_length", "polyorder", "deriv", "delta", "mode", "cval">>)
NorrisWilliams ==
    Stateless("n4m_pp_norris_williams", <<"segment", "gap", "derivative_order", "delta">>)
Gaussian == Stateless("n4m_pp_gaussian", <<"sigma", "order", "mode", "cval", "truncate">>)
FirstDerivative == Stateless("n4m_pp_first_derivative", <<"delta", "edge_order">>)
SecondDerivative == Stateless("n4m_pp_second_derivative", <<"delta", "edge_order">>)
ToAbsorbance ==
    Stateless("n4m_pp_to_absorbance", <<"is_percent", "epsilon", "clip_negative">>)
FromAbsorbance == Stateless("n4m_pp_from_absorbance", <<"is_percent">>)
PercentToFraction == Stateless("n4m_pp_pct_to_frac", <<>>)
FractionToPercent == Stateless("n4m_pp_frac_to_pct", <<>>)
KubelkaMunk == Stateless("n4m_pp_kubelka_munk", <<"is_percent", "epsilon">>)
Preprocessing == {SNV, LSNV, RNV, AreaNormalization, Normalize, SimpleScale,
    LogTransform, MSC, EMSC, BaselineCenter, Derivate, SavitzkyGolay, NorrisWilliams,
    Gaussian, FirstDerivative, SecondDerivative, ToAbsorbance, FromAbsorbance,
    PercentToFraction, FractionToPercent, KubelkaMunk}

(* baseline.py *)
Detrend == Stateless("n4m_pp_detrend", <<"polyorder">>)
AsLS == Stateless("n4m_pp_asls", <<"lam", "p", "max_iter", "tol">>)
AirPLS == Stateless("n4m_pp_airpls", <<"lam", "max_iter", "tol">>)
ArPLS == Stateless("n4m_pp_arpls", <<"lam", "max_iter", "tol">>)
ModPoly == Stateless("n4m_pp_modpoly", <<"polyorder", "max_iter", "tol">>)
IModPoly == Stateless("n4m_pp_imodpoly", <<"polyorder", "max_iter", "tol">>)
SNIP == Stateless("n4m_pp_snip", <<"max_half_window">>)
RollingBall == Stateless("n4m_pp_rolling_ball", <<"half_window", "smooth_half_window">>)
IAsLS ==
    Stateless("n4m_pp_iasls",
        <<"lam", "p", "lam_1", "polyorder", "diff_order", "max_iter", "tol">>)
BEADS == Stateless("n4m_pp_beads", <<"lam_0", "lam_1", "lam_2", "max_iter", "tol">>)
Baselines == {Detrend, AsLS, AirPLS, ArPLS, ModPoly, IModPoly, SNIP, RollingBall, IAsLS,
    BEADS}

(* feature_extraction.py *)
OSC == Fitted("n4m_pp_osc", {"X", "y"}, <<"n_components", "scale">>)
EPO == Fitted("n4m_pp_epo", {"X", "d"}, <<"scale">>)
FlexiblePCA == Fitted("n4m_pp_flex_pca", {"X"}, <<"n_components">>)
FlexibleSVD == Fitted("n4m_pp_flex_svd", {"X"}, <<"n_components">>)
FCKStaticTransformer ==
    Sized("params", Stateless("n4m_pp_fck_static", <<"kernel_size", "alphas", "sigmas">>))
Extraction == {OSC, EPO, FlexiblePCA, FlexibleSVD, FCKStaticTransformer}

(* resampling.py *)
CropTransformer == Stateless("n4m_pp_crop", <<"start", "end">>)
ResampleTransformer == Stateless("n4m_pp_resample", <<"num_samples">>)
Resampler ==
    Loses("fit", Fitted("n4m_pp_resampler", {"wavelengths"},
        <<"target_wavelengths", "method", "crop_min", "crop_max", "use_crop", "fill_value",
          "bounds_error", "extrapolate">>))
IntegerKBinsDiscretizer ==
    Loses("parts", Fitted("n4m_pp_kbins_disc", {"X"}, <<"n_bins", "strategy">>))
RangeDiscretizer == Stateless("n4m_pp_range_disc", <<"edges">>)
Resampling == {CropTransformer, ResampleTransformer, Resampler, IntegerKBinsDiscretizer,
    RangeDiscretizer}

(* advanced.py *)
DirectStandardization ==
    Recording("n4m_pp_direct_standardization", {"source", "target"},
        <<"fit_intercept", "ridge">>)
RobustDirectStandardization ==
    Recording("n4m_pp_robust_direct_standardization", {"source", "target"},
        <<"fit_intercept", "ridge", "trim_quantile", "max_iter">>)
PiecewiseDirectStandardization ==
    Loses("parts", Recording("n4m_pp_piecewise_direct_standardization", {"source", "target"},
        <<"window_size", "fit_intercept", "ridge">>))
ScoreAugmentedProjectionStandardization ==
    Loses("loadings", Recording("n4m_pp_saps", {"source", "target"},
        <<"n_components", "score_weight", "fit_intercept", "ridge">>))
SlopeBiasCorrection ==
    Sized("any", Fitted("n4m_pp_slope_bias", {"y_source", "y_target"}, <<>>))
LocalCentering ==
    Loses("parts", Recording("n4m_pp_local_centering", {"source", "target"}, <<>>))
WeightedSNV == Recording("n4m_pp_weighted_snv", {"X"}, <<"weights", "ddof", "eps">>)
VariableSortingNormalization == Loses("parts", Recording("n4m_pp_vsn", {"X"}, <<"eps">>))
PiecewiseSNV ==
    Loses("parts",
        Recording("n4m_pp_piecewise_snv", {"X"}, <<"window_size", "ddof", "eps">>))
PiecewiseMSC ==
    Loses("reference", Recording("n4m_pp_piecewise_msc", {"X"},
        <<"reference", "window_size", "eps">>))
LocalizedMSC ==
    Loses("reference", Recording("n4m_pp_localized_msc", {"X"},
        <<"reference", "window_size", "eps">>))
CrossCorrelationAlignment ==
    Loses("kept", Recording("n4m_pp_xcorr_align", {"X"}, <<"reference", "0", "max_shift">>))
IcoshiftAlignment ==
    Loses("kept", Recording("n4m_pp_icoshift_align", {"X"},
        <<"reference", "interval_size", "max_shift">>))
DynamicTimeWarpingAlignment ==
    Loses("kept", Recording("n4m_pp_dtw_align", {"X"}, <<"reference", "0", "0">>))
CorrelationOptimizedWarping ==
    Loses("kept", Recording("n4m_pp_cow_align", {"X"},
        <<"reference", "interval_size", "max_shift">>))
VarianceFilter == Recording("n4m_filter_variance", {"X"}, <<"threshold", "top_k">>)
CorrelationFilter ==
    Recording("n4m_filter_correlation", {"X", "y"}, <<"threshold", "top_k">>)
IntervalGenerator ==
    Loses("parts", Sized("cuts",
        Recording("n4m_interval_generator", {"X"}, <<"interval_size", "step">>)))
Advanced == {DirectStandardization, RobustDirectStandardization,
    PiecewiseDirectStandardization, ScoreAugmentedProjectionStandardization,
    SlopeBiasCorrection, LocalCentering, WeightedSNV, VariableSortingNormalization,
    PiecewiseSNV, PiecewiseMSC, LocalizedMSC, CrossCorrelationAlignment,
    IcoshiftAlignment, DynamicTimeWarpingAlignment, CorrelationOptimizedWarping,
    VarianceFilter, CorrelationFilter, IntervalGenerator}

(* filters.py *)
YOutlierFilter ==
    Sized("any", Resolving(Fitted("n4m_filter_y_outlier", {"y"},
        <<"method", "threshold", "lower_percentile", "upper_percentile">>)))
XOutlierFilter ==
    Loses("fit", Resolving(Fitted("n4m_filter_x_outlier", {"X"},
        <<"method", "use_threshold", "threshold", "n_components", "contamination", "seed",
          "n_estimators", "max_samples">>)))
HighLeverageFilter ==
    Loses("fit", Resolving(Fitted("n4m_filter_leverage", {"X"},
        <<"method", "threshold_multiplier", "absolute_threshold", "n_components",
          "center">>)))
SpectralQualityFilter ==
    Ready(Stateless("n4m_filter_quality",
        <<"max_nan_ratio", "max_zero_ratio", "min_variance", "max_value", "min_value",
          "check_inf">>))
Filters == {YOutlierFilter, XOutlierFilter, HighLeverageFilter, SpectralQualityFilter}

(* splitters.py *)
KennardStoneSplitter == Splitter("n4m_split_kennard_stone", <<"test_size">>)
SPXYSplitter == Splitter("n4m_split_spxy", <<"test_size">>)
SPXYFoldSplitter == Frozen(Splitter("n4m_split_spxy_fold", <<"n_splits", "y_metric">>))
SPXYGroupFoldSplitter ==
    Frozen(Splitter("n4m_split_spxy_g_fold", <<"n_splits", "y_metric", "aggregation">>))
KMeansSplitter == Splitter("n4m_split_kmeans", <<"test_size", "seed", "max_iter">>)
KBinsStratifiedSplitter ==
    Splitter("n4m_split_kbins_stratified", <<"test_size", "seed", "n_bins", "strategy">>)
BinnedStratifiedGroupKFoldSplitter ==
    Frozen(Splitter("n4m_split_binned_strat_group_kfold",
        <<"n_splits", "n_bins", "strategy", "shuffle", "seed">>))
SystematicCircularSplitter ==
    Splitter("n4m_split_systematic_circular", <<"test_size", "seed">>)
SPlitSplitter == Splitter("n4m_split_split_splitter", <<"test_size", "seed">>)
Splitters == {KennardStoneSplitter, SPXYSplitter, SPXYFoldSplitter,
    SPXYGroupFoldSplitter, KMeansSplitter, KBinsStratifiedSplitter,
    BinnedStratifiedGroupKFoldSplitter, SystematicCircularSplitter, SPlitSplitter}

(* augmentation.py *)
Wavelet == Resolving(Stateless("n4m_pp_wavelet", <<"family", "mode">>))
Haar == Stateless("n4m_pp_haar", <<>>)
WaveletDenoise ==
    Resolving(Stateless("n4m_pp_wavelet_denoise",
        <<"family", "mode", "level", "threshold_mode", "noise_estimator">>))
WaveletFeatures ==
    Resolving(Stateless("n4m_pp_wavelet_features",
        <<"family", "mode", "max_level", "entropy">>))
WaveletPCA ==
    Resolving(Fitted("n4m_pp_wavelet_pca", {"X"},
        <<"family", "mode", "max_level", "n_components">>))
WaveletSVD ==
    Resolving(Fitted("n4m_pp_wavelet_svd", {"X"},
        <<"family", "mode", "max_level", "n_components">>))
GaussianAdditiveNoise == Augmenter("n4m_aug_gaussian_noise", "none", <<"sigma">>)
MultiplicativeNoise == Augmenter("n4m_aug_multiplicative_noise", "none", <<"sigma_gain">>)
SpikeNoise ==
    Augmenter("n4m_aug_spike_noise", "none",
        <<"n_spikes_min", "n_spikes_max", "amplitude_min", "amplitude_max">>)
HeteroscedasticNoiseAugmenter ==
    Augmenter("n4m_aug_hetero_noise", "none", <<"noise_base", "noise_signal_dep">>)
LinearBaselineDrift ==
    Augmenter("n4m_aug_linear_drift", "none",
        <<"offset_min", "offset_max", "slope_min", "slope_max">>)
PolynomialBaselineDrift ==
    Augmenter("n4m_aug_poly_drift", "none", <<"degree", "coeff_min", "coeff_max">>)
PathLengthAugmenter ==
    Augmenter("n4m_aug_path_length", "none", <<"path_length_std", "min_path_length">>)
WavelengthShift ==
    Augmenter("n4m_aug_wavelength_shift", "optional",
        <<"shift_lo", "shift_hi", "wavelengths">>)
WavelengthStretch ==
    Augmenter("n4m_aug_wavelength_stretch", "optional",
        <<"stretch_lo", "stretch_hi", "wavelengths">>)
LocalWarpAugmenter ==
    Augmenter("n4m_aug_local_warp", "optional",
        <<"n_control_points", "max_shift", "wavelengths">>)
BandPerturbationAugmenter ==
    Augmenter("n4m_aug_band_perturb", "none",
        <<"n_bands", "bw_lo", "bw_hi", "gain_lo", "gain_hi", "offset_lo", "offset_hi">>)
BandMasking ==
    Augmenter("n4m_aug_band_mask", "none",
        <<"n_bands_lo", "n_bands_hi", "bw_lo", "bw_hi", "mode">>)
ChannelDropout == Augmenter("n4m_aug_channel_dropout", "none", <<"dropout_prob", "mode">>)
GaussianJitter ==
    Augmenter("n4m_aug_gauss_jitter", "none", <<"sigma_lo", "sigma_hi", "kernel_width">>)
UnsharpMask ==
    Augmenter("n4m_aug_unsharp_mask", "none",
        <<"amount_lo", "amount_hi", "sigma", "kernel_width">>)
MagnitudeWarp ==
    Augmenter("n4m_aug_magnitude_warp", "optional",
        <<"n_control_points", "gain_lo", "gain_hi", "wavelengths">>)
LocalClip ==
    Augmenter("n4m_aug_local_clip", "none", <<"n_regions", "width_lo", "width_hi">>)
MixupAugmenter == Augmenter("n4m_aug_mixup", "none", <<"alpha">>)
LocalMixupAugmenter == Augmenter("n4m_aug_local_mixup", "none", <<"alpha", "k_neighbors">>)
ScatterSimulationMSC ==
    Augmenter("n4m_aug_scatter_sim", "none", <<"a_low", "a_high", "b_low", "b_high">>)
ParticleSizeAugmenter ==
    Augmenter("n4m_aug_particle_size", "create",
        <<"mean_size_um", "size_variation_um", "use_size_range", "size_range_low_um",
          "size_range_high_um", "reference_size_um", "wavelength_exponent",
          "size_effect_strength", "include_path_length", "path_length_sensitivity",
          "wavelengths">>)
EMSCDistortionAugmenter ==
    Augmenter("n4m_aug_emsc_distort", "create",
        <<"mult_low", "mult_high", "add_low", "add_high", "polynomial_order",
          "polynomial_strength", "correlation", "wavelengths">>)
BatchEffectAugmenter ==
    Augmenter("n4m_aug_batch_effect", "optional",
        <<"offset_std", "slope_std", "gain_std", "variation_scope", "wavelengths">>)
InstrumentalBroadeningAugmenter ==
    Augmenter("n4m_aug_instrument_broaden", "optional",
        <<"fwhm", "use_fwhm_range", "fwhm_low", "fwhm_high", "variation_scope",
          "wavelengths">>)
DeadBandAugmenter ==
    Augmenter("n4m_aug_dead_band", "none",
        <<"n_bands", "width_low", "width_high", "noise_std", "probability",
          "variation_scope">>)
TemperatureAugmenter ==
    Augmenter("n4m_aug_temperature", "create",
        <<"temperature_delta", "use_temp_range", "temp_low", "temp_high", "enable_shift",
          "enable_intensity", "enable_broadening", "region_specific", "wavelengths">>)
MoistureAugmenter ==
    Augmenter("n4m_aug_moisture", "create",
        <<"water_activity_delta", "use_aw_range", "aw_low", "aw_high",
          "reference_water_activity", "free_water_fraction", "bound_water_shift",
          "moisture_content", "enable_shift", "enable_intensity", "wavelengths">>)
DetectorRollOffAugmenter ==
    Augmenter("n4m_aug_detector_rolloff", "apply",
        <<"detector_model", "effect_strength", "noise_amplification",
          "include_baseline_distortion">>)
StrayLightAugmenter ==
    Augmenter("n4m_aug_stray_light", "apply",
        <<"stray_light_fraction", "edge_enhancement", "edge_width",
          "include_peak_truncation">>)
EdgeCurvatureAugmenter ==
    Augmenter("n4m_aug_edge_curve", "apply",
        <<"curvature_strength", "curvature_type", "asymmetry", "edge_focus">>)
TruncatedPeakAugmenter ==
    Augmenter("n4m_aug_truncated_peak", "apply",
        <<"peak_probability", "amplitude_min", "amplitude_max", "width_min", "width_max",
          "left_edge", "right_edge">>)
EdgeArtifactsAugmenter ==
    Augmenter("n4m_aug_edge_artifacts", "apply",
        <<"enabled_flags", "overall_strength", "detector_model">>)
SplineSmoothingAugmenter == Augmenter("n4m_aug_spline_smooth", "none", <<>>)
SplineXPerturbationAugmenter ==
    Augmenter("n4m_aug_spline_x_perturb", "none",
        <<"spline_degree", "perturbation_density", "perturbation_range_min",
          "perturbation_range_max">>)
SplineYPerturbationAugmenter ==
    Augmenter("n4m_aug_spline_y_perturb", "none",
        <<"spline_points", "perturbation_intensity">>)
SplineXSimplificationAugmenter ==
    Augmenter("n4m_aug_spline_x_simplify", "none", <<"spline_points", "uniform">>)
SplineCurveSimplificationAugmenter ==
    Augmenter("n4m_aug_spline_curve_simplify", "none", <<"spline_points", "uniform">>)
RotateTranslateAugmenter ==
    Augmenter("n4m_aug_rotate_translate", "none", <<"p_range", "y_factor">>)
RandomXOperation ==
    Augmenter("n4m_aug_random_x_op", "none",
        <<"op_kind", "operator_range_min", "operator_range_max">>)
Augmentation == {Wavelet, Haar, WaveletDenoise, WaveletFeatures, WaveletPCA, WaveletSVD,
    GaussianAdditiveNoise, MultiplicativeNoise, SpikeNoise,
    HeteroscedasticNoiseAugmenter, LinearBaselineDrift, PolynomialBaselineDrift,
    PathLengthAugmenter, WavelengthShift, WavelengthStretch, LocalWarpAugmenter,
    BandPerturbationAugmenter, BandMasking, ChannelDropout, GaussianJitter, UnsharpMask,
    MagnitudeWarp, LocalClip, MixupAugmenter, LocalMixupAugmenter, ScatterSimulationMSC,
    ParticleSizeAugmenter, EMSCDistortionAugmenter, BatchEffectAugmenter,
    InstrumentalBroadeningAugmenter, DeadBandAugmenter, TemperatureAugmenter,
    MoistureAugmenter, DetectorRollOffAugmenter, StrayLightAugmenter,
    EdgeCurvatureAugmenter, TruncatedPeakAugmenter, EdgeArtifactsAugmenter,
    SplineSmoothingAugmenter, SplineXPerturbationAugmenter,
    SplineYPerturbationAugmenter, SplineXSimplificationAugmenter,
    SplineCurveSimplificationAugmenter, RotateTranslateAugmenter, RandomXOperation}

AllNative == Preprocessing \cup Baselines \cup Extraction \cup Resampling \cup Advanced
               \cup Filters \cup Splitters \cup Augmentation
================================================================================
