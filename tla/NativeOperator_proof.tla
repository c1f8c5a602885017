-------------------------- MODULE NativeOperator_proof -------------------------
(***************************************************************************)
(* For every class, any data and any settings: types, what the flag and     *)
(* the recorded width say of the handle, the refinement of FittedEstimator, *)
(* and that the one-shot functions do as the classes.                       *)
(***************************************************************************)
EXTENDS NativeOperator, TLAPS

-----------------------------------------------------------------------------
(* What the proofs need to know of the class table: only what fits on       *)
(* something records a width or cuts blocks, and augmenters, which alone    *)
(* have an axis, need no input.                                             *)
Fields == {"prefix", "passes", "needs", "shape", "loses", "width", "ready", "resolves",
           "settable", "axis"}
Tabled(c) == /\ c = [f \in Fields |-> c[f]]
             /\ c.needs = {} => c.width = FALSE /\ c.shape # "cuts"
             /\ c.ready \in BOOLEAN /\ (c.ready => c.needs = {})
             /\ c.settable = FALSE /\ c.shape # "split" => c.needs = {}
             /\ c.axis # "none" => c.needs = {} /\ c.settable = FALSE /\ c.shape # "split"

Plain(c) == Tabled(c) /\ c.settable = TRUE /\ c.ready = FALSE

LEMMA KindsTabled ==
    /\ \A prefix, passes : Plain(Stateless(prefix, passes))
    /\ \A prefix, needs, passes : Plain(Fitted(prefix, needs, passes))
    /\ \A prefix, needs, passes :
         needs # {} => /\ Plain(Recording(prefix, needs, passes))
                       /\ Recording(prefix, needs, passes).needs # {}
    /\ \A prefix, axis, passes : Tabled(Augmenter(prefix, axis, passes))
    /\ \A prefix, passes : /\ Tabled(Splitter(prefix, passes))
                           /\ Tabled(Frozen(Splitter(prefix, passes)))
  <1>1. ASSUME NEW prefix, NEW passes PROVE Plain(Stateless(prefix, passes))
    BY DEF Plain, Tabled, Fields, Stateless
  <1>2. ASSUME NEW prefix, NEW needs, NEW passes PROVE Plain(Fitted(prefix, needs, passes))
    BY <1>1 DEF Plain, Tabled, Fields, Stateless, Fitted
  <1>3. ASSUME NEW prefix, NEW needs, NEW passes, needs # {}
        PROVE  /\ Plain(Recording(prefix, needs, passes))
               /\ Recording(prefix, needs, passes).needs # {}
    <2>1. Fitted(prefix, needs, passes).needs = needs
      BY DEF Stateless, Fitted
    <2> QED
      BY <1>2, <1>3, <2>1 DEF Plain, Tabled, Fields, Recording
  <1>4. ASSUME NEW prefix, NEW axis, NEW passes PROVE Tabled(Augmenter(prefix, axis, passes))
    BY DEF Tabled, Fields, Stateless, Augmenter
  <1>5. ASSUME NEW prefix, NEW passes PROVE Tabled(Splitter(prefix, passes))
    BY DEF Tabled, Fields, Stateless, Splitter
  <1>6. ASSUME NEW prefix, NEW passes PROVE Tabled(Frozen(Splitter(prefix, passes)))
    BY DEF Tabled, Fields, Stateless, Splitter, Frozen
  <1> QED
    BY <1>1, <1>2, <1>3, <1>4, <1>5, <1>6

LEMMA WrappedTabled ==
    ASSUME NEW c, Plain(c)
    PROVE  /\ Plain(Sized("any", c)) /\ Plain(Sized("params", c)) /\ Plain(Resolving(c))
           /\ c.needs # {} => Plain(Sized("cuts", c))
           /\ c.needs = {} => Tabled(Ready(c))
           /\ \A s : Plain(Loses(s, c))
  BY DEF Plain, Tabled, Fields, Sized, Loses, Ready, Resolving

LEMMA PreprocessingTabled == \A c \in Preprocessing : Tabled(c)
  <1>1. Plain(LogTransform)
    BY KindsTabled, WrappedTabled DEF LogTransform
  <1>2. Plain(Derivate)
    BY KindsTabled, WrappedTabled DEF Derivate
  <1> QED
    BY <1>1, <1>2, KindsTabled, WrappedTabled
    DEF Plain, Preprocessing, SNV, LSNV, RNV, AreaNormalization, Normalize, SimpleScale,
        MSC, EMSC, BaselineCenter, SavitzkyGolay, NorrisWilliams, Gaussian,
        FirstDerivative, SecondDerivative, ToAbsorbance, FromAbsorbance,
        PercentToFraction, FractionToPercent, KubelkaMunk

LEMMA BaselinesTabled == \A c \in Baselines : Tabled(c)
  BY KindsTabled, WrappedTabled
  DEF Plain, Baselines, Detrend, AsLS, AirPLS, ArPLS, ModPoly, IModPoly, SNIP, RollingBall,
      IAsLS, BEADS

LEMMA ExtractionTabled == \A c \in Extraction : Tabled(c)
  <1>1. Plain(FCKStaticTransformer)
    BY KindsTabled, WrappedTabled DEF FCKStaticTransformer
  <1> QED
    BY <1>1, KindsTabled, WrappedTabled
    DEF Plain, Extraction, OSC, EPO, FlexiblePCA, FlexibleSVD

LEMMA ResamplingTabled == \A c \in Resampling : Tabled(c)
  BY KindsTabled, WrappedTabled
  DEF Plain, Resampling, CropTransformer, ResampleTransformer, Resampler,
      IntegerKBinsDiscretizer, RangeDiscretizer

LEMMA AdvancedTabled == \A c \in Advanced : Tabled(c)
  <1>1. Tabled(SlopeBiasCorrection)
    BY KindsTabled, WrappedTabled DEF Plain, SlopeBiasCorrection
  <1>2. Tabled(IntervalGenerator)
    BY KindsTabled, WrappedTabled DEF Plain, IntervalGenerator
  <1>3. \A c \in {PiecewiseDirectStandardization, LocalCentering,
                 VariableSortingNormalization, PiecewiseSNV} : Tabled(c)
    BY KindsTabled, WrappedTabled
    DEF Plain, PiecewiseDirectStandardization, LocalCentering, VariableSortingNormalization,
        PiecewiseSNV
  <1>6. \A c \in {ScoreAugmentedProjectionStandardization, PiecewiseMSC, LocalizedMSC} : Tabled(c)
    BY KindsTabled, WrappedTabled
    DEF Plain, ScoreAugmentedProjectionStandardization, PiecewiseMSC, LocalizedMSC
  <1>4. \A c \in {CrossCorrelationAlignment, IcoshiftAlignment,
                 DynamicTimeWarpingAlignment, CorrelationOptimizedWarping} : Tabled(c)
    BY KindsTabled, WrappedTabled
    DEF Plain, CrossCorrelationAlignment, IcoshiftAlignment,
        DynamicTimeWarpingAlignment, CorrelationOptimizedWarping
  <1>5. \A c \in {DirectStandardization, RobustDirectStandardization, WeightedSNV,
                 VarianceFilter, CorrelationFilter} : Tabled(c)
    BY KindsTabled, WrappedTabled
    DEF Plain, DirectStandardization, RobustDirectStandardization, WeightedSNV,
        VarianceFilter, CorrelationFilter
  <1> QED
    BY <1>1, <1>2, <1>3, <1>4, <1>5, <1>6 DEF Advanced

LEMMA FiltersTabled == \A c \in Filters : Tabled(c)
  <1>1. \A prefix, passes : Tabled(Ready(Stateless(prefix, passes)))
    BY KindsTabled, WrappedTabled DEF Stateless
  <1> QED
    BY <1>1, KindsTabled, WrappedTabled
    DEF Plain, Filters, YOutlierFilter, XOutlierFilter, HighLeverageFilter, SpectralQualityFilter

LEMMA SplittersTabled == \A c \in Splitters : Tabled(c)
  BY KindsTabled, WrappedTabled
  DEF Plain, Splitters, KennardStoneSplitter, SPXYSplitter, SPXYFoldSplitter,
      SPXYGroupFoldSplitter, KMeansSplitter, KBinsStratifiedSplitter,
      BinnedStratifiedGroupKFoldSplitter, SystematicCircularSplitter, SPlitSplitter

LEMMA AugmentationTabled == \A c \in Augmentation : Tabled(c)
  <1>1. \A c \in {Wavelet, Haar, WaveletDenoise, WaveletFeatures, WaveletPCA, WaveletSVD} : Tabled(c)
    BY KindsTabled, WrappedTabled
    DEF Plain, Wavelet, Haar, WaveletDenoise, WaveletFeatures, WaveletPCA, WaveletSVD
  <1>2. \A c \in {GaussianAdditiveNoise, MultiplicativeNoise, SpikeNoise,
                  HeteroscedasticNoiseAugmenter, LinearBaselineDrift,
                  PolynomialBaselineDrift, PathLengthAugmenter, WavelengthShift,
                  WavelengthStretch, LocalWarpAugmenter, BandPerturbationAugmenter,
                  BandMasking, ChannelDropout} : Tabled(c)
    BY KindsTabled
    DEF GaussianAdditiveNoise, MultiplicativeNoise, SpikeNoise,
        HeteroscedasticNoiseAugmenter, LinearBaselineDrift, PolynomialBaselineDrift,
        PathLengthAugmenter, WavelengthShift, WavelengthStretch, LocalWarpAugmenter,
        BandPerturbationAugmenter, BandMasking, ChannelDropout
  <1>3. \A c \in {GaussianJitter, UnsharpMask, MagnitudeWarp, LocalClip, MixupAugmenter,
                  LocalMixupAugmenter, ScatterSimulationMSC, ParticleSizeAugmenter,
                  EMSCDistortionAugmenter, BatchEffectAugmenter,
                  InstrumentalBroadeningAugmenter, DeadBandAugmenter, TemperatureAugmenter} : Tabled(c)
    BY KindsTabled
    DEF GaussianJitter, UnsharpMask, MagnitudeWarp, LocalClip, MixupAugmenter,
        LocalMixupAugmenter, ScatterSimulationMSC, ParticleSizeAugmenter,
        EMSCDistortionAugmenter, BatchEffectAugmenter, InstrumentalBroadeningAugmenter,
        DeadBandAugmenter, TemperatureAugmenter
  <1>4. \A c \in {MoistureAugmenter, DetectorRollOffAugmenter, StrayLightAugmenter,
                  EdgeCurvatureAugmenter, TruncatedPeakAugmenter, EdgeArtifactsAugmenter,
                  SplineSmoothingAugmenter, SplineXPerturbationAugmenter,
                  SplineYPerturbationAugmenter, SplineXSimplificationAugmenter,
                  SplineCurveSimplificationAugmenter, RotateTranslateAugmenter,
                  RandomXOperation} : Tabled(c)
    BY KindsTabled
    DEF MoistureAugmenter, DetectorRollOffAugmenter, StrayLightAugmenter,
        EdgeCurvatureAugmenter, TruncatedPeakAugmenter, EdgeArtifactsAugmenter,
        SplineSmoothingAugmenter, SplineXPerturbationAugmenter,
        SplineYPerturbationAugmenter, SplineXSimplificationAugmenter,
        SplineCurveSimplificationAugmenter, RotateTranslateAugmenter, RandomXOperation
  <1> QED
    BY <1>1, <1>2, <1>3, <1>4 DEF Augmentation

LEMMA AllTabled == \A c \in AllNative : Tabled(c)
  BY PreprocessingTabled, BaselinesTabled, ExtractionTabled, ResamplingTabled, AdvancedTabled,
     FiltersTabled, SplittersTabled, AugmentationTabled DEF AllNative

-----------------------------------------------------------------------------
Widths == {d.cols : d \in Data}
Usable == {p \in MadeWith : class.resolves => p.method = resolved}
Handles == [made : Usable, learnt : {Unfitted, Mixture} \cup Fits, features : {0} \cup Widths]

(* Between a fit and what may be left of it there is no confusion.          *)
LEMMA Distinct ==
    /\ Unfitted # Mixture /\ Unfitted \notin Fits /\ Mixture \notin Fits
    /\ Raised # Nothing /\ \A d \in Data : Done(d) \notin {Raised, Nothing}
    /\ \A t, x : [from |-> t, on |-> x] \notin {Raised, Nothing} \cup {Done(d) : d \in Data}
  <1>1. Unfitted # Mixture
    BY DEF Unfitted, Mixture
  <1>2. DOMAIN Unfitted = {"answers"} /\ DOMAIN Mixture = {"answers"}
    BY DEF Unfitted, Mixture
  <1>3. \A t \in Fits : DOMAIN t = {"answers", "data", "settings"}
    BY DEF Fits
  <1>4. DOMAIN Raised = {"from", "raised"} /\ DOMAIN Nothing = {"from"}
    BY DEF Raised, Nothing
  <1>5. \A d \in Data : DOMAIN Done(d) = {"from", "fitted"}
    BY DEF Done
  <1>6. \A t, x : DOMAIN [from |-> t, on |-> x] = {"from", "on"}
    OBVIOUS
  <1>7. Unfitted \notin Fits /\ Mixture \notin Fits
    BY <1>2, <1>3
  <1>8. Raised # Nothing /\ \A d \in Data : Done(d) \notin {Raised, Nothing}
    BY <1>4, <1>5
  <1>9. \A t, x : [from |-> t, on |-> x] \notin {Raised, Nothing} \cup {Done(d) : d \in Data}
    BY <1>4, <1>5, <1>6
  <1> QED
    BY <1>1, <1>7, <1>8, <1>9

(* Settings are records, and so is what create may be told.                 *)
LEMMA MadeFrom ==
    ASSUME NEW p \in Settings, NEW m \in Methods
    PROVE  /\ [p EXCEPT !.method = m] \in MadeWith
           /\ [p EXCEPT !.method = m].method = m
           /\ p \in MadeWith
  <1>1. p \in SettingsRecord
    BY OperatorAssumption
  <1>2. \A n : [p EXCEPT !.method = n] \in MadeBy(n)
    BY Zenon DEF MadeBy
  <1>3. p.method \in Methods
    BY DEF Methods
  <1>4. [p EXCEPT !.method = p.method] = p
    BY <1>1 DEF SettingsRecord
  <1>5. [p EXCEPT !.method = m].method = m
    BY <1>1 DEF SettingsRecord
  <1>6. \A n \in Methods : MadeBy(n) \subseteq MadeWith
    BY Zenon DEF MadeWith
  <1> QED
    BY <1>2, <1>3, <1>4, <1>5, <1>6

LEMMA EffectiveType == ASSUME TypeOK PROVE Effective \in Usable
  <1>1. params \in Settings
    BY DEF TypeOK, SettingsOf
  <1>2. resolved \in Methods
    BY DEF TypeOK
  <1>3. params \in MadeWith
    BY <1>1, <1>2, MadeFrom
  <1>4. /\ [params EXCEPT !.method = resolved] \in MadeWith
        /\ [params EXCEPT !.method = resolved].method = resolved
    BY <1>1, <1>2, MadeFrom
  <1> QED
    BY <1>3, <1>4 DEF Effective, Usable

LEMMA EnsuredType == ASSUME TypeOK PROVE Ensured \in Handles
  <1>1. handle # Closed => handle \in Handles
    BY DEF TypeOK, Handles, Usable, Widths
  <1>2. [made |-> Effective, learnt |-> Unfitted, features |-> 0] \in Handles
    BY EffectiveType DEF Handles
  <1> QED
    BY <1>1, <1>2 DEF Ensured

(* What a C fit may leave is still a handle, made as it was.                *)
LEMMA LearntType ==
    ASSUME NEW h \in Handles, NEW d \in Data
    PROVE  /\ Learnt(h, d) \in Handles
           /\ \A g \in Spoiled(h, d) : g \in Handles
  <1>1. h.made \in MadeWith /\ d.cols \in Widths
    BY DEF Handles, Usable, Widths
  <1>2. Learns(h, d) \in Fits
    BY <1>1 DEF Learns, Fits
  <1>3. Torn(h) \in {Unfitted, Mixture}
    BY DEF Torn
  <1>4. Learnt(h, d) \in Handles
    BY <1>1, <1>2 DEF Learnt, Handles
  <1>5. ASSUME NEW g \in Spoiled(h, d) PROVE g \in Handles
    BY <1>1, <1>3, <1>5 DEF Spoiled, Resized, Handles
  <1> QED
    BY <1>4, <1>5

-----------------------------------------------------------------------------
(* What an object keeps besides its handle after a fit.                     *)
LEMMA FitTypes ==
    ASSUME TypeOK, NEW d \in Data, Fit(d)
    PROVE  TypeOK'
  <1>1. UNCHANGED <<class, params, resolved>> /\ d.cols \in Widths
    BY DEF Fit, Widths
  <1>2. handle' \in {Closed} \cup Handles
    <2>1. handle \in {Closed} \cup Handles
      BY DEF TypeOK, Handles, Usable, Widths
    <2>2. Ensured \in Handles /\ Learnt(Ensured, d) \in Handles
          /\ \A g \in Spoiled(Ensured, d) : g \in Handles
      BY EnsuredType, LearntType
    <2> QED
      BY <2>1, <2>2 DEF Fit, FitStateless, FitStateful, Opens
  <1>3. /\ fitted_' \in BOOLEAN /\ n_features_in_' \in {0} \cup Widths
        /\ wavelengths' \in {0} \cup Widths
    BY <1>1 DEF TypeOK, Widths, Fit, FitStateless, FitStateful, Records, keptVars, AxisFor
  <1> QED
    BY <1>1, <1>2, <1>3 DEF TypeOK, Handles, Usable, Widths, Fits

LEMMA TransformTypes ==
    ASSUME TypeOK, NEW x \in Data, Transform(x)
    PROVE  TypeOK'
  <1>1. UNCHANGED <<class, params, resolved, fitted_, n_features_in_>> /\ x.cols \in Widths
    BY DEF Transform, keptVars, Widths
  <1>2. handle' \in {Closed} \cup Handles
    BY EnsuredType DEF TypeOK, Handles, Usable, Widths, Transform, TransformStateless,
                       TransformStateful, Split, Opens
  <1>3. wavelengths' \in {0} \cup Widths
    BY <1>1 DEF TypeOK, Widths, Transform, TransformStateless, TransformStateful, Split, AxisFor
  <1> QED
    BY <1>1, <1>2, <1>3 DEF TypeOK, Handles, Usable, Widths, Fits

LEMMA InitType == Init => TypeOK
  <1>1. Init => class.ready \in BOOLEAN
    BY AllTabled, OperatorAssumption DEF Init, Tabled
  <1> QED
    BY <1>1 DEF Init, TypeOK, SettingsOf, Methods, Closed

(* Handles, flags and widths are of their types in every reachable state.  *)
THEOREM TypeCorrect == Spec => []TypeOK
  <1>1. Init => TypeOK
    BY InitType
  <1>2. TypeOK /\ [Next]_noVars => TypeOK'
    <2> SUFFICES ASSUME TypeOK, [Next]_noVars PROVE TypeOK'
      OBVIOUS
    <2>1. CASE UNCHANGED noVars
      BY <2>1 DEF noVars, keptVars, TypeOK, SettingsOf, Fits
    <2>2. CASE FitWithoutX
      <3>1. handle' \in {Closed} \cup Handles
        BY <2>2, EnsuredType DEF FitWithoutX, Opens
      <3> QED
        BY <2>2, <3>1 DEF FitWithoutX, keptVars, TypeOK, SettingsOf, Fits, Handles, Usable, Widths
    <2>3. CASE Clone
      <3>1. class.ready \in BOOLEAN
        BY AllTabled, OperatorAssumption DEF TypeOK, Tabled
      <3> QED
        BY <2>3, <3>1 DEF Clone, TypeOK, SettingsOf, Methods, Fits
    <2>4. CASE Refuse
      BY <2>4 DEF Refuse, keptVars, TypeOK, SettingsOf, Fits
    <2>5. ASSUME NEW p \in Settings, SetParams(p) PROVE TypeOK'
      BY <2>5 DEF SetParams, keptVars, TypeOK, SettingsOf, Fits
    <2> QED
      BY <2>1, <2>2, <2>3, <2>4, <2>5, FitTypes, TransformTypes DEF Next
  <1> QED
    BY <1>1, <1>2, PTL DEF Spec

-----------------------------------------------------------------------------
(* What an operator that keeps its promise has learnt is one whole fit, and *)
(* the width the handle asks for is that fit's.                             *)
Whole(h) == class.needs # {} /\ class.loses = "nothing" /\ h.learnt # Unfitted =>
               h.learnt \in Fits /\ h.learnt.data.cols = h.features
Steady == /\ TypeOK /\ FlagMeansFitted /\ WidthRecorded
          /\ handle # Closed => Whole(handle)

LEMMA SteadyInit == Init => Steady
  <1> SUFFICES ASSUME Init PROVE Steady
    OBVIOUS
  <1>1. TypeOK
    BY InitType
  <1>2. class.ready \in BOOLEAN /\ (class.ready => class.needs = {} /\ ~class.width)
    BY <1>1, AllTabled, OperatorAssumption DEF TypeOK, Tabled
  <1> QED
    BY <1>1, <1>2 DEF Init, Steady, FlagMeansFitted, WidthRecorded

(* What opening, fitting and failing to fit do to a handle.                 *)
LEMMA HandleKinds ==
    ASSUME NEW h \in Handles, NEW d \in Data, Whole(h)
    PROVE  /\ h # Closed
           /\ Learnt(h, d).learnt # Unfitted /\ Learnt(h, d).features = d.cols
           /\ Whole(Learnt(h, d))
           /\ \A g \in Spoiled(h, d) :
                /\ Whole(g)
                /\ class.loses # "fit" /\ h.learnt # Unfitted => g.learnt # Unfitted
                /\ class.loses \in {"nothing", "loadings"} => g.features = h.features
  <1>1. h # Closed
    <2>1. DOMAIN h = {"made", "learnt", "features"} /\ DOMAIN Closed = {"learnt"}
      BY DEF Handles, Closed
    <2> QED
      BY <2>1
  <1>2. h.made \in MadeWith /\ h = [made |-> h.made, learnt |-> h.learnt, features |-> h.features]
    BY DEF Handles, Usable
  <1>3. Learns(h, d) \in Fits /\ Learns(h, d).data = d
    BY <1>2 DEF Learns, Fits
  <1>4. Learns(h, d) # Unfitted
    BY <1>3, Distinct
  <1>5. Learnt(h, d).features = d.cols
        /\ Learnt(h, d).learnt = IF Keeps(h) THEN h.learnt ELSE Learns(h, d)
    BY <1>2 DEF Learnt
  <1>6. Learnt(h, d).learnt # Unfitted
    BY <1>4, <1>5 DEF Keeps
  <1>7. Whole(Learnt(h, d))
    BY <1>3, <1>5 DEF Whole, Keeps
  <1>8. ASSUME NEW g \in Spoiled(h, d)
        PROVE  /\ Whole(g)
               /\ class.loses # "fit" /\ h.learnt # Unfitted => g.learnt # Unfitted
               /\ class.loses \in {"nothing", "loadings"} => g.features = h.features
    <2>1. class.loses = "nothing" => g = h
      BY <1>8 DEF Spoiled
    <2>2. class.loses # "fit" /\ h.learnt # Unfitted => g.learnt # Unfitted
      BY <1>2, <1>8, Distinct DEF Spoiled, Resized, Torn
    <2>3. class.loses = "loadings" => g.features = h.features
      BY <1>2, <1>8 DEF Spoiled
    <2> QED
      BY <2>1, <2>2, <2>3 DEF Whole
  <1> QED
    BY <1>1, <1>5, <1>6, <1>7, <1>8

LEMMA EnsuredWhole ==
    ASSUME Steady
    PROVE  /\ Ensured \in Handles /\ Whole(Ensured) /\ Ensured # Closed
           /\ handle # Closed => Ensured = handle
  <1>1. Ensured \in Handles
    BY EnsuredType DEF Steady
  <1>2. DOMAIN Ensured = {"made", "learnt", "features"} /\ DOMAIN Closed = {"learnt"}
    BY <1>1 DEF Handles, Closed
  <1>3. Whole(Ensured)
    BY DEF Ensured, Steady, Whole
  <1> QED
    BY <1>1, <1>2, <1>3 DEF Ensured

(* A fit of a class that learns either succeeds or raises.                  *)
LEMMA FitStatefulSteady ==
    ASSUME Steady, NEW d \in Data, FitStateful(d), UNCHANGED class
    PROVE  (FlagMeansFitted /\ WidthRecorded /\ (handle # Closed => Whole(handle)))'
  <1>1. /\ Ensured \in Handles /\ Whole(Ensured) /\ Ensured # Closed
        /\ handle # Closed => Ensured = handle
        /\ class.needs # {}
    BY EnsuredWhole DEF FitStateful
  <1>0. fitted_ => handle # Closed
    BY <1>1, AllTabled, OperatorAssumption DEF Steady, FlagMeansFitted, TypeOK, Tabled
  <1>2. CASE handle' = Learnt(Ensured, d) /\ answer' = Done(d)
    <2>1. fitted_' = TRUE /\ (class.width => n_features_in_' = d.cols)
      BY <1>2, Distinct DEF FitStateful, Records
    <2>2. handle' \in Handles
      BY <1>1, <1>2, LearntType
    <2>3. Whole(handle') /\ handle'.learnt # Unfitted /\ handle'.features = d.cols
      BY <1>1, <1>2, HandleKinds
    <2>4. DOMAIN handle' = {"made", "learnt", "features"} /\ DOMAIN Closed = {"learnt"}
      BY <2>2 DEF Handles, Closed
    <2>5. Closed' = Closed /\ handle' # Closed
      BY <2>4 DEF Closed, Unfitted
    <2> QED
      BY <2>1, <2>3, <2>5 DEF FlagMeansFitted, WidthRecorded, Whole, Fits
  <1>3. CASE handle' \in Spoiled(Ensured, d) /\ Raises
    <2>1. UNCHANGED <<fitted_, n_features_in_>>
      BY <1>3 DEF FitStateful, Records, Raises
    <2>2. handle' \in Handles
      BY <1>1, <1>3, LearntType
    <2>3. /\ Whole(handle')
          /\ class.loses # "fit" /\ Ensured.learnt # Unfitted => handle'.learnt # Unfitted
          /\ class.loses \in {"nothing", "loadings"} => handle'.features = Ensured.features
      BY <1>1, <1>3, HandleKinds
    <2>4. DOMAIN handle' = {"made", "learnt", "features"} /\ DOMAIN Closed = {"learnt"}
      BY <2>2 DEF Handles, Closed
    <2>5. handle' # Closed
      BY <2>4
    <2> QED
      BY <1>0, <1>1, <2>1, <2>3, <2>5 DEF Steady, FlagMeansFitted, WidthRecorded, Whole, Fits
  <1>4. CASE Raises /\ UNCHANGED handle
    BY <1>4 DEF FitStateful, Records, Raises, Steady, FlagMeansFitted, WidthRecorded, Whole, Fits
  <1> QED
    BY <1>2, <1>3, <1>4 DEF FitStateful

LEMMA SteadyStep == Steady /\ TypeOK' /\ [Next]_noVars => Steady'
  <1> SUFFICES ASSUME Steady, TypeOK', [Next]_noVars PROVE Steady'
    OBVIOUS
  <1>1. /\ Ensured \in Handles /\ Whole(Ensured) /\ Ensured # Closed
        /\ handle # Closed => Ensured = handle
    BY EnsuredWhole
  <1>2. CASE UNCHANGED noVars \/ Refuse
    BY <1>2 DEF noVars, keptVars, Refuse, Steady, FlagMeansFitted, WidthRecorded, Whole, Fits
  <1>3. CASE Clone
    <2>1. class.ready \in BOOLEAN /\ (class.ready => class.needs = {} /\ ~class.width)
      BY AllTabled, OperatorAssumption DEF Steady, TypeOK, Tabled
    <2> QED
      BY <1>3, <2>1 DEF Clone, Steady, FlagMeansFitted, WidthRecorded
  <1>4. ASSUME NEW p \in Settings, SetParams(p) PROVE Steady'
    BY <1>4 DEF SetParams, keptVars, Steady, FlagMeansFitted, WidthRecorded, Whole, Fits
  <1>5. /\ class.needs = {} => ~class.width
        /\ class.ready => class.needs = {}
    BY AllTabled, OperatorAssumption DEF Steady, TypeOK, Tabled
  <1>6. CASE FitWithoutX
    <2>1. class.needs = {} /\ handle' = Ensured /\ UNCHANGED <<class, n_features_in_>>
      BY <1>6, AllTabled, OperatorAssumption
      DEF Steady, TypeOK, Tabled, FitWithoutX, Augmenting, Opens, keptVars
    <2> QED
      BY <1>1, <1>5, <2>1 DEF Steady, FlagMeansFitted, WidthRecorded, Whole, Fits
  <1>7. ASSUME NEW d \in Data, Fit(d) PROVE Steady'
    <2>1. UNCHANGED class
      BY <1>7 DEF Fit
    <2>2. CASE FitStateful(d)
      BY <2>1, <2>2, FitStatefulSteady DEF Steady
    <2>3. CASE FitStateless(d)
      <3>1. /\ class.needs = {} /\ UNCHANGED n_features_in_
            /\ handle' \in {handle, Ensured} /\ (handle' = Ensured \/ UNCHANGED fitted_)
        BY <2>3 DEF FitStateless, IsStateless, Opens, keptVars
      <3> QED
        BY <1>1, <1>5, <2>1, <3>1 DEF Steady, FlagMeansFitted, WidthRecorded, Whole, Fits
    <2> QED
      BY <1>7, <2>2, <2>3 DEF Fit
  <1>8. ASSUME NEW x \in Data, Transform(x) PROVE Steady'
    <2>1. UNCHANGED <<class, fitted_, n_features_in_>> /\ handle' \in {handle, Ensured}
      BY <1>8 DEF Transform, keptVars, TransformStateless, TransformStateful, Split, Opens
    <2> QED
      BY <1>1, <1>5, <2>1 DEF Steady, FlagMeansFitted, WidthRecorded, Whole, Fits
  <1> QED
    BY <1>2, <1>3, <1>4, <1>6, <1>7, <1>8 DEF Next

THEOREM AlwaysSteady == Spec => []Steady
  BY SteadyInit, SteadyStep, TypeCorrect, PTL DEF Spec

(* transform of an object that says it is fitted finds a fitted handle that *)
(* asks for n_features_in_ columns, whatever refits failed.                 *)
THEOREM Remembered == Spec => []RemembersHandle
  BY AlwaysSteady, PTL DEF Steady, RemembersHandle

-----------------------------------------------------------------------------
AxisOwned == wavelengths # 0 => class.axis # "none"

LEMMA AxisStep ==
    TypeOK /\ AxisOwned /\ [Next]_noVars =>
       /\ AxisOwned'
       /\ wavelengths # 0 /\ ~UNCHANGED noVars =>
            wavelengths' = wavelengths /\ (answer'.from # Unfitted => answer'.on.cols = wavelengths)
  <1> SUFFICES ASSUME TypeOK, AxisOwned, [Next]_noVars
               PROVE  /\ AxisOwned'
                      /\ wavelengths # 0 /\ ~UNCHANGED noVars =>
                           /\ wavelengths' = wavelengths
                           /\ answer'.from # Unfitted => answer'.on.cols = wavelengths
    OBVIOUS
  <1>1. class.axis # "none" => class.needs = {} /\ ~class.settable /\ class.shape # "split"
    BY AllTabled, OperatorAssumption DEF TypeOK, Tabled
  <1>2. CASE UNCHANGED noVars
    BY <1>2 DEF noVars, AxisOwned
  <1>3. Nothing.from = Unfitted /\ Raised.from = Unfitted /\ \A d : Done(d).from = Unfitted
    BY DEF Nothing, Raised, Done
  <1>4. CASE FitWithoutX \/ Clone \/ Refuse
    BY <1>1, <1>3, <1>4 DEF FitWithoutX, Clone, Refuse, Raises, AxisOwned
  <1>5. ASSUME NEW p \in Settings, SetParams(p)
        PROVE  UNCHANGED <<class, wavelengths>> /\ answer' = Nothing
    BY <1>5 DEF SetParams
  <1>6. ASSUME NEW d \in Data, Fit(d)
        PROVE  /\ class' = class /\ answer' \in {Raised, Done(d)}
               /\ wavelengths' \in {wavelengths, AxisFor(d)}
    BY <1>6 DEF Fit, FitStateless, FitStateful, Raises
  <1>7. ASSUME NEW x \in Data, Transform(x)
        PROVE  /\ class' = class
               /\ wavelengths' # 0 => class.axis # "none"
               /\ wavelengths # 0 =>
                    /\ wavelengths' = wavelengths
                    /\ answer'.from # Unfitted => answer'.on.cols = wavelengths
    <2>1. CASE TransformStateless(x)
      <3>1. \/ answer' = Raised
            \/ /\ answer' = [from |-> Made(handle'), on |-> x]
               /\ class.axis # "none" => wavelengths' \in {0, x.cols}
        BY <2>1 DEF TransformStateless, Answers, Raises
      <3>2. /\ wavelengths # 0 => wavelengths' = wavelengths
            /\ wavelengths' # 0 => wavelengths # 0 \/ class.axis # "none"
        BY <2>1 DEF TransformStateless, AxisFor
      <3> QED
        BY <1>3, <1>7, <3>1, <3>2 DEF Transform, AxisOwned
    <2>2. CASE TransformStateful(x) \/ Split(x)
      BY <1>1, <1>7, <2>2 DEF TransformStateful, Split, Transform, AxisOwned
    <2> QED
      BY <1>7, <2>1, <2>2 DEF Transform
  <1>8. \A d \in Data : /\ wavelengths # 0 => AxisFor(d) = wavelengths
                        /\ class.axis = "none" => AxisFor(d) = wavelengths
    BY DEF AxisFor
  <1> QED
    BY <1>2, <1>3, <1>4, <1>5, <1>6, <1>7, <1>8
    DEF Next, FitWithoutX, Clone, Refuse, AxisOwned

(* No call moves the axis of an augmenter, nor is one answered off it.      *)
THEOREM AxisStays == Spec => AxisKept
  <1>1. Init => AxisOwned
    BY DEF Init, AxisOwned
  <1>2. Spec => []AxisOwned
    BY <1>1, AxisStep, TypeCorrect, PTL DEF Spec
  <1>3. TypeOK /\ AxisOwned /\ [Next]_noVars =>
           [wavelengths # 0 => /\ wavelengths' = wavelengths
                               /\ answer'.from # Unfitted => answer'.on.cols = wavelengths]_noVars
    BY AxisStep
  <1> QED
    BY <1>2, <1>3, TypeCorrect, PTL DEF Spec, AxisKept

-----------------------------------------------------------------------------
(* The refinement.  What an object promises is read off its handle.        *)
Told == IF Promising /\ handle # Closed THEN handle.made ELSE Effective
Kept == IF Promising THEN handle.learnt ELSE Unfitted
Dones == {Done(d) : d \in Data}
Answered == IF Promising /\ answer \notin Dones THEN answer ELSE Nothing

LEMMA RefuseRefines ==
    ASSUME class' = class, Told' = Told, Kept' = Kept, Answered' = Raised
    PROVE  Promise!Refuse
  BY DEF Promise!Refuse, Told, Kept, Answered, Dones

(* A call that answers nothing and keeps what was learnt is a set_params    *)
(* with the settings that come of it.                                      *)
LEMMA QuietRefines ==
    ASSUME class' = class, Told' \in MadeWith, Kept' = Kept, Answered' = Nothing
    PROVE  Promise!SetParams("operator", Told')
  BY DEF Promise!SetParams, Promise!Set, Told, Kept, Answered, Dones

LEMMA NewRefines ==
    ASSUME class' = class, Told' \in MadeWith, Kept' = Unfitted, Answered' = Nothing
    PROVE  Promise!New("operator", Told')
  BY DEF Promise!New, Promise!Set, Told, Kept, Answered, Dones

LEMMA LearnRefines ==
    ASSUME class' = class, Told' = Told, Answered' = Nothing, NEW d \in Data,
           Kept' = [answers |-> class.shape, data |-> d, settings |-> Told]
    PROVE  Promise!Fit("operator", d)
  BY DEF Promise!Fit, Promise!Set, Told, Kept, Answered, Dones

LEMMA AnswerRefines ==
    ASSUME class' = class, Told' = Told, Kept' = Kept, NEW x \in Data,
           Kept # Unfitted, Suits(Kept, x), Answered' = [from |-> Kept, on |-> x]
    PROVE  Promise!Predict("operator", x)
  BY DEF Promise!Predict, Told, Kept, Answered, Dones

(* What create would be told is always made of settings that were given.    *)
LEMMA ToldType ==
    ASSUME TypeOK
    PROVE  /\ Told \in MadeWith
           /\ \A p \in Settings, m \in Methods :
                (IF class.resolves THEN [p EXCEPT !.method = m] ELSE p) \in MadeWith
  <1>1. Effective \in MadeWith
    BY EffectiveType DEF Usable
  <1>2. handle # Closed => handle.made \in MadeWith
    BY DEF TypeOK
  <1>3. \A p \in Settings, m \in Methods :
           (IF class.resolves THEN [p EXCEPT !.method = m] ELSE p) \in MadeWith
    BY MadeFrom
  <1> QED
    BY <1>1, <1>2, <1>3 DEF Told

LEMMA FitRefines ==
    ASSUME Steady, Promising, NEW d \in Data, Fit(d)
    PROVE  Promise!Fit("operator", d) \/ Promise!Refuse
  <1>1. /\ UNCHANGED <<class, params, resolved>> /\ FitStateful(d)
        /\ class.loses = "nothing"
    BY DEF Promising, Fit, FitStateless, IsStateless
  <1>2. Promising' /\ Effective' = Effective
    BY <1>1 DEF Promising, Effective
  <1>3. /\ Ensured \in Handles /\ Whole(Ensured) /\ Ensured # Closed
        /\ handle # Closed => Ensured = handle
    BY EnsuredWhole
  <1>4. Ensured.made = Told /\ Ensured.learnt = Kept
    BY <1>3 DEF Ensured, Told, Kept, Closed
  <1>5. CASE handle' = Learnt(Ensured, d) /\ answer' = Done(d)
    <2>1. Learnt(Ensured, d) = [Ensured EXCEPT !.features = d.cols, !.learnt = Learns(Ensured, d)]
      BY <1>1 DEF Learnt, Keeps
    <2>2. handle'.made = Told /\ handle'.learnt = Learns(Ensured, d)
      BY <1>3, <1>4, <1>5, <2>1 DEF Handles
    <2>3. handle' # Closed
      <3>1. handle' \in Handles
        BY <1>3, <1>5, LearntType
      <3>2. DOMAIN handle' = {"made", "learnt", "features"} /\ DOMAIN Closed = {"learnt"}
        BY <3>1 DEF Handles, Closed
      <3> QED
        BY <3>2
    <2>4. Told' = Told
      BY <1>2, <2>2, <2>3 DEF Told, Closed, Unfitted
    <2>5. Kept' = [answers |-> class.shape, data |-> d, settings |-> Told]
      BY <1>2, <1>4, <2>2 DEF Kept, Learns
    <2>6. Answered' = Nothing
      BY <1>5 DEF Answered, Dones
    <2> QED
      BY <1>1, <2>4, <2>5, <2>6, LearnRefines
  <1>6. CASE handle' \in {handle, Ensured} /\ Raises
    <2>1. Told' = Told /\ Kept' = Kept
      BY <1>2, <1>3, <1>4, <1>6 DEF Told, Kept, Closed, Unfitted
    <2>2. Answered' = Raised
      BY <1>2, <1>6, Distinct DEF Answered, Dones, Raises
    <2> QED
      BY <1>1, <2>1, <2>2, RefuseRefines
  <1>7. \/ handle' = Learnt(Ensured, d) /\ answer' = Done(d)
        \/ handle' \in {handle, Ensured} /\ Raises
    BY <1>1 DEF FitStateful, Spoiled
  <1> QED
    BY <1>5, <1>6, <1>7

LEMMA TransformRefines ==
    ASSUME Steady, Promising, NEW x \in Data, Transform(x)
    PROVE  Promise!Predict("operator", x) \/ Promise!Refuse
  <1>1. UNCHANGED <<class, params, resolved, handle>> /\ TransformStateful(x)
    BY DEF Promising, Transform, TransformStateless, TransformStateful, Split, IsStateless
  <1>2. Promising' /\ Told' = Told /\ Kept' = Kept
    BY <1>1 DEF Promising, Told, Kept, Effective, Closed, Unfitted
  <1>3. CASE answer' = Raised
    <2>1. Answered' = Raised
      BY <1>2, <1>3, Distinct DEF Answered, Dones
    <2> QED
      BY <1>1, <1>2, <2>1, RefuseRefines
  <1>4. CASE Answerable(x) /\ answer' = [from |-> Source(x), on |-> x]
    <2>1. handle # Closed /\ handle.learnt # Unfitted
      BY <1>4 DEF Answerable, Closed
    <2>2. handle.learnt \in Fits /\ handle.learnt.data.cols = handle.features
      BY <2>1 DEF Steady, Whole, Promising
    <2>3. handle.learnt.answers = class.shape
      BY <2>2 DEF Fits
    <2>4. Source(x) = handle.learnt /\ Suits(handle.learnt, x)
      BY <1>4, <2>2, <2>3 DEF Answerable, Source, Suits
    <2>5. Answered' = [from |-> Kept, on |-> x]
      BY <1>2, <1>4, <2>4, Distinct DEF Answered, Dones, Kept
    <2> QED
      BY <1>1, <1>2, <2>1, <2>4, <2>5, AnswerRefines DEF Kept
  <1> QED
    BY <1>1, <1>3, <1>4 DEF TransformStateful, Answers, Raises

(* Every behaviour of an object whose class keeps its promise is one of     *)
(* FittedEstimator.                                                        *)
THEOREM Implementation == Spec => ImplementsFittedEstimator
  <1>1. Init => Promise!Init
    <2> SUFFICES ASSUME Init PROVE Promise!Init
      OBVIOUS
    <2>1. TypeOK
      BY SteadyInit DEF Steady
    <2>2. Told \in MadeWith
      BY <2>1, ToldType
    <2>3. Kept = Unfitted /\ Answered = Nothing
      BY DEF Init, Kept, Answered, Closed
    <2> QED
      BY <2>2, <2>3 DEF Promise!Init, Told, Kept, Answered, Dones
  <1>2. Steady /\ [Next]_noVars => [Promise!Next]_(Promise!feVars)
    <2> SUFFICES ASSUME Steady, [Next]_noVars
                 PROVE  Promise!Next \/ UNCHANGED Promise!feVars
      OBVIOUS
    <2>1. CASE UNCHANGED noVars
      <3>1. class' = class /\ Told' = Told /\ Kept' = Kept /\ Answered' = Answered
        BY <2>1 DEF noVars, keptVars, Told, Kept, Answered, Promising, Effective, Dones,
                    Closed, Unfitted, Nothing, Done
      <3> QED
        BY <3>1 DEF Promise!feVars, Told, Kept, Answered, Dones
    <2>2. TypeOK
      BY DEF Steady
    <2>3. ASSUME NEW p \in Settings, SetParams(p) PROVE Promise!Next
      <3>1. class' = class /\ Kept' = Kept /\ Answered' = Nothing
        BY <2>3 DEF SetParams, Kept, Answered, Promising, Unfitted, Nothing
      <3>2. p \in Settings /\ resolved \in Methods
        BY <2>2 DEF TypeOK
      <3>3. Effective' \in MadeWith
        BY <2>2, <2>3, <3>2, ToldType DEF SetParams, Effective
      <3>4. Told' \in MadeWith
        BY <2>2, <2>3, <3>3 DEF SetParams, Told, TypeOK
      <3> QED
        BY <3>1, <3>4, QuietRefines DEF Promise!Next
    <2>4. CASE Clone
      <3>1. class' = class /\ Kept' = Unfitted /\ Answered' = Nothing
        BY <2>4 DEF Clone, Kept, Answered, Promising, Unfitted, Nothing, Closed
      <3>2. params \in Settings /\ params.method \in Methods
        BY <2>2 DEF TypeOK, SettingsOf, Methods
      <3>3. Effective' \in MadeWith
        BY <2>2, <2>4, <3>2, ToldType DEF Clone, Effective
      <3>4. Told' \in MadeWith
        BY <2>4, <3>3 DEF Clone, Told, Closed, Unfitted
      <3> QED
        BY <3>1, <3>4, NewRefines DEF Promise!Next
    <2>5. CASE Promising /\ Refuse
      <3>1. class' = class /\ Told' = Told /\ Kept' = Kept /\ Promising'
        BY <2>5 DEF Refuse, Told, Kept, Promising, Effective, Closed, Unfitted
      <3>2. Answered' = Raised
        BY <2>5, <3>1, Distinct DEF Refuse, Raises, Answered, Dones
      <3> QED
        BY <3>1, <3>2, RefuseRefines DEF Promise!Next
    <2>6. ASSUME NEW d \in Data, Promising, Fit(d) \/ Transform(d) PROVE Promise!Next
      BY <2>6, FitRefines, TransformRefines DEF Promise!Next
    <2>7. CASE Promising /\ FitWithoutX
      BY <2>2, <2>7, AllTabled, OperatorAssumption
      DEF TypeOK, Tabled, FitWithoutX, Augmenting, Promising
    <2>8. ASSUME ~Promising, UNCHANGED <<class, params, resolved>> PROVE Promise!Next
      <3>1. ~Promising' /\ Told' = Told
        BY <2>8 DEF Promising, Told, Effective
      <3>2. Kept' = Kept /\ Answered' = Nothing
        BY <2>8, <3>1 DEF Kept, Answered, Unfitted, Nothing
      <3> QED
        BY <2>2, <2>8, <3>1, <3>2, ToldType, QuietRefines DEF Promise!Next
    <2>9. ASSUME NEW d \in Data, Fit(d) \/ Transform(d)
          PROVE  UNCHANGED <<class, params, resolved>>
      BY <2>9 DEF Fit, Transform
    <2> QED
      BY <2>1, <2>3, <2>4, <2>5, <2>6, <2>7, <2>8, <2>9 DEF Next, FitWithoutX, Refuse
  <1> QED
    BY <1>1, <1>2, AlwaysSteady, PTL DEF Spec, ImplementsFittedEstimator, Promise!Spec

-----------------------------------------------------------------------------
LEMMA SameBlocks ==
    ASSUME NEW p \in Settings, p.step # -1, NEW n \in Nat
    PROVE  Intervals(n, p) = Bands(n, p)
  <1>1. p.size \in Nat /\ p.step \in Nat
    BY OperatorAssumption DEF SettingsRecord
  <1> DEFINE width == MaxOf(1, p.size)
             step == IF p.step = 0 THEN width ELSE p.step
  <1>2. Intervals(n, p) = Cut(n, width, step)
    BY <1>1 DEF Intervals, MaxOf
  <1>3. MaxOf(1, IF p.step > 0 THEN p.step ELSE p.size) = step
    BY <1>1 DEF MaxOf
  <1> QED
    BY <1>2, <1>3 DEF Bands, Cut

(* Python cuts the result of a fitted IntervalGenerator where C put it.     *)
THEOREM BlocksMatch == Spec => IntervalsMatch
  <1>1. TypeOK /\ [Next]_noVars =>
          [class.shape = "cuts" /\ answer' \in {Done(d) : d \in Data} /\ params.step # -1
             /\ handle'.made = params => intervals_' = Bands(handle'.features, params)]_noVars
    <2> SUFFICES ASSUME TypeOK, Next, class.shape = "cuts", params.step # -1,
                        NEW d \in Data, answer' = Done(d)
                 PROVE  intervals_' = Bands(handle'.features, params)
      BY DEF TypeOK
    <2>1. class.needs # {}
      BY AllTabled, OperatorAssumption DEF TypeOK, Tabled
    <2>2. PICK e \in Data : FitStateful(e)
      <3>1. /\ ~Refuse /\ ~Clone /\ ~FitWithoutX /\ \A p \in Settings : ~SetParams(p)
        BY Distinct DEF Refuse, Raises, Clone, FitWithoutX, SetParams
      <3>2. \A x \in Data : ~Transform(x)
        BY Distinct DEF Transform, TransformStateless, TransformStateful, Split, Answers, Raises
      <3> QED
        BY <2>1, <3>1, <3>2 DEF Next, Fit, FitStateless, IsStateless
    <2>3. handle' = Learnt(Ensured, e) /\ answer' = Done(e)
      BY <2>2, Distinct DEF FitStateful, Spoiled, Raises
    <2>4. Ensured \in Handles
      BY EnsuredType
    <2>5. handle'.features = e.cols
      BY <2>3, <2>4 DEF Learnt, Handles
    <2>6. intervals_' = Intervals(e.cols, params) /\ e.cols \in Nat /\ params \in Settings
      BY <2>2, OperatorAssumption DEF FitStateful, TypeOK, SettingsOf
    <2> QED
      BY <2>5, <2>6, SameBlocks
  <1> QED
    BY <1>1, TypeCorrect, PTL DEF Spec, IntervalsMatch
-----------------------------------------------------------------------------
(* A function and a class written down alike agree; what else is said of a  *)
(* class, on how it keeps a fit, does not touch what it passes.             *)
LEMMA KindsAgree ==
    /\ \A prefix, passes : /\ SameAs(Applies(prefix, passes), Stateless(prefix, passes))
                           /\ SameAs(Applies(prefix, passes), Splitter(prefix, passes))
    /\ \A prefix, needs, passes :
         /\ SameAs(FitsApplies(prefix, needs, passes), Fitted(prefix, needs, passes))
         /\ SameAs(FitsApplies(prefix, needs, passes), Recording(prefix, needs, passes))
    /\ \A prefix, axis, passes :
         /\ SameAs(Augments(prefix, axis, passes), Augmenter(prefix, axis, passes))
         /\ SameAs(Augments(prefix, axis, Defaults), Augmenter(prefix, axis, passes))
  BY DEF SameAs, Applies, FitsApplies, Augments, Stateless, Splitter, Fitted, Recording, Augmenter

LEMMA WrappedAgree ==
    ASSUME NEW f, NEW c, Plain(c), SameAs(f, c)
    PROVE  /\ \A s : SameAs(f, Sized(s, c)) /\ SameAs(f, Loses(s, c))
           /\ SameAs(f, Resolving(c)) /\ SameAs(f, Ready(c))
  BY DEF SameAs, Plain, Tabled, Fields, Sized, Loses, Ready, Resolving

LEMMA PreprocessingAgree ==
    \A f \in {snv, lsnv, rnv, area_norm, normalize, simple_scale, log_transform, msc, emsc,
        baseline_center, derivate, savitzky_golay, first_derivative, second_derivative,
        norris_williams, gaussian, to_absorbance, from_absorbance, pct_to_frac, frac_to_pct,
        kubelka_munk} :
      \E c \in Preprocessing : SameAs(f, c)
  <1>1. /\ SameAs(snv, SNV) /\ SameAs(lsnv, LSNV) /\ SameAs(rnv, RNV)
        /\ SameAs(area_norm, AreaNormalization) /\ SameAs(normalize, Normalize)
        /\ SameAs(simple_scale, SimpleScale) /\ SameAs(msc, MSC) /\ SameAs(emsc, EMSC)
    BY KindsAgree
    DEF snv, SNV, lsnv, LSNV, rnv, RNV, area_norm, AreaNormalization, normalize, Normalize,
        simple_scale, SimpleScale, msc, MSC, emsc, EMSC
  <1>2. /\ SameAs(baseline_center, BaselineCenter)
        /\ SameAs(savitzky_golay, SavitzkyGolay)
        /\ SameAs(first_derivative, FirstDerivative)
        /\ SameAs(second_derivative, SecondDerivative)
        /\ SameAs(norris_williams, NorrisWilliams) /\ SameAs(gaussian, Gaussian)
        /\ SameAs(to_absorbance, ToAbsorbance)
        /\ SameAs(from_absorbance, FromAbsorbance)
    BY KindsAgree
    DEF baseline_center, BaselineCenter, savitzky_golay, SavitzkyGolay, first_derivative,
        FirstDerivative, second_derivative, SecondDerivative, norris_williams, NorrisWilliams,
        gaussian, Gaussian, to_absorbance, ToAbsorbance, from_absorbance, FromAbsorbance
  <1>3. /\ SameAs(pct_to_frac, PercentToFraction)
        /\ SameAs(frac_to_pct, FractionToPercent) /\ SameAs(kubelka_munk, KubelkaMunk)
    BY KindsAgree
    DEF pct_to_frac, PercentToFraction, frac_to_pct, FractionToPercent, kubelka_munk,
        KubelkaMunk
  <1>4. SameAs(log_transform, LogTransform) /\ SameAs(derivate, Derivate)
    BY KindsAgree, WrappedAgree, KindsTabled, WrappedTabled
    DEF log_transform, LogTransform, derivate, Derivate
  <1> QED
    BY <1>1, <1>2, <1>3, <1>4 DEF Preprocessing

LEMMA BaselinesAgree ==
    \A f \in {detrend, asls, airpls, arpls, modpoly, imodpoly, snip, rolling_ball, iasls,
        beads} :
      \E c \in Baselines : SameAs(f, c)
  <1>1. /\ SameAs(detrend, Detrend) /\ SameAs(asls, AsLS) /\ SameAs(airpls, AirPLS)
        /\ SameAs(arpls, ArPLS) /\ SameAs(modpoly, ModPoly)
        /\ SameAs(imodpoly, IModPoly) /\ SameAs(snip, SNIP)
        /\ SameAs(rolling_ball, RollingBall)
    BY KindsAgree
    DEF detrend, Detrend, asls, AsLS, airpls, AirPLS, arpls, ArPLS, modpoly, ModPoly,
        imodpoly, IModPoly, snip, SNIP, rolling_ball, RollingBall
  <1>2. SameAs(iasls, IAsLS) /\ SameAs(beads, BEADS)
    BY KindsAgree
    DEF iasls, IAsLS, beads, BEADS
  <1> QED
    BY <1>1, <1>2 DEF Baselines

LEMMA AugmentationAgree ==
    \A f \in {wavelet, haar, wavelet_denoise, wavelet_features, wavelet_pca, wavelet_svd,
        aug_gaussian_noise, aug_multiplicative_noise, aug_spike_noise, aug_hetero_noise,
        aug_linear_drift, aug_poly_drift, aug_path_length, aug_wavelength_shift,
        aug_wavelength_stretch, aug_local_warp, aug_band_perturb, aug_band_mask,
        aug_channel_dropout, aug_gauss_jitter, aug_unsharp_mask, aug_magnitude_warp,
        aug_local_clip, aug_mixup, aug_local_mixup, aug_scatter_sim, aug_particle_size,
        aug_emsc_distort, aug_batch_effect, aug_instrument_broaden, aug_dead_band,
        aug_temperature, aug_moisture, aug_detector_rolloff, aug_stray_light, aug_edge_curve,
        aug_truncated_peak, aug_edge_artifacts, aug_spline_smooth, aug_spline_x_perturb,
        aug_spline_y_perturb, aug_rotate_translate, aug_random_x_op} :
      \E c \in Augmentation : SameAs(f, c)
  <1>1. /\ SameAs(haar, Haar) /\ SameAs(aug_gaussian_noise, GaussianAdditiveNoise)
        /\ SameAs(aug_multiplicative_noise, MultiplicativeNoise)
        /\ SameAs(aug_spike_noise, SpikeNoise)
        /\ SameAs(aug_hetero_noise, HeteroscedasticNoiseAugmenter)
        /\ SameAs(aug_linear_drift, LinearBaselineDrift)
        /\ SameAs(aug_poly_drift, PolynomialBaselineDrift)
        /\ SameAs(aug_path_length, PathLengthAugmenter)
    BY KindsAgree
    DEF haar, Haar, aug_gaussian_noise, GaussianAdditiveNoise, aug_multiplicative_noise,
        MultiplicativeNoise, aug_spike_noise, SpikeNoise, aug_hetero_noise,
        HeteroscedasticNoiseAugmenter, aug_linear_drift, LinearBaselineDrift, aug_poly_drift,
        PolynomialBaselineDrift, aug_path_length, PathLengthAugmenter
  <1>2. /\ SameAs(aug_wavelength_shift, WavelengthShift)
        /\ SameAs(aug_wavelength_stretch, WavelengthStretch)
        /\ SameAs(aug_local_warp, LocalWarpAugmenter)
        /\ SameAs(aug_band_perturb, BandPerturbationAugmenter)
        /\ SameAs(aug_band_mask, BandMasking)
        /\ SameAs(aug_channel_dropout, ChannelDropout)
        /\ SameAs(aug_gauss_jitter, GaussianJitter)
        /\ SameAs(aug_unsharp_mask, UnsharpMask)
    BY KindsAgree
    DEF aug_wavelength_shift, WavelengthShift, aug_wavelength_stretch, WavelengthStretch,
        aug_local_warp, LocalWarpAugmenter, aug_band_perturb, BandPerturbationAugmenter,
        aug_band_mask, BandMasking, aug_channel_dropout, ChannelDropout, aug_gauss_jitter,
        GaussianJitter, aug_unsharp_mask, UnsharpMask
  <1>3. /\ SameAs(aug_magnitude_warp, MagnitudeWarp)
        /\ SameAs(aug_local_clip, LocalClip) /\ SameAs(aug_mixup, MixupAugmenter)
        /\ SameAs(aug_local_mixup, LocalMixupAugmenter)
        /\ SameAs(aug_scatter_sim, ScatterSimulationMSC)
        /\ SameAs(aug_particle_size, ParticleSizeAugmenter)
        /\ SameAs(aug_emsc_distort, EMSCDistortionAugmenter)
        /\ SameAs(aug_batch_effect, BatchEffectAugmenter)
    BY KindsAgree
    DEF aug_magnitude_warp, MagnitudeWarp, aug_local_clip, LocalClip, aug_mixup,
        MixupAugmenter, aug_local_mixup, LocalMixupAugmenter, aug_scatter_sim,
        ScatterSimulationMSC, aug_particle_size, ParticleSizeAugmenter, aug_emsc_distort,
        EMSCDistortionAugmenter, aug_batch_effect, BatchEffectAugmenter
  <1>4. /\ SameAs(aug_instrument_broaden, InstrumentalBroadeningAugmenter)
        /\ SameAs(aug_dead_band, DeadBandAugmenter)
        /\ SameAs(aug_temperature, TemperatureAugmenter)
        /\ SameAs(aug_moisture, MoistureAugmenter)
        /\ SameAs(aug_detector_rolloff, DetectorRollOffAugmenter)
        /\ SameAs(aug_stray_light, StrayLightAugmenter)
        /\ SameAs(aug_edge_curve, EdgeCurvatureAugmenter)
        /\ SameAs(aug_truncated_peak, TruncatedPeakAugmenter)
    BY KindsAgree
    DEF aug_instrument_broaden, InstrumentalBroadeningAugmenter, aug_dead_band,
        DeadBandAugmenter, aug_temperature, TemperatureAugmenter, aug_moisture,
        MoistureAugmenter, aug_detector_rolloff, DetectorRollOffAugmenter, aug_stray_light,
        StrayLightAugmenter, aug_edge_curve, EdgeCurvatureAugmenter, aug_truncated_peak,
        TruncatedPeakAugmenter
  <1>5. /\ SameAs(aug_edge_artifacts, EdgeArtifactsAugmenter)
        /\ SameAs(aug_spline_smooth, SplineSmoothingAugmenter)
        /\ SameAs(aug_spline_x_perturb, SplineXPerturbationAugmenter)
        /\ SameAs(aug_spline_y_perturb, SplineYPerturbationAugmenter)
        /\ SameAs(aug_rotate_translate, RotateTranslateAugmenter)
        /\ SameAs(aug_random_x_op, RandomXOperation)
    BY KindsAgree
    DEF aug_edge_artifacts, EdgeArtifactsAugmenter, aug_spline_smooth,
        SplineSmoothingAugmenter, aug_spline_x_perturb, SplineXPerturbationAugmenter,
        aug_spline_y_perturb, SplineYPerturbationAugmenter, aug_rotate_translate,
        RotateTranslateAugmenter, aug_random_x_op, RandomXOperation
  <1>6. /\ SameAs(wavelet, Wavelet) /\ SameAs(wavelet_denoise, WaveletDenoise)
        /\ SameAs(wavelet_features, WaveletFeatures)
        /\ SameAs(wavelet_pca, WaveletPCA)
    BY KindsAgree, WrappedAgree, KindsTabled, WrappedTabled
    DEF wavelet, Wavelet, wavelet_denoise, WaveletDenoise, wavelet_features, WaveletFeatures,
        wavelet_pca, WaveletPCA
  <1>7. SameAs(wavelet_svd, WaveletSVD)
    BY KindsAgree, WrappedAgree, KindsTabled, WrappedTabled
    DEF wavelet_svd, WaveletSVD
  <1> QED
    BY <1>1, <1>2, <1>3, <1>4, <1>5, <1>6, <1>7 DEF Augmentation

LEMMA ExtractionAgree ==
    \A f \in {osc, epo, flexible_pca, flexible_svd, fck_static} :
      \E c \in Extraction : SameAs(f, c)
  <1>1. /\ SameAs(osc, OSC) /\ SameAs(epo, EPO) /\ SameAs(flexible_pca, FlexiblePCA)
        /\ SameAs(flexible_svd, FlexibleSVD)
    BY KindsAgree
    DEF osc, OSC, epo, EPO, flexible_pca, FlexiblePCA, flexible_svd, FlexibleSVD
  <1>2. SameAs(fck_static, FCKStaticTransformer)
    BY KindsAgree, WrappedAgree, KindsTabled, WrappedTabled
    DEF fck_static, FCKStaticTransformer
  <1> QED
    BY <1>1, <1>2 DEF Extraction

LEMMA AdvancedAgree ==
    \A f \in {direct_standardization, robust_direct_standardization,
        piecewise_direct_standardization, score_augmented_projection_standardization,
        slope_bias_correction, local_centering, weighted_snv, variable_sorting_normalization,
        piecewise_snv, piecewise_msc, localized_msc, cross_correlation_alignment,
        icoshift_alignment, dynamic_time_warping_alignment, correlation_optimized_warping,
        variance_filter, correlation_filter, interval_generator} :
      \E c \in Advanced : SameAs(f, c)
  <1>1. /\ SameAs(direct_standardization, DirectStandardization)
        /\ SameAs(robust_direct_standardization, RobustDirectStandardization)
        /\ SameAs(weighted_snv, WeightedSNV)
        /\ SameAs(variance_filter, VarianceFilter)
        /\ SameAs(correlation_filter, CorrelationFilter)
    BY KindsAgree
    DEF direct_standardization, DirectStandardization, robust_direct_standardization,
        RobustDirectStandardization, weighted_snv, WeightedSNV, variance_filter,
        VarianceFilter, correlation_filter, CorrelationFilter
  <1>2. /\ SameAs(piecewise_direct_standardization, PiecewiseDirectStandardization)
        /\ SameAs(score_augmented_projection_standardization,
                  ScoreAugmentedProjectionStandardization)
        /\ SameAs(slope_bias_correction, SlopeBiasCorrection)
        /\ SameAs(piecewise_msc, PiecewiseMSC)
    BY KindsAgree, WrappedAgree, KindsTabled, WrappedTabled
    DEF piecewise_direct_standardization, PiecewiseDirectStandardization,
        score_augmented_projection_standardization, ScoreAugmentedProjectionStandardization,
        slope_bias_correction, SlopeBiasCorrection, piecewise_msc, PiecewiseMSC
  <1>3. /\ SameAs(localized_msc, LocalizedMSC)
        /\ SameAs(cross_correlation_alignment, CrossCorrelationAlignment)
        /\ SameAs(icoshift_alignment, IcoshiftAlignment)
        /\ SameAs(dynamic_time_warping_alignment, DynamicTimeWarpingAlignment)
    BY KindsAgree, WrappedAgree, KindsTabled, WrappedTabled
    DEF localized_msc, LocalizedMSC, cross_correlation_alignment, CrossCorrelationAlignment,
        icoshift_alignment, IcoshiftAlignment, dynamic_time_warping_alignment,
        DynamicTimeWarpingAlignment
  <1>4. /\ SameAs(correlation_optimized_warping, CorrelationOptimizedWarping)
        /\ SameAs(local_centering, LocalCentering)
        /\ SameAs(variable_sorting_normalization, VariableSortingNormalization)
        /\ SameAs(piecewise_snv, PiecewiseSNV)
    BY KindsAgree, WrappedAgree, KindsTabled, WrappedTabled
    DEF correlation_optimized_warping, CorrelationOptimizedWarping, local_centering,
        LocalCentering, variable_sorting_normalization, VariableSortingNormalization,
        piecewise_snv, PiecewiseSNV
  <1>5. SameAs(interval_generator, IntervalGenerator)
    BY KindsAgree, WrappedAgree, KindsTabled, WrappedTabled
    DEF interval_generator, IntervalGenerator
  <1> QED
    BY <1>1, <1>2, <1>3, <1>4, <1>5 DEF Advanced

LEMMA ResamplingAgree ==
    \A f \in {crop, resample, resampler, range_discretizer, kbins_discretizer} :
      \E c \in Resampling : SameAs(f, c)
  <1>1. /\ SameAs(crop, CropTransformer) /\ SameAs(resample, ResampleTransformer)
        /\ SameAs(range_discretizer, RangeDiscretizer)
    BY KindsAgree
    DEF crop, CropTransformer, resample, ResampleTransformer, range_discretizer,
        RangeDiscretizer
  <1>2. SameAs(resampler, Resampler) /\ SameAs(kbins_discretizer, IntegerKBinsDiscretizer)
    BY KindsAgree, WrappedAgree, KindsTabled, WrappedTabled
    DEF resampler, Resampler, kbins_discretizer, IntegerKBinsDiscretizer
  <1> QED
    BY <1>1, <1>2 DEF Resampling

LEMMA SplittersAgree ==
    \A f \in {kennard_stone, spxy, kbins_stratified} :
      \E c \in Splitters : SameAs(f, c)
  <1>1. /\ SameAs(kennard_stone, KennardStoneSplitter) /\ SameAs(spxy, SPXYSplitter)
        /\ SameAs(kbins_stratified, KBinsStratifiedSplitter)
    BY KindsAgree
    DEF kennard_stone, KennardStoneSplitter, spxy, SPXYSplitter, kbins_stratified,
        KBinsStratifiedSplitter
  <1> QED
    BY <1>1 DEF Splitters

LEMMA FiltersAgree ==
    \A f \in {y_outlier_filter, x_outlier_filter, high_leverage_filter,
        spectral_quality_filter} :
      \E c \in Filters : SameAs(f, c)
  <1>1. SameAs(spectral_quality_filter, SpectralQualityFilter)
    BY KindsAgree, WrappedAgree, KindsTabled
    DEF spectral_quality_filter, SpectralQualityFilter
  <1>2. /\ SameAs(y_outlier_filter, YOutlierFilter)
        /\ SameAs(x_outlier_filter, XOutlierFilter)
        /\ SameAs(high_leverage_filter, HighLeverageFilter)
    BY KindsAgree, WrappedAgree, KindsTabled, WrappedTabled
    DEF y_outlier_filter, YOutlierFilter, x_outlier_filter, XOutlierFilter,
        high_leverage_filter, HighLeverageFilter
  <1> QED
    BY <1>1, <1>2 DEF Filters

(* Whatever class the object has: every one-shot function fits on what the  *)
(* class of its C family fits on and creates the handle with the same       *)
(* numbers in the same order (or the defaults).                            *)
THEOREM FunctionsFollowClasses == Spec => []FunctionsAgree
  <1>1. FunctionsAgree
    BY PreprocessingAgree, BaselinesAgree, AugmentationAgree, ExtractionAgree, AdvancedAgree,
       ResamplingAgree, SplittersAgree, FiltersAgree
    DEF FunctionsAgree, OneShots, AllNative
  <1> QED
    BY <1>1, PTL
=============================================================================
