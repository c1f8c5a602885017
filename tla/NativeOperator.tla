---------------------------- MODULE NativeOperator ----------------------------
(***************************************************************************)
(* An operator object of n4m.sklearn and the C handle it opens on demand:   *)
(* fit, transform (apply, split), set_params and clone, with every point    *)
(* where a call can raise.  Objects share nothing, so one is enough; a      *)
(* clone takes its place.  deepcopy and pickle copy an object that has no   *)
(* handle as it is, and refuse the ctypes pointer of one that has.          *)
(*                                                                         *)
(* Numbers are abstracted to provenance, as in ModelEstimator.              *)
(***************************************************************************)
EXTENDS NativeFunctions, Naturals, Integers, Sequences

CONSTANTS Classes,      \* classes to consider
          Data,         \* what is passed: content and number of columns
          Settings      \* parameters: size (or order), step, method, reference

(* step: 0 for None, -1 for a number below one; reference: its length or 0. *)
SettingsRecord == [size : Nat, step : Nat \cup {-1}, method : STRING, reference : Nat]
ASSUME OperatorAssumption == /\ Classes \subseteq AllNative
                             /\ Data \subseteq [x : STRING, cols : Nat \ {0}]
                             /\ Settings \subseteq SettingsRecord

VARIABLES class, params,
          resolved,         \* the method the constructor looked up
          handle,           \* the C object: made with, learnt from, n features
          fitted_,          \* what __sklearn_is_fitted__ says: _fitted
          n_features_in_,   \* 0: no such attribute
          intervals_,       \* IntervalGenerator: the blocks Python will cut
          wavelengths,      \* augmenters: length of the axis, 0 for None
          answer            \* what the last call returned

keptVars == <<n_features_in_, intervals_>>
noVars == <<class, params, resolved, handle, fitted_, keptVars, wavelengths, answer>>

Unfitted == [answers |-> "none"]
Mixture == [answers |-> "mixture"]      \* parts of two fits, or what is left of one
Closed == [learnt |-> Unfitted]
Nothing == [from |-> Unfitted]
Raised == [from |-> Unfitted, raised |-> TRUE]
Done(d) == [from |-> Unfitted, fitted |-> d]

Range1(s) == {s[i] : i \in 1 .. Len(s)}
SettingsOf(c) == {p \in Settings : p.reference # 0 => "reference" \in Range1(c.passes)}
Augmenting == ~class.settable /\ class.shape # "split"
IsStateless == class.needs = {} /\ class.shape # "split"

(* What create is told: the parameters of the day, but for the method a     *)
(* constructor resolved.                                                   *)
EffectiveNow ==         \* mutant: create looks the method up itself
    params
Effective == IF class.resolves THEN [params EXCEPT !.method = resolved] ELSE params
(* _ensure_handle: the handle there is, whatever params say by now.         *)
Ensured == IF handle = Closed
           THEN [made |-> Effective, learnt |-> Unfitted, features |-> 0] ELSE handle

MaxOf(a, b) == IF a < b THEN b ELSE a
MinOf(a, b) == IF a < b THEN a ELSE b
(* Blocks of width columns every step columns.                              *)
CutUnclipped(cols, width, step) ==      \* mutant: the last block runs over the edge
    [i \in 1 .. ((cols + step - 1) \div step) |->
       <<(i - 1) * step, (i - 1) * step + width>>]
Cut(cols, width, step) ==
    [i \in 1 .. ((cols + step - 1) \div step) |->
       <<(i - 1) * step, MinOf(cols, (i - 1) * step + width)>>]
Intervals(cols, p) ==
    LET width == MaxOf(1, p.size)
    IN  Cut(cols, width, IF p.step = 0 THEN width ELSE MaxOf(1, p.step))
(* interval_fit, intervals: the same in C, where a step below one is no step. *)
Bands(cols, p) ==
    LET step == IF p.step > 0 THEN p.step ELSE p.size
    IN  [i \in 1 .. ((cols + MaxOf(1, step) - 1) \div MaxOf(1, step)) |->
           LET lo == (i - 1) * MaxOf(1, step) IN <<lo, MinOf(cols, lo + MaxOf(1, p.size))>>]

-----------------------------------------------------------------------------
Init == /\ class \in Classes
        /\ params \in SettingsOf(class) /\ resolved = params.method
        /\ handle = Closed /\ fitted_ = class.ready /\ n_features_in_ = 0 /\ intervals_ = <<>>
        /\ wavelengths \in {0} \cup (IF class.axis \in {"none", "apply"} THEN {}
                                     ELSE {d.cols : d \in Data})
        /\ answer = Nothing

Opens == handle' = Ensured
Raises == answer' = Raised
(* Raised before anything is kept: an input that is no matrix, sizes that   *)
(* do not go together.                                                      *)
Refuse == Raises /\ UNCHANGED <<class, params, resolved, handle, fitted_, keptVars, wavelengths>>

(* _wavelength_args: an axis create requires is made up for the first X.    *)
AxisForEach(x) ==       \* mutant: made up again for every X
    IF class.axis = "create" THEN x.cols ELSE wavelengths
AxisFor(x) == IF class.axis = "create" /\ wavelengths = 0 /\ handle = Closed
              THEN x.cols ELSE wavelengths

(* StatelessOperator.fit, _AugmenterBase.fit: creation may be refused.      *)
FitStateless(d) ==
    /\ IsStateless /\ wavelengths' = AxisFor(d)
    /\ \/ Opens /\ fitted_' = TRUE /\ answer' = Done(d)
       \/ handle = Closed /\ Raises /\ UNCHANGED <<handle, fitted_>>
    /\ UNCHANGED keptVars
(* Augmenters may be fitted without X, unless create still needs an axis.   *)
FitWithoutX ==
    /\ Augmenting /\ (class.axis = "create" => wavelengths # 0 \/ handle # Closed)
    /\ Opens /\ fitted_' = TRUE /\ answer' = Nothing
    /\ UNCHANGED <<class, params, resolved, keptVars, wavelengths>>

Learns(h, d) == [answers |-> class.shape, data |-> d, settings |-> h.made]
(* The spectra an alignment compares with: those it was given, or else the  *)
(* mean of the first fit, which later fits find in their place.             *)
Keeps(h) == class.loses = "kept" /\ h.made.reference = 0 /\ h.learnt # Unfitted
ReferenceWidth(h) == IF Keeps(h) THEN h.learnt.data.cols ELSE h.made.reference
Accepts(h, d) == class.loses \in {"kept", "reference"} => ReferenceWidth(h) \in {0, d.cols}

(* What the C fit leaves in the handle when it succeeds, and what it may    *)
(* leave when it fails.  Every one may fail before it touched anything; the *)
(* others check, allocate or normalize between or after what they overwrite.*)
Learnt(h, d) == [h EXCEPT !.features = d.cols,
                          !.learnt = IF Keeps(h) THEN @ ELSE Learns(h, d)]
Torn(h) == IF h.learnt = Unfitted THEN Unfitted ELSE Mixture
Resized(h, d, t) == [h EXCEPT !.features = d.cols, !.learnt = t]
SpoiledEarly(h, d) ==       \* mutant: the coefficients are replaced before the checks
    {Learnt(h, d)}
Spoiled(h, d) ==
    {h} \cup
    CASE class.loses = "nothing" -> {}
      [] class.loses = "fit" -> {Resized(h, d, Unfitted)}
      [] class.loses = "parts" -> {Resized(h, d, Torn(h))}
      [] class.loses = "loadings" -> {[h EXCEPT !.learnt = Torn(h)]}
      [] class.loses = "reference" ->
            {Resized(h, d, IF h.made.reference = 0 THEN Torn(h) ELSE h.learnt)}
      [] OTHER -> IF ReferenceWidth(h) = d.cols THEN {} ELSE {Resized(h, d, h.learnt)}

RecordsEarly(d) ==          \* mutant: flag and width are set before the C fit
    fitted_' = TRUE /\ n_features_in_' = (IF class.width THEN d.cols ELSE n_features_in_)
Records(d) == IF answer' = Raised THEN UNCHANGED <<fitted_, n_features_in_>>
              ELSE /\ fitted_' = TRUE
                   /\ n_features_in_' = IF class.width THEN d.cols ELSE n_features_in_

(* The blocks Python will cut are kept before the handle is asked.          *)
FitStateful(d) ==
    /\ class.needs # {} /\ UNCHANGED wavelengths
    /\ intervals_' = IF class.shape = "cuts" THEN Intervals(d.cols, params) ELSE intervals_
    /\ \/ Accepts(Ensured, d) /\ handle' = Learnt(Ensured, d) /\ answer' = Done(d)
       \/ handle' \in Spoiled(Ensured, d) /\ Raises
       \/ handle = Closed /\ Raises /\ UNCHANGED handle
    /\ Records(d)

Fit(d) == /\ UNCHANGED <<class, params, resolved>>
          /\ FitStateless(d) \/ FitStateful(d)

-----------------------------------------------------------------------------
Answers(t, x) == answer' = [from |-> t, on |-> x]
Made(h) == [answers |-> "settings", settings |-> h.made]

(* The result is allocated with the present parameters, while the handle    *)
(* fills one for those it was made with.                                    *)
Fills(h) == class.shape = "params" => params.size = h.made.size

(* StatelessOperator.transform, _AugmenterBase.transform: _wavelength_view  *)
(* takes the axis of the first X it is called with.                         *)
TransformStateless(x) ==
    /\ IsStateless
    /\ \/ /\ Opens
          /\ wavelengths' = IF class.axis = "apply" /\ wavelengths = 0 THEN x.cols ELSE AxisFor(x)
          /\ IF Fills(handle') /\ (class.axis # "none" => wavelengths' \in {0, x.cols})
             THEN Answers(Made(handle'), x) ELSE Raises
       \/ handle = Closed /\ Raises /\ wavelengths' = AxisFor(x) /\ UNCHANGED handle
(* split opens the handle too; nothing is ever fitted. *)
Split(x) ==
    /\ class.needs = {} /\ class.shape = "split" /\ UNCHANGED wavelengths
    /\ \/ Opens /\ Answers(Made(handle'), x)
       \/ handle = Closed /\ Raises /\ UNCHANGED handle

(* After a refit that failed half-way the handle answers from both fits.    *)
Source(x) == IF class.shape # "any" /\ handle.learnt # Mixture
                  /\ handle.learnt.data.cols # x.cols THEN Mixture ELSE handle.learnt
Answerable(x) == /\ fitted_ /\ handle.learnt # Unfitted /\ Fills(handle)
                 /\ class.shape = "any" \/ x.cols = handle.features
TransformStateful(x) ==
    /\ class.needs # {} /\ UNCHANGED <<handle, wavelengths>>
    /\ IF Answerable(x) THEN Answers(Source(x), x) ELSE Raises

Transform(x) == /\ UNCHANGED <<class, params, resolved, fitted_, keptVars>>
                /\ TransformStateless(x) \/ TransformStateful(x) \/ Split(x)

(* set_params writes attributes; neither the handle nor what a constructor  *)
(* looked up follows.                                                      *)
SetParams(p) == /\ class.settable /\ p \in SettingsOf(class)
                /\ params' = p /\ answer' = Nothing
                /\ UNCHANGED <<class, resolved, handle, fitted_, keptVars, wavelengths>>

(* sklearn.base.clone refuses a parameter the constructor copies, as it     *)
(* does a reference.                                                       *)
Clone == /\ class.settable /\ params.reference = 0
         /\ resolved' = params.method /\ handle' = Closed /\ fitted_' = class.ready
         /\ n_features_in_' = 0 /\ intervals_' = <<>>
         /\ answer' = Nothing /\ UNCHANGED <<class, params, wavelengths>>

Next == \/ \E d \in Data : Fit(d) \/ Transform(d)
        \/ \E p \in Settings : SetParams(p)
        \/ FitWithoutX \/ Clone \/ Refuse

Spec == Init /\ [][Next]_noVars
-----------------------------------------------------------------------------
Methods == {p.method : p \in Settings}
MadeBy(m) == {[p EXCEPT !.method = m] : p \in Settings}
MadeWith == UNION {MadeBy(m) : m \in Methods}
Fits == [answers : {class.shape}, data : Data, settings : MadeWith]
(* Handles are made with parameters that were set, and with the method the  *)
(* constructor resolved; they learn from data that was passed.              *)
TypeOK == /\ class \in Classes /\ params \in SettingsOf(class)
          /\ resolved \in Methods
          /\ handle \in {Closed} \cup [made : {p \in MadeWith : class.resolves => p.method = resolved},
                                       learnt : {Unfitted, Mixture} \cup Fits,
                                       features : {0} \cup {d.cols : d \in Data}]
          /\ fitted_ \in BOOLEAN
          /\ n_features_in_ \in {0} \cup {d.cols : d \in Data}
          /\ wavelengths \in {0} \cup {d.cols : d \in Data}

(* An object that says it is fitted has an open handle, and one that has    *)
(* learnt something: transform does not fail with NOT_FITTED.  The filters  *)
(* and the resampler are excepted, whose C fit clears itself first, and the *)
(* quality filter, which says so without a handle.                         *)
FlagMeansFitted ==
    fitted_ => /\ handle # Closed \/ class.ready
               /\ class.needs # {} /\ class.loses # "fit" => handle.learnt # Unfitted

(* n_features_in_ is the width the handle asks for, failed refits or not,   *)
(* where the C fit checks its input before it takes the width.              *)
WidthRecorded ==
    class.width /\ class.loses \in {"nothing", "loadings"} /\ fitted_ =>
       n_features_in_ = handle.features

(* What Python remembers of a fit is what the handle holds: after failed    *)
(* refits, clones and set_params the flag and the width it checks still     *)
(* describe the C state they stand for.                                     *)
RemembersHandle == FlagMeansFitted /\ WidthRecorded

(* A fit with the parameters the handle was made with leaves in Python the  *)
(* blocks the C side writes: transform cuts its result where they are.  (A  *)
(* step below one is the exception: Python takes it for 1, C for none.)     *)
IntervalsMatch ==
    [][class.shape = "cuts" /\ answer' \in {Done(d) : d \in Data} /\ params.step # -1
         /\ handle'.made = params =>
         intervals_' = Bands(handle'.features, params)]_noVars

(* The axis an augmenter once has stays: only matrices of that width are    *)
(* answered for, and no later one moves it.                                 *)
AxisKept == [][wavelengths # 0 =>
                 /\ wavelengths' = wavelengths
                 /\ answer'.from # Unfitted => answer'.on.cols = wavelengths]_noVars

(* Every one-shot function fits on what the class of its C family fits on   *)
(* and creates the handle with the same numbers in the same order.  (A fact *)
(* about the code and not its state: looked at before the first fit.)       *)
FunctionsAgree == ~fitted_ => \A f \in OneShots : \E c \in AllNative : SameAs(f, c)

(* n4m.h: "Calling `_fit` again replaces the prior state".                  *)
RefitReplaces ==
    [][\A d \in Data : class.needs # {} /\ answer' = Done(d) => handle'.learnt.data = d]_noVars

(* A fitted operator whose C fit keeps what it had until the new fit is     *)
(* whole promises FittedEstimator; its settings are those of the handle.    *)
Promising == class.needs # {} /\ class.loses = "nothing"
Suits(t, x) == t.answers = "any" \/ t.data.cols = x.cols
Promise == INSTANCE FittedEstimator WITH
              Estimators <- {"operator"}, Settings <- MadeWith,
              kind <- class.shape,
              settings <- [e \in {"operator"} |->
                             IF Promising /\ handle # Closed THEN handle.made ELSE Effective],
              model <- [e \in {"operator"} |-> IF Promising THEN handle.learnt ELSE Unfitted],
              answer <- IF Promising /\ answer \notin {Done(d) : d \in Data}
                        THEN answer ELSE Nothing
ImplementsFittedEstimator == Promise!Spec
=============================================================================
