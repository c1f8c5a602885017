# Formal models of pls4all / n4m

pls4all is a C++ library of partial-least-squares methods behind a C ABI
(`cpp/`), its bindings (`bindings/`), and the tooling that benchmarks the
bindings and checks their parity (`benchmarks/`, `parity/`, `catalog/`). Most of
its lines are numerical kernels. What the numbers are is the business of its
parity tests; these modules are about everything around the kernels that decides
whether the numbers mean anything: which rows a model was trained on, which fit a
transform applies, which vectors a parity verdict compared, what is left when a
step fails.

All paths below are relative to `src/`.

## Inventory

| Component | State | Operations | Hard behaviour | What makes it correct | Here |
|---|---|---|---|---|---|
| Cross-validation engine `cpp/src/core/cross_validation.cpp` | the result under construction, per-sample counts | `cross_validate_regression` | a fold fails after others wrote; plans from callers | no sample predicted by a model that saw it; all or nothing | modelled, proved |
| Validation plans `cpp/src/core/validation.cpp`, `cpp/src/c_api/c_api_validation_plan.cpp` | `n_samples`, folds | create, `set_n_samples`, `add_fold`, eight generators | off-by-ones, ties, memory running out in a fill loop | generated plans are usable, broken ones are not | modelled, proved |
| Preprocessing pipeline `cpp/src/core/pipeline.{hpp,cpp}`, `cpp/src/c_api/c_api_pipeline.cpp` | entries, fitted states, width, `fitted_` | create, destroy, clone, add, fit, transform, transform_alloc | refits, failures at the n-th operator, shared handles | output only through one whole fit of the present operators | modelled, proved |
| Cross-binding orchestrator `benchmarks/cross_binding/orchestrator.py` | CSV, prediction and oracle files, records, pool | launch, resume, defer, run, snapshot, judge, write | threads, subprocess failures, kills, restarts, several seeds and shards | no row lost, verdicts compare one dataset, oracles stay | modelled for one algorithm and size, proved but for liveness |
| Python estimators `bindings/python/src/pls4all/sklearn/`, `_methods.py` | width, attributes, exported bytes, a cached C handle | fit, predict, transform, `set_params`, pickle, copy, clone | a refit that fails half-way, a handle that outlives its fit, names shared with C by spelling only | an answer comes from the last fit that succeeded | modelled, proved |
| Python operators `bindings/python/src/n4m/` | a lazily created C handle, a flag, a width, blocks, an axis | fit, transform, split, `set_params`, clone; one-shot functions | the C side fails after it has overwritten part of a fit; parameters change behind the handle | what Python remembers is what the handle holds | modelled but for `CompositeFilter`, proved |
| Parity fixtures `parity/python_generator/` | fixture files, `manifest.json` | regenerate, check, emit C++ headers | kills, files lost or edited, a reference that is not always there; names shared by spelling | a check that says OK is right; every header finds its names | modelled but for the numbers, proved |
| Model handle and binary format `cpp/src/c_api/c_api_model.cpp` | an immutable model | fit, export, import | two lists of supported models | what is exported can be imported | the two lists, within the Python estimators |
| Preprocessing and augmentation kernels (n4m) `cpp/src/c_api/c_api_advanced.cpp`, ... | handles around a kernel | create, fit, transform | what a failed fit overwrites | the last fit, whole | what a fit checks, keeps and loses, within the Python operators |
| Fit kernels `cpp/src/core/model.cpp`, ... | none between calls | fit, predict | numerical | parity with references | reduced to success or error |
| Component selection `cpp/src/core/model_selection.cpp` | table of scores | sweep, one-SE rule | ties, NaN | the first best, the smallest within one error | not modelled |
| AOM/POP selection `cpp/src/core/aom_selection.cpp` | scores per operator and prefix | global, per-component | skipped folds, ties | the choice is the best complete score | its plan check only |
| Variable-selection kernels (18 `*_selection.cpp`) | none | loops around cross-validation | numerical heuristics | rely on the engine's contract | not modelled |
| C splitters, filters, random generators | handles around a kernel | fit, mask, split | numerical, bit-exact streams | recorded references | not modelled |
| Context and configuration | error text, settings | setters | one per thread | none that crosses calls | not modelled |
| Other bindings (R, JS, MATLAB, Octave, archived), low level of the Python ones | owner objects | call-through | lifetimes | the library's | not modelled |
| Catalog, parity tools, docs builders, CI | files | scripts run once | none | sequential | not modelled |

How they interact. A caller builds a *validation plan* by hand or with a
generator and passes it, by reference, to a selection kernel. Eighteen of these
kernels send it to `cross_validate_regression`, which checks it; the AOM/POP
selections and the stability selection check it themselves, each in its own way.
A *pipeline* is fitted by a thread and may then be shared by threads that
transform or clone; each thread has its own context, as the library asks. The
*orchestrator* starts one process per binding, algorithm and size; they talk
through files only (a JSON record on stdout, `.npy` prediction vectors, frozen
reference oracles, one CSV), and those files outlive the launch, so the next one
starts from what the last left. The *Python classes* own one C handle each: those
of `pls4all` export the model a fit returns and keep bytes and handle, those of
`n4m` create the handle on demand and refit it in place, so a fit that fails in C
can leave Python and C with different ideas of what is fitted. Method results
and fixtures cross a language border by name: `_methods.py` and the classes read
from C results, and `cpp_header.py` reads from the files `suites.py` made, by
string keys that nothing but a run compares.

## Modules

| Module | Models | Depends on |
|---|---|---|
| `OutOfFold` | what a cross-validation call promises: abstract specification | |
| `ValidationFolds` | a plan, and what each consumer demands of it | |
| `CrossValidation` | `cross_validate_regression` | `ValidationFolds`, implements `OutOfFold` |
| `CrossValidation_proof` | theorems | `CrossValidation` |
| `Filtering` | the loops that append part of a list to another one, as an operator | |
| `Filtering_proof` | lemmas on them, and on recursion in general | `Filtering` |
| `ValidationSplits` | the fold sets each generator writes, as operators | `Filtering` |
| `ValidationPlan` | a plan's life: by hand, or filled by a generator | `ValidationFolds`, `ValidationSplits` |
| `FittedPipeline` | what a pipeline promises: abstract specification | |
| `Pipeline` | the `Pipeline` class and its C functions, several callers | implements `FittedPipeline` |
| `Pipeline_proof` | theorems | `Pipeline` |
| `Orchestrator` | launches of the benchmark on one set of files | `Filtering` |
| `FittedEstimator` | what an estimator object promises: abstract specification | |
| `Methods` | the one-shot methods of the library: inputs taken, results written | |
| `EstimatorClasses` | the classes of `pls4all.sklearn`, one record each | `Methods` |
| `ModelEstimator` | the life of these objects | `EstimatorClasses`, implements `FittedEstimator` |
| `NativeClasses` | the classes of `n4m.sklearn`, one record each | |
| `NativeFunctions` | the one-shot functions of `n4m/python.py` | `NativeClasses` |
| `NativeOperator` | the life of an operator object and its handle | `NativeFunctions`, implements `FittedEstimator` |
| `ParityExpected` | the names and forms of what each reference computes | |
| `ParitySuites` | the fixtures of the suite and their producers | `ParityExpected` |
| `ParityHeaders` | what each family of C++ tests looks up | `ParitySuites` |
| `ParityFixtures` | the files and the programs that work on them | instantiated with the three above |
| `ValidationPlan_proof`, `Orchestrator_proof` | theorems | the module of that name, `Filtering_proof` |
| `ModelEstimator_proof`, `NativeOperator_proof`, `ParityFixtures_proof` | theorems | the module of that name |
| `MC*` | small constants for TLC | the module of that name |

Definitions beginning with the name of another (`WellFormedAnyTrain` before
`WellFormed`) and marked *mutant* are wrong versions of it, the way a plausible
slip in the code would be; substituting one must break the property listed with
it in `PROJECT.json`. No specification uses them.

### CrossValidation

`pc` is the loop the call is in (`validate`, `fit`, `check`), `fold` its index,
`counts` is `prediction_counts`, `out` the caller's `CrossValidationResult`. A
model is reduced to the rows it was fitted on, a prediction to its model:
this is all that leakage can tell apart. Every exit is there: the argument
checks in their order, counts and products too large for their
integers (`TOO_LARGE`, `RejectBuffers`), the structural check of each fold, a failing
fit, the coverage check, exceptions from anywhere (`Catch`).

Properties. `LeakFreeResult`: a returned result predicts every sample, with a
model that did not see it. `FoldSlices`: `test_offsets` cuts `test_indices` into the folds' test
sets, which is how consumers compute per-fold errors. `PartitionNeverRejected`:
the three structural checks do not reject a plan that is a partition.
`ImplementsOutOfFold` contains that an error leaves no partial result
(`ErrorLeavesNoResult`, proved on its own).

### ValidationPlan

`plan` is the handle or the generator's out argument, `filling` the turn of the
generator's fill loop, `made` what the generator was called with. A seeded
shuffle may be any permutation, which covers every seed. Distances are squared
and exact; SPXY's normalised sum is multiplied out to stay in the integers, which
keeps the order of any two sums. Argument errors are one code.

Properties. `GeneratedPartition`: k-fold, leave-one-out and external folds are
accepted by the engine. `GeneratedComplementary`: every completed fold uses every
sample on exactly one side. `BalancedFolds`: also over repeats.
`RepresentativesSpread`: the Kennard-Stone guarantee, ties and coincident rows
included. `FailedPlanUnusable`: what a failed generator leaves in its out
argument is rejected by the engine and by the AOM/POP selections; the generators return
without resetting it, so only the order in which a fold's two sides are stored
makes this true.

### Pipeline

`entries`, `states`, `n_features` and `fitted` are the members of the class, per
handle; `call`, `step`, `current` and `out` the local state of the call each
thread is in. One turn of the fit or transform loop is one step. A matrix is its
source and the fitted operators it went through; an `OperatorState` is its kind,
the size of its `scale` vector, and the matrix, and the number of operators
before it, it was trained on. Statuses are `OK`, `NOT_FITTED` and `ERROR`; it is `OK` while a call runs.
Overflow checks on matrix sizes are among the reasons a check may fail.

Callers follow the one rule that the library's documentation states for
contexts and that any unsynchronised C++ object needs: while a thread adds to,
fits or destroys a pipeline no other thread uses it. Concurrent transforms and
clones are free.

Properties. `ImplementsFittedPipeline`: data comes out only through the whole
chain of the operators the pipeline now has, trained in one go on one matrix,
each on the output of those before. `FailedFitForgets`: a failing refit takes the
old fit out of service. `FittedStatesApply`: the switch in `transform` accepts
everything the switch in `fit` can produce, for every kind. The type invariant
includes that there are never more states than entries: fit appends to a vector it
must have cleared. `ErrorWritesNothing`, proved only: a
failing transform leaves the output alone.

### Orchestrator

The cells are those of one algorithm and size, which is what shares files. `csv`,
`predictions` and `oracles` are the files; `records`, `ran`, `existing` the
variables of `main`; `pc` its phase; `thread` what each pool thread does.
`snapshot_reference_oracle` copies to a temporary file and renames it, in three
steps, because other threads run between them: a rename takes along the file
another thread has open. Saving a vector and writing the CSV take two steps each,
so that a kill can fall in between. A vector is the seed of its data, `Torn` or
`Missing`. The parity columns are one `gate`. After a kill in the middle of a
write the CSV holds a prefix of the rows, the last one possibly cut; a cut row
stands for one whose slot columns cannot be read back. A kill takes the benchmark
processes with it (a process group).

Not modelled: generating the datasets (one thread, before the pool), the JSON
sidecars (written with their vector), tolerances, the grammar of the command line.

Properties. `NothingLost`: a launch that reaches its last write has one row per
planned cell, of its seed, and the rows of others. `LikeWithLike`: no verdict
compares vectors of two datasets. `FrozenOracles`: an oracle holds its own seed's
vector. `CompletedRunsJudged`: every published vector has a verdict.
`ShardsKept`: a launch on one shard keeps the rows of the others. `RunsEnd`: a
launch ends, also when threads or `main` raise.

### ModelEstimator

A class is a record of `EstimatorClasses`: which fit method it has, what its
predict answers for, the configuration it asks of the core, the function of
`_methods.py` it calls with the inputs it gives and the names it reads. The state
of an object is that of the Python object: `params`, `n_features_in_`, `fitted_`
(all the attributes a fit sets), `bundle_` (the exported bytes), `handle_` (the
cached `Model`). Numbers are reduced to the data and the parameters that reached
the core; the form of an answer is left out, and with it `_y_ndim_`, which a fit that
then fails may have set. `Fit*` follow the order of the code: where the width is set, where the
handle is dropped, what is kept when the core refuses. `Accepts` is
`validate_fit_request`, `Imports` the importer's own list.

Properties. `ImplementsFittedEstimator`: an answer is that of the last fit that
succeeded, with its parameters, for an argument that suits it. `OneFit`:
attributes, bytes and handle are of one fit, and no handle is another object's.
`BundleRebuilds`: stored bytes can be read back. `FailedFitChangesNothing`: where
the docstrings say so. `KeysAgree`: every class passes what its C method takes and
reads only what it writes. `DefaultPlanPartitions`: the folds a selector makes for
itself test each row once.

### NativeOperator

A class is a record of `NativeClasses`: its C family, the parameters in the order
`create` is told them, what a fit needs, what the width of a result comes from,
and what a fit that fails in C may have overwritten by then (`loses`): nothing, since
it computes aside and stores at the end; the whole fit, as two filters and the
resampler do; the loadings of a transfer; or the width with the rest half done
(`"parts"`: the windows of the other transfer, the weights of
`VariableSortingNormalization`, the edges of `IntegerKBinsDiscretizer`, and
`LocalCentering`, `PiecewiseSNV`, `IntervalGenerator`). Two scatter corrections lose
the reference, unless it was given; in alignments it outlives refits instead. Running
out of memory is one of the ways to fail. `SpectralQualityFilter` says it is fitted
before it has a handle (`ready`).
`handle` is the C object (made with, learnt from, features), the rest are the
Python attributes. `Mixture` stands for a state with parts of two fits.
`OneShots` of `NativeFunctions` are the functions that create, fit, apply and
destroy in one call. Objects of one class share nothing, so there is one; a clone
takes its place. `inverse_transform` is a transform that learns nothing.

Properties. `RemembersHandle`: flag and width say of the handle what is true of
it, after any failed refits. `IntervalsMatch`: the blocks Python keeps are those C
cuts. `FunctionsAgree`: each function creates and fits its family as the class
does. `ImplementsFittedEstimator`, for the classes whose C fit keeps the old fit
until the new one is whole (`loses = "nothing"`). `AxisKept`: the axis an augmenter
once has never moves, and matrices of another width are refused.

### ParityFixtures

Bytes of a file are the version of the producer that made them, or `Torn`,
`Missing`, `Edited`, `Reformatted`. A regeneration makes all payloads first, then
truncates and fills file after file and last the manifest; it can be killed between
any two of these. `bench` is the AOM_v0 checkout, which is there, broken or
absent; when absent, six producers hand back the file they should replace. Between
runs producers change and files are edited or lost. `ParityHeaders` gives, family
by family, the keys `cpp_header.py` looks up and the form it casts them to.

Properties. `CheckVouches`: a check that says OK has seen every file whole and
current. `RegenerationAgrees`: after "Wrote fixtures + manifest", manifest, files
and producers agree and a check passes. `NamesServed`: every header is written
whole as long as its files load. `AomNumbersKept`, proved only: without AOM_v0 a
regeneration keeps the numbers of the AOM fixtures.

## Runs

| Run | Question | Bounds, and why they suffice | States |
|---|---|---|---|
| `cross_validation` | is the engine leak-free and all-or-nothing on any plan? | 3 samples, all plans of up to 2 folds over 10 fold shapes (4 valid, 6 one per defect or gap), two of 3: each check looks at one fold or at two folds that share a sample | 3 thousand |
| `validation_plan` | do the generators keep their promises? | `n_samples` -1, 1, 4; counts -1 to 5, so each comparison is met below, at and above; 4 samples give unequal folds, ties and a third farthest-point choice | 56 thousand |
| `pipeline_shared` | is a fit ever mixed, stale or partial? | 2 threads, 2 handles, 2 widths, and in each behaviour one list both pipelines are prefixes of: a supervised operator twice (the one with the extra check), or one operator of any other kind. A clone and its source, a fit and a refit, a chain with a before and an after; each kind's own checks concern one operator. Handles and threads are symmetric | 154 thousand |
| `orchestrator` | are rows, verdicts and oracles right over successive launches? | 3 launches of 60 command lines, 2 seeds, a reference and a library cell, 2 workers, failing cells, flushing or not; nothing is killed. Two launches make a history, the third reads it | 1.4 million |
| `orchestrator_killed` | does a launch end, and is it complete, after a kill anywhere? | 3 launches of one seed, 1 kill, silent processes, 1 or 2 workers, the reference on two thread counts | 574 thousand |
| `model_estimators` | can an object answer from anything but its last fit? | 2 objects of every class that keeps bytes and of every other way to behave; 4 matrices (two of one width, one not finite), 5 settings (one asks for too many components). A copy and its source, an old and a new fit, is all an answer can confuse | 80 thousand |
| `native_operators` | do Python and the C handle agree? | 1 object of every way to behave, 3 matrices (two of one width), 5 settings | 21 thousand |
| `parity_fixtures` | can the reports of the programs be wrong? | all fixtures and families; the files of three may change (an ordinary one and two AOM ones), each producer once. A report depends on each file by itself | 483 thousand |

`CHECK_DEADLOCK FALSE` in the orchestrator's configurations: the number of
launches is bounded, so the model stops.

Four runs end in a violation, each of a sentence of the repository:

| Run | The sentence | What happens |
|---|---|---|
| `plan_semantic_checks` | `pls.h`: the semantic checks skipped by `add_fold` "are run when a selection kernel consumes the plan" | the stability selection checks only the training rows' range: folds with repeated rows or with a row on both sides are used |
| `orchestrator_threads` | `orchestrator.py:1348`: snapshots "touch different paths ..., so concurrent writes don't collide" | the path has no thread count: two thread counts of the reference share oracle and temporary file, `os.replace` raises, `main` dies with its unflushed rows |
| `orchestrator_seeds` | `orchestrator.py:283`: an oracle "changes only when the canonical reference backend is run again" | after a kill the prediction file is newer than its CSV row; a later launch copies it over the row's oracle |
| `native_refit` | `n4m.h:49-50`: "Calling `_fit` again replaces the prior state" | `c_api_advanced.cpp:814`: an alignment computes a reference only when it has none; refitted, it keeps the mean of the first spectra |

Known besides, without a run of their own.

*Orchestrator.* A failed cell that was executed is recomputed on every resume,
with or without `--rerun-failed` (its row lacks the `max_runs` of the key it is
compared by). A kill between a flush and the last write loses the rows of other
shards, since a flush writes only this launch's. A cut row makes the resumed
launch die at its last step, in `slot_key`. After a kill between the last flush
and the parity pass the resumed launch has nothing to run, skips the pass and
publishes empty verdicts, though the help at `orchestrator.py:1135-1138` says such
runs are resumable. `ShardsKept` and `CompletedRunsJudged` are therefore checked
without kills, and `NothingLost` with them only for launches that reach their last
write.

*Python estimators.* `max_iter` and `sparsity_lambda` are assigned to names
`Config` does not have (`sklearn/_base.py:157`), so a sparse fit is a plain one
whatever the parameter documented at `_regression.py:231-233` says. This is also
what keeps `BundleRebuilds` true: the importer does not know sparse PLS. The
predictions kept by `id(X)` answer for whatever array has that address later.

*Python operators.* Parameters set after the handle exists do not reach it
(`n4m/sklearn/_base.py:41`); a result buffer is then sized by one and filled by the
other, or refused. A step below one is 1 in `IntervalGenerator` and none in C
(`advanced.py:540`, `c_api_advanced.cpp:1237`). A failed refit of a windowed or
loading-based transfer leaves parts of two fits, and so does one of
`VariableSortingNormalization`, which overwrites its weights before it normalises them
(`c_api_advanced.cpp:583`, `:596`), of the k-bins discretizer, which frees its edges
before it allocates new ones (`kbins_discretizer.c:136`), and of the others with
`"parts"` above, if memory runs out. `clone` refuses operators that
hold a reference or weights. `copy.copy` shares the C handle between two owners.
`CompositeFilter.fit` does not refit children that are fitted, and
`composite_filter` leaks its handles on a bad mode (`python.py:884`).
`savitzky_golay` has another default window (11) than its class (5).

*Parity.* The fallback of the AOM producers always reads the repository's
directory, even with `--out`. The manifest is written and never read, unlike
`fixture_schema_v1.md:59`. A regeneration killed inside an AOM fixture, without
AOM_v0, leaves a directory on which every later run raises. The headers are
included by no test in the repository, and half of the fixture files have no
producer in the suite.

## Fairness

`Orchestrator`: `main` waits only
for its threads, a thread only for its benchmark process, which has a timeout
(`Fail`); weak fairness on `main`'s steps and on each thread's. There is none on
launching or killing. The other specifications need none: they have only safety
properties and step-by-step refinements, and their loops are bounded and run by the
thread that made the call, so that they end is not in question.

## Proofs

Checked by TLAPS for every value of the constants, from the named assumptions on
the constants, and from the hypotheses a theorem states, which are given below
with the theorems that need them. The assumptions: a positive number
of rows (`NRowsAssumption`); plans are pairs of a count and folds of integers
(`PlansAssumption`); what is passed as sample, fold and repeat counts are integers
(`CountsAssumption`), fold ids are one integer per sample, matrices are
rectangular, of any integers (`BuffersAssumption`); kinds are of the eighteen,
widths positive (`PipelineAssumption`); a command line plans each cell once, with at
most as many workers as there are threads, and a process succeeds, fails or
succeeds without its record (`OrchestratorAssumption`); classes are those of the
package, data and settings records of their shape (`EstimatorAssumption`,
`OperatorAssumption`); the files are of the suite, the number of versions is natural
(`TouchedAssumption`, `VersionAssumption`). TLC evaluates each of them in the runs of its module.

`CrossValidation_proof`. `LeakFreeResult` is not inductive: when the coverage
check passes, nothing in it says why counting once means predicted by a stranger.
`InductiveInv` adds that during the first loop `counts` records exactly the
samples tested by the folds checked so far (`CountInv`), and that during the
second one no prediction comes from a model that saw its sample and each fitted
fold's test samples have one (`PredictionInv`). The coverage check then closes
the argument: a count of one names a fold, and that fold has been scattered. From
it follow `TypeCorrect`, `Inductive`, `LeakFreedom`, `AllOrNothing`,
`PartitionsPass` (the checks are complete as well as sound) and `Implementation`
(of `OutOfFold`, step by step). `SlicesMatch` (`FoldSlices`) needs a second
invariant, `OffsetInv`: the last offset is the length of the list so far, each
turn appends a slice behind it and moves none before (`AppendedSlice`), and no two
checked folds share a sample (`DisjointInv`), so the list never repeats one.

`Filtering_proof`. Loops over lists are recursive functions here, and an induction
rule that takes a predicate cannot be instantiated. A rule over a *set* can:
`SetInduction` (a set of naturals with 0 and every successor has them all) follows
from the well-foundedness of the order, and every induction of the project is an
instance of it. `LoopRuns` uses it to show that a loop of `L` steps has a run,
which is what makes the `CHOOSE` behind a recursive function denote something, and
the lemmas on `Keep` say which elements it keeps, once and in their order.

`ValidationPlan_proof`. `PlanInv`: while a generator is at fold `filling`, the folds
before it are those its loop computes from arguments it accepted (`FoldsOf(made)`,
`Legal(made)`), and a completed plan has all of them. So every property of a
completed plan is one of the operators of `ValidationSplits`, for any counts.
`StartsCut` says what the k-fold loop's `start` adds up to: the cuts begin at 0,
rise, and end at `n`, each slice having `n / k` or one more; `OneRun`, that a sample
is in one slice only. From them `FoldsPartition`, `FoldsComplementary` and half of
`FoldsBalanced`; the other half, `TestedInEveryRepeat`, counts the folds that test
a sample over repeats of arbitrary shuffles by a bijection with the repeats.
`RepresentativesCover` is the greedy argument (`NextChosen`): the row chosen next
is the one farthest from those chosen, so it is no farther from them than these
are from each other, and whatever stays out is no farther than it; ties,
coincident rows and constant blocks change nothing of that. `FailureUnusable` needs
less (`FillInv`): a failure leaves the vector empty or one fold of it without a
side.

`Pipeline_proof`. `InductiveInv` says that a fitted pipeline holds one state per
present entry, all trained on one matrix of its width (`TrainedInOneGo`), that a
thread inside fit is alone with its handle (`Exclusive`), and for each call how
far its loop is (`CallInv`): the states so far are those of the first `step`
entries, the local chain equals them. The last is needed because a fit publishes
its states one by one and only then sets `fitted_`, and for the number of states, which the
type invariant bounds. From it follow `TypeCorrect`, `Inductive`, `AllOrNothing`, `SwitchesAgree`, `FailedFit` and `Implementation` (of
`FittedPipeline`).

`Orchestrator_proof`. `LossInv` follows
the planned cells through the phases of a launch: each is still to be resolved,
waiting for a thread, on one, in a finished future, or in `records`, and never in
two of these; with it `CompleteResults` holds for any number of launches, whatever is
killed. `CopyInv` says what each thread has open while it copies to the shared
temporary name. Under the hypothesis `OneReference` (no launch with several workers
plans two reference cells, which is what `orchestrator_threads` violates) a rename
finds its file; if moreover no successful process is mute (`OneCopier`), no future raises
(`OneReferenceNeverCollides`). `TruthInv` says whose vector each file, row and
verdict holds. Under `Uninterrupted` (`OneCopier`, and nothing is killed: what
`orchestrator_seeds` violates) it gives `VerdictsCompareOneDataset`,
`OraclesStayTrue`, `PublishedAreJudged` and `ShardsStay`. The constants of the run
`orchestrator` satisfy both hypotheses.

What survives kills is a matter of what a launch believes, and needs other
invariants. A prediction file has no seed in its name, so a kill may leave it newer
than the row of its cell, or torn under it. `RestartInv` says that this is harmless
as long as no launch trusts such a row: under `Restartable` (`OneReference`, and
either no launch reads a CSV, or all are one sweep, resumed with its seed and
without `--force`) each row a launch may keep has the whole vector of its seed, since
a cell with such a row is never run again (`CsvSound`, `ExistingSound`), and each row
it makes has it because its vector was written just before (`FinishedSound`,
`RecordsSound`). From it `OraclesSurviveRestarts` and `VerdictsSurviveRestarts`, for
any number of kills, mute processes and cut rows. A second seed in a resumed history
is `orchestrator_seeds`. The two cases have no run of their own; in a copy of its
configuration, `Launches <- SweepLaunches` or `Launches <- FreshCommands` with
`MaxKills = 2` and outcomes `{"ok", "failed", "mute"}` instantiates them (1.2 and 2.9
million states, no error).

`ModelEstimator_proof`. `Coherent` adds to type correctness that the handle is this
object's own and of its bytes, that attributes and bytes are of one fit, that the
bytes can be imported and that a class around one result was fitted on matrices
as wide as it says. The refinement needs all of it: predict rebuilds its handle from the
bytes and checks its argument against a width a failed fit may have changed. That
stored bytes can be imported (`FittedImports`) is by cases over the classes, whose
records are classified once for all (`AllClassified`). `MethodsSupplied` (`KeysAgree`)
goes through the classes in the same way, after lemmas on what the C results hold. `DefaultPlansPartition` is
arithmetic: the folds are multiples of one size, the last one runs to the end.

`NativeOperator_proof`. `Steady` says what flag and width say of the handle,
according to what a class loses in a failed fit, and that an operator that
promises something has learnt one whole fit of the width its handle asks for. From
it `TypeCorrect`, `Remembered` and `Implementation`; `BlocksMatch` is arithmetic on
widths, sizes and steps; `AxisStays` needs no strengthening.
`FunctionsFollowClasses` (`FunctionsAgree`) compares the ways functions and classes
are written down (`KindsAgree`, `WrappedAgree`), and then each function with its class.

`ParityFixtures_proof`. `IInv` says which payloads are still to be written and
that those already written are on disk (`Pending`), and what the last report stands
for (`Vouched`): a report stays true until something changes, and whatever changes
withdraws it. From it `ChecksVouch`, `RegenerationsAgree` and `NumbersKept`, for
any suite, any files that change and any number of versions. `HeadersWhole` is under
the hypothesis `Served`, that the lists of fixtures give the generators what they
look up: a comparison of two constant tables, which the run decides for the suite
of the repository, since from its initial files every header can be emitted.

Only model-checked: the liveness property `RunsEnd` (liveness is out of the
prover's reach); the hypothesis `Served`, a comparison of two constant
tables that are put together with `:>` and `@@`, which the provers do not define and
TLC evaluates completely; what the violating runs refute.

## Not modelled

- *Numerical kernels* (fits, filters, preprocessing, augmentation, random streams):
  what they compute is a matter of floating point and of recorded references; a model
  on integers would be about another program. They are steps that may fail.
- *Component selection and the sweeps of AOM and POP*: a minimum over a table of
  scores, in one pass without state; the tables are numerical. What these kernels
  demand of a plan is in `ValidationFolds`. `cross_validate_component_prefixes` has
  no caller.
- *Variable-selection kernels*: heuristics around `cross_validate_regression`.
  Their contract with it is `CrossValidation`, their inputs and results are in
  `Methods`.
- *The binary format*: byte layout and checksum. Which models go out and come in is
  modelled.
- *`CompositeFilter`*: an owner of other filters; each of them is an operator.
- *Orchestrator*: datasets, sidecars, tolerances and the command-line grammar, as
  said above.
- *Context and configuration, low-level and other bindings, catalog, documentation
  builders, CI*: no state that survives a call, or scripts run once.
