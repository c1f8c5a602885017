SPECIFICATION MCSpec
CONSTANTS
  Handles = {h1, h2}
  Callers = {c1, c2}
  Kinds <- AllKinds
  Datasets = {d}
  Widths = {1, 2}
  MaxEntries = 2
SYMMETRY MCSymmetry
INVARIANTS
  TypeOK
  FittedStatesApply
PROPERTIES
  FailedFitForgets
  ImplementsFittedPipeline
CHECK_DEADLOCK TRUE
