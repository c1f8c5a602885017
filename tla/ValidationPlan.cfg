SPECIFICATION Spec
CONSTANTS
  NRows = 4
  SampleCounts <- MCSampleCounts
  Repeats <- MCRepeats
  Counts <- MCCounts
  FoldIds <- MCFoldIds
  Matrices <- MCMatrices
  HandFolds <- MCHandFolds
  MaxFolds = 2
INVARIANTS
  TypeOK
  FailedPlanUnusable
  GeneratedPartition
  GeneratedComplementary
  BalancedFolds
  RepresentativesSpread
CHECK_DEADLOCK TRUE
