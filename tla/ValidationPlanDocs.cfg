SPECIFICATION Spec
CONSTANTS
  NRows = 4
  SampleCounts <- MCSampleCounts
  Repeats <- MCRepeats
  Counts <- MCCounts
  FoldIds <- MCFoldIds
  Matrices <- MCMatrices
  HandFolds <- MCCarelessFolds
  MaxFolds = 2
INVARIANT
  SemanticChecksRun
CHECK_DEADLOCK TRUE
