SPECIFICATION Spec
CONSTANTS
  NRows = 3
  Plans <- MCPlans
INVARIANTS
  TypeOK
  LeakFreeResult
  FoldSlices
PROPERTIES
  PartitionNeverRejected
  ImplementsOutOfFold
CHECK_DEADLOCK TRUE
