SPECIFICATION Spec
CONSTANTS
  Classes <- MCClasses
  Data <- MCData
  Settings <- MCSettings
INVARIANTS
  TypeOK
  RemembersHandle
  FunctionsAgree
PROPERTIES
  IntervalsMatch
  AxisKept
  ImplementsFittedEstimator
CHECK_DEADLOCK TRUE
