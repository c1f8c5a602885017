SPECIFICATION Spec
CONSTANTS
  Classes <- MCAlignments
  Data <- MCData
  Settings <- MCSettings
PROPERTIES
  RefitReplaces
CHECK_DEADLOCK TRUE
