SPECIFICATION Spec
CONSTANTS
  Estimators = {e1, e2}
  Classes <- MCClasses
  Data <- MCData
  Settings <- MCSettings
SYMMETRY Objects
INVARIANTS
  TypeOK
  OneFit
  BundleRebuilds
  KeysAgree
  DefaultPlanPartitions
PROPERTIES
  FailedFitChangesNothing
  ImplementsFittedEstimator
CHECK_DEADLOCK TRUE
