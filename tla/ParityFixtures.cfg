CONSTANTS
    Suite <- generate_all
    Families <- MCFamilies
    Touched = {"synthetic_metrics_regression_v1", "synthetic_aom_strict_operators_v1", "synthetic_aom_extended_strict_operators_v1"}
    MaxVersion = 1
SPECIFICATION Spec
INVARIANTS
    TypeOK
    CheckVouches
    RegenerationAgrees
    NamesServed
