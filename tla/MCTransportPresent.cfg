SPECIFICATION Spec
CONSTANTS
    MaxBytes <- ThreeUnits
    Target <- TwoUnits
    Presenting = TRUE
INVARIANTS
    FreeIsIdle
