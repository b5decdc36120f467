SPECIFICATION FairSpec
CONSTANTS
    MaxBytes <- ThreeUnits
    Target <- TwoUnits
    Presenting = FALSE
INVARIANTS
    CancelsItsOwn
    EveryByteOnce
PROPERTIES
    LeaseEnds
    ImplementsLease
