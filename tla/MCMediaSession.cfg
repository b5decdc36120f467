SPECIFICATION FairSpec
CONSTANTS
    MaxAttempts = 2
    MaxCandidates = 1
INVARIANTS
    OpeningInStep
    CheckpointHolds
PROPERTIES
    OpenSettles
    SeekSettles
