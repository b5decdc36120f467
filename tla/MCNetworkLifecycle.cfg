SPECIFICATION Spec
CONSTANTS
    Profiles <- MCProfiles
    Profile = 1
    Activities <- AllActivities
    MaxLeases = 2
    Slots <- TwoSlots
    s1 = s1
    s2 = s2
CHECK_DEADLOCK FALSE
INVARIANTS
    BeliefIsTrue
    TransferOwnsStack
    ForegroundLadderIsOwned
    QuiesceCoversAll
