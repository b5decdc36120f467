SPECIFICATION FairSpec
CONSTANTS
    Profiles <- MCProfiles
    Profile = 1
    Activities = {"Voice", "Sleep", "Exit"}
    MaxLeases = 1
    Slots <- OneSlot
    s1 = s1
    s2 = s2
CHECK_DEADLOCK FALSE
PROPERTIES
    DemandOutlivesStop
    BlockingCallsReturn
    RecoveryNeedsNoUser
