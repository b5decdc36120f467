SPECIFICATION SupervisorSpec
CONSTANTS
    Profiles <- MCProfiles
    MaxLeases = 2
INVARIANTS
    MachineIsConsistent
    TeardownHasRelease
PROPERTIES
    WedgeNeedsRelease
    ImplementsCustody
