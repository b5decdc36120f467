SPECIFICATION FairSpec
CONSTANTS
    page = page
    frame = frame
    Views <- Pair
    Lanes = {l1}
    Capacity <- TwoAndOne
    Pool = 3
    DomainSlots = 2
    Sizes = {2}
    MaxRedirects = 1
    Nobody = Nobody
INVARIANTS
    LedgerIsExact
    LanesAreOwned
    FinishedIsDelivered
    HeldIsQuiet
PROPERTIES
    RequestsEnd
    LanesAreLeases
