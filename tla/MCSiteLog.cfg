SPECIFICATION Spec
CONSTANTS
    MaxChanges = 4
    ClearsUnloaded = FALSE
INVARIANTS
    CompleteCopyExists
PROPERTIES
    ImplementsSiteMemory
