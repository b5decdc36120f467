SPECIFICATION Spec
CONSTANTS
    Urls = {u1, u2}
    NoPage = NoPage
    SessionLimit = 3
    HistoryLimit = 2
    TabLimit = 3
    MaxEntries = 4
SYMMETRY Symmetry
CONSTRAINT FewEntries
INVARIANTS
    TabOwnsHistory
PROPERTIES
    ImplementsTabbedHistory
