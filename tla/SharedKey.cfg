SPECIFICATION Spec
CONSTANTS
    q1 = q1
    q2 = q2
    Requests = {q1, q2}
    Ids <- FewIds
    JournalTTL = 3
    PendingTTL = 2
    WireTTL = 1
    MaxFaults = 1
    None = None
INVARIANTS
    KeyNamesStream
PROPERTIES
    WinnerKept
    KeyNeverPoisoned
CHECK_DEADLOCK FALSE
