SPECIFICATION Spec
CONSTANTS
    q1 = q1
    q2 = q2
    Requests = {q1, q2}
    Ids <- FewIds
    JournalTTL = 2
    PendingTTL = 1
    WireTTL = 1
    MaxFaults = 0
    None = None
INVARIANTS
    PendingShort
CHECK_DEADLOCK FALSE
