SPECIFICATION Spec
CONSTANTS
    b1 = b1
    b2 = b2
    d1 = d1
    d2 = d2
    h1 = h1
    Stoppers = {s1}
    Triggers = {}
    TriggerBackend <- OnBackend
    TriggerReason <- Reason
    Orphans = {o1, o2}
    Readers = {r1}
    RemoteReaders = {q1}
    OrphanPolicy = "cancel_after"
    Backends = {b1}
    Origin = b1
    SafeTargets = {b1}
    MaxMigrations = 1
    MaxChunks = 1
    MaxFaults = 1
    ForceCancels = FALSE
    EarlyTriggers = FALSE
    NoBackend = NoBackend
    NoProc = NoProc
INVARIANTS
    OrphanHasNoReaders
CHECK_DEADLOCK FALSE
