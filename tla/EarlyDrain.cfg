SPECIFICATION FairSpec
CONSTANTS
    b1 = b1
    b2 = b2
    d1 = d1
    d2 = d2
    h1 = h1
    Stoppers = {}
    Triggers = {d1}
    TriggerBackend <- OnBackend
    TriggerReason <- Reason
    Orphans = {}
    Readers = {}
    RemoteReaders = {}
    OrphanPolicy = "continue"
    Backends = {b1, b2}
    Origin = b1
    SafeTargets = {b1, b2}
    MaxMigrations = 1
    MaxChunks = 1
    MaxFaults = 0
    ForceCancels = FALSE
    EarlyTriggers = TRUE
    NoBackend = NoBackend
    NoProc = NoProc
PROPERTIES
    DrainCompletes
CHECK_DEADLOCK FALSE
