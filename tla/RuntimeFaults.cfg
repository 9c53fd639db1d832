SPECIFICATION Spec
CONSTANTS
    b1 = b1
    b2 = b2
    d1 = d1
    d2 = d2
    h1 = h1
    Stoppers = {}
    Triggers = {h1}
    TriggerBackend <- OnBackend
    TriggerReason <- Reason
    Orphans = {o1}
    Readers = {r1}
    RemoteReaders = {}
    OrphanPolicy = "cancel"
    Backends = {b1, b2}
    Origin = b1
    SafeTargets = {b1, b2}
    MaxMigrations = 1
    MaxChunks = 1
    MaxFaults = 1
    ForceCancels = TRUE
    EarlyTriggers = FALSE
    NoBackend = NoBackend
    NoProc = NoProc
INVARIANTS
    TypeOK
    DoneClosedOnce
    LeasesAccounted
    MirrorsJournal
PROPERTIES
    TerminalFinal
CHECK_DEADLOCK FALSE
