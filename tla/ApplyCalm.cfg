SPECIFICATION CalmSpec
CONSTANTS
    Backend = "firewalld"
    Rules = {r1}
    Aliased = {}
    Guarded = {r1}
    Drafts = {d1, d2, d3}
    DraftOps = {"add", "delete", "restore"}
    Lifetimes = {FALSE}
    Workers = {w1}
    Watchdog = Watchdog
    Cli = Cli
    CatchesTimeout = TRUE
    MaxSessions = 3
    MaxItems = 2
    MaxFaults = 1
    MaxCrashes = 0
    MaxEmergencies = 1
    None = None
INVARIANTS
    RuntimeSettled
    PermanentSettled
    NothingLost
PROPERTIES
    ImplementsLifecycle
    RestoredIsBack
CHECK_DEADLOCK FALSE
