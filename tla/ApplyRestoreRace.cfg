SPECIFICATION Spec
CONSTANTS
    Backend = "firewalld"
    Rules = {r1}
    Aliased = {}
    Guarded = {}
    Drafts = {d1, d2}
    DraftOps = {"add", "delete", "restore"}
    Lifetimes = {FALSE}
    Workers = {w1}
    Watchdog = Watchdog
    Cli = Cli
    CatchesTimeout = TRUE
    MaxSessions = 2
    MaxItems = 1
    MaxFaults = 0
    MaxCrashes = 0
    MaxEmergencies = 0
    None = None
PROPERTIES
    FoundIsBack
CHECK_DEADLOCK FALSE
