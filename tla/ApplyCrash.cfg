SPECIFICATION CalmSpec
CONSTANTS
    Backend = "ufw"
    Rules = {r1}
    Aliased = {}
    Guarded = {}
    Drafts = {d1}
    DraftOps = {"add", "delete"}
    Lifetimes = {FALSE}
    Workers = {w1}
    Watchdog = Watchdog
    Cli = Cli
    CatchesTimeout = TRUE
    MaxSessions = 1
    MaxItems = 1
    MaxFaults = 0
    MaxCrashes = 1
    MaxEmergencies = 0
    None = None
INVARIANTS
    NothingUntracked
CHECK_DEADLOCK FALSE
