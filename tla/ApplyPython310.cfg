SPECIFICATION FairSpec
CONSTANTS
    Backend = "ufw"
    Rules = {r1}
    Aliased = {}
    Guarded = {}
    Drafts = {d1}
    DraftOps = {"add"}
    Lifetimes = {TRUE}
    Workers = {w1}
    Watchdog = Watchdog
    Cli = Cli
    CatchesTimeout = FALSE
    MaxSessions = 1
    MaxItems = 1
    MaxFaults = 0
    MaxCrashes = 0
    MaxEmergencies = 0
    None = None
PROPERTIES
    EverySessionSettles
CHECK_DEADLOCK FALSE
