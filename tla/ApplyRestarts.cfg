SPECIFICATION FairSpec
CONSTANTS
    Backend = "ufw"
    Rules = {r1}
    Aliased = {}
    Guarded = {r1}
    Drafts = {d1, d2}
    DraftOps = {"delete", "restore"}
    Lifetimes = {TRUE}
    Workers = {w1}
    Watchdog = Watchdog
    Cli = Cli
    CatchesTimeout = TRUE
    MaxSessions = 2
    MaxItems = 1
    MaxFaults = 1
    MaxCrashes = 1
    MaxEmergencies = 0
    None = None
PROPERTIES
    EverySessionSettles
    EveryDueRuleExpires
CHECK_DEADLOCK FALSE
