SPECIFICATION Spec
CONSTANTS
    Backend = "firewalld"
    Rules = {r1}
    Aliased = {}
    Guarded = {}
    Drafts = {d1}
    DraftOps = {"add"}
    Lifetimes = {FALSE}
    Workers = {w1, w2}
    Watchdog = Watchdog
    Cli = Cli
    CatchesTimeout = TRUE
    MaxSessions = 1
    MaxItems = 1
    MaxFaults = 0
    MaxCrashes = 0
    MaxEmergencies = 0
    None = None
PROPERTIES
    SettledIsFinal
CHECK_DEADLOCK FALSE
