SPECIFICATION SerialSpec
CONSTANTS
    Backend = "ufw"
    Rules = {r1}
    Aliased = {}
    Guarded = {}
    Drafts = {d1, d2}
    DraftOps = {"add", "delete"}
    Lifetimes = {FALSE}
    Workers = {w1}
    Watchdog = Watchdog
    Cli = Cli
    CatchesTimeout = TRUE
    MaxSessions = 2
    MaxItems = 1
    MaxFaults = 0
    MaxCrashes = 0
    MaxEmergencies = 0
    None = None
INVARIANTS
    RuntimeSettled
CHECK_DEADLOCK FALSE
