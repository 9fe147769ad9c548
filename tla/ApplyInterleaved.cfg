SPECIFICATION Spec
CONSTANTS
    Backend = "firewalld"
    Rules = {r1}
    Aliased = {}
    Guarded = {}
    Drafts = {d1}
    DraftOps = {"add", "delete", "update"}
    Lifetimes = {TRUE, FALSE}
    Workers = {w1, w2}
    Watchdog = Watchdog
    Cli = Cli
    CatchesTimeout = TRUE
    MaxSessions = 2
    MaxItems = 2
    MaxFaults = 0
    MaxCrashes = 1
    MaxEmergencies = 0
    None = None
SYMMETRY Symmetry
INVARIANTS
    TypeOK
    ConfirmedDeleteInBin
    DeletionsKept
PROPERTIES
    LapsedStaysLapsed
CHECK_DEADLOCK FALSE
