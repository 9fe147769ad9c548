SPECIFICATION Spec
CONSTANTS
    r1 = r1
    r2 = r2
    Rules = {r1, r2}
    Home <- AddedAndTemporary
    Temporary = {r2}
    Deleted = {}
    Poller = poller
    Late = {late}
    MaxTrials = 1
    MaxSwitches = 1
    Backends = {"firewalld", "ufw"}
    MaxFaults = 1
    None = None
INVARIANTS TypeOK RightBackend ConfirmedAsAsked OneFailureIsUndone
PROPERTIES EveryRequestEnds
