SPECIFICATION Spec
CONSTANTS
    Installed = {"firewalld", "ufw", "nftables"}
    UfwFirst = TRUE
    Units = {"nftables"}
    SessionIds = {s1, s2}
    MaxFaults = 1
    MaxCrashes = 1
    None = None
SYMMETRY Symmetry
INVARIANTS
    TypeOK
    DetectedRollsBack
PROPERTIES
    NoSecondStarted
CHECK_DEADLOCK FALSE
