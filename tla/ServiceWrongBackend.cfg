SPECIFICATION Spec
CONSTANTS
    Installed = {"firewalld", "ufw", "nftables"}
    UfwFirst = TRUE
    Units = {"nftables"}
    SessionIds = {s1, s2}
    MaxFaults = 0
    MaxCrashes = 0
    None = None
SYMMETRY Symmetry
INVARIANTS
    ServiceRollsBack
CHECK_DEADLOCK FALSE
