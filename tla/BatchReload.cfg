SPECIFICATION Spec
CONSTANTS
    r = r
    rz = rz
    zone = zone
    service = service
    Rules = {r, rz}
    Objects = {zone}
    Rank <- MCRank
    Home <- MCHome
    Needs <- MCNeeds
    Temp = {r}
    Drafts = {d1, d2}
    MaxFaults = 0
    MaxCrashes = 0
    None = None
SYMMETRY Symmetry
INVARIANTS
    BatchIsWhole
CHECK_DEADLOCK FALSE
