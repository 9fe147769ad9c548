SPECIFICATION Spec
CONSTANTS
    r = r
    rz = rz
    zone = zone
    service = service
    Rules = {r, rz}
    Objects = {zone}
    Rank <- MCRank
    Home <- MCHome
    Needs <- MCNeeds
    Temp = {r}
    Drafts = {d1, d2}
    MaxFaults = 1
    MaxCrashes = 1
    None = None
SYMMETRY Symmetry
INVARIANTS
    TypeOK
    DeletedBatchInBin
    SeparableBatchIsWhole
CHECK_DEADLOCK FALSE
