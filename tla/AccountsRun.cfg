SPECIFICATION Spec
CONSTANTS
    Threads = {t1, t2}
    Commands = {boot}
    Gens = {g1, g2}
    Codes = {c1}
    Cookies = {k1, k2}
    Rows = {r1, r2, r3}
    Limit = 1
    Window = 1
    Lifetime = 1
    Idle = 1
    Absolute = 2
    MaxTime = 3
    MaxCrashes = 1
    None = None
SYMMETRY Symmetry
INVARIANTS
    TypeOK
    OneSessionPerCode
    FailuresBounded
    SecretWasShown
    TokenWorks
PROPERTIES
    SetupOnce
    EndedStaysEnded
    LetThroughInTime
CHECK_DEADLOCK FALSE
