SPECIFICATION Spec
CONSTANTS
    Zones = {"z1", "z2"}
    Words <- MCWords
    Starts <- MCStarts
    Written <- MCWritten
    MaxTrials = 2
    MaxDefaults = 1
INVARIANTS TypeOK NoSharedIds InStep
PROPERTIES TrialActsOnListed
CHECK_DEADLOCK FALSE
