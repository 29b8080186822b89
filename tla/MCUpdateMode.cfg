SPECIFICATION FairSpec
CONSTANTS
    a = a
    b = b
    Ops = {a, b}
    Plans <- MCPlans
    MaxFaults = 1
INVARIANTS
    OneInstaller
    RolledBackIsGone
    KeyRunsOnce
PROPERTIES
    LockIsFreed
CHECK_DEADLOCK FALSE
