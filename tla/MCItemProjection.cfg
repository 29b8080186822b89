SPECIFICATION Spec
CONSTANTS
    r1 = r1  r2 = r2
    w1 = w1  w2 = w2  w3 = w3
    Runs <- MCRuns
    Workers <- MCWorkers
    run <- MCRun
    StageKeys <- OneStage
INVARIANTS
    StageHasOwner
PROPERTY SideRunsKeepOut
SYMMETRY MCSymmetry
CHECK_DEADLOCK FALSE
