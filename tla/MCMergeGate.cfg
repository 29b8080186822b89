SPECIFICATION GateSpec
CONSTANTS
    r1 = r1
    r2 = r2
    GateRuns <- TwoRuns
    MaxStarts = 3
    MaxHands = 1
    MaxCrashes = 1
SYMMETRY Symmetry
INVARIANTS
    GateTypeOK
    PromotedByDecision
    ProductionInStep
    WayOut
    
PROPERTY
    UnresolvedKept
CHECK_DEADLOCK FALSE
