SPECIFICATION FairSpec
CONSTANTS
    MaxWaves = 2
    MaxRefs = 5
    MaxFaults = 2
    MaxUpsets = 1
INVARIANTS
    OwnBranch
    
    
PROPERTIES
    DiagnosisKept
    
CHECK_DEADLOCK FALSE
