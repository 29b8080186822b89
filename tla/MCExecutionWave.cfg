SPECIFICATION FairSpec
CONSTANTS
    s1 = s1
    s2 = s2
    Stories <- TwoStories
    Earlier <- InOrder
    MaxCycles = 2
    MaxIterations = 2
    CommitsFail = TRUE
    MaxAttempts = 2
INVARIANTS
    MergedIsRecorded
    ProjectIsWhole
    SeenIsInBranch
    
PROPERTY
    WaveEnds
CHECK_DEADLOCK FALSE
