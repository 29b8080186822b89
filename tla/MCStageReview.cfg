SPECIFICATION FairSpec
CONSTANTS
    q = q
    Questions <- OneQuestion
    MaxReviews = 2
    MaxRounds = 3
    MaxStarts = 2
INVARIANTS
    GateShowsDisk
    
    AnsweredOnce
PROPERTY
    StageEnds
CHECK_DEADLOCK FALSE
