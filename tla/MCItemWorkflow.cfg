SPECIFICATION FlowSpec
CONSTANTS
    MaxProjects = 2
    MaxResumes = 2
    MaxCrashes = 1
    MaxReplans = 1
INVARIANTS
    CodeIsReviewed
    AutoPromotionIsGreen
    BuildsOnPassed
    ReplannedIsExecuted
    
CHECK_DEADLOCK FALSE
