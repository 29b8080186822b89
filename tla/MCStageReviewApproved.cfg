SPECIFICATION Spec
CONSTANTS
    q = q
    Questions <- OneQuestion
    MaxReviews = 2
    MaxRounds = 1
    MaxStarts = 2
INVARIANT
    ApprovedIsUsed
CHECK_DEADLOCK FALSE
