SPECIFICATION FairSpec
CONSTANTS
    web = web  chat = chat  yes = yes  no = no
    Surfaces <- TwoSurfaces
    Answers <- TwoAnswers
    Terminals <- AllTerminals
    MaxPrompts = 2
    MaxLines = 1
    MaxClock = 1
INVARIANTS
    ActsOnRecordedAnswer
PROPERTIES
    AnswerArrives
    
CHECK_DEADLOCK FALSE
