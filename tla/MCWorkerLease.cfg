SPECIFICATION Spec
CONSTANTS
    a1 = a1  a2 = a2  c1 = c1
    w1 = w1  w2 = w2  w3 = w3
    Api <- MCApi
    Cli <- MCCli
    Importers <- MCCli
    Workers <- MCWorkers
    home <- MCHome
    Interval = 1
    StaleAfter = 3
    FailureLimit = 2
    ReplanWindow = 2
    MaxClock = 4
INVARIANTS
    PunctualOwnerFresh
    DisplacedStopsSoon
    
CHECK_DEADLOCK FALSE
