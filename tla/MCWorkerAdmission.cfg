SPECIFICATION FairSpec
CONSTANTS
    a = a  c = c
    f1 = f1  f2 = f2  s1 = s1  s2 = s2
    r1 = r1  r2 = r2  r3 = r3
    Processes <- MCProcesses
    Api <- MCApi
    Requests <- MCRequests
    Fresh <- MCFresh
    Runs <- MCRuns
    proc <- MCProc
    run <- MCRun
    Cap = 1
INVARIANTS
    FreshWithinCap
    FreshKeepsItsStart
PROPERTY
    FreshStarts
CHECK_DEADLOCK FALSE
