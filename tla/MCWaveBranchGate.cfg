SPECIFICATION Spec
CONSTANTS
    MaxWaves = 2
    MaxRefs = 5
    MaxFaults = 2
    MaxUpsets = 1
INVARIANT
    GreenWavesMerge
CHECK_DEADLOCK FALSE
