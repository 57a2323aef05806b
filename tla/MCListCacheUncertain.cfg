CONSTANTS
    s1 = s1
    s2 = s2
    Sources = {s1, s2}
    MaxGen = 2
    MaxCycles = 1
    MaxFaults = 0
    MaxStops = 1
    MaxForgets = 0
SPECIFICATION Spec
INVARIANT NothingDangles
CHECK_DEADLOCK FALSE
