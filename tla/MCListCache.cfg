CONSTANTS
    s1 = s1
    s2 = s2
    Sources = {s1, s2}
    MaxGen = 2
    MaxCycles = 2
    MaxFaults = 2
    MaxStops = 2
    MaxForgets = 1
SPECIFICATION Spec
INVARIANTS CorpusIsWhole
PROPERTY ReclaimsOnlyDead
CHECK_DEADLOCK FALSE
