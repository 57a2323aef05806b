SPECIFICATION FairSpec
CONSTANTS
    None = None
    a = a
    b = b
    r1 = r1
    pack = pack
    tomlA = tomlA
    tomlB = tomlB
    Revs = {a, b}
    FirstRev = a
    Objects <- MCObjects
    Requests = {r1}
    Target <- MCTarget
    Availability = 1
    MaxEpoch = 7
    LastBatch = 3
    MaxClock = 1
    MaxFaults = 2
    MaxEdits = 1
INVARIANTS NodeNeverAhead PublishedWasPolicy PromiseKept ConvergedTruthful
PROPERTY Converges
CHECK_DEADLOCK FALSE
