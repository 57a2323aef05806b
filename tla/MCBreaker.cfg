SPECIFICATION FairSpec
CONSTANTS
    Queries = {q1, q2}
    Threshold = 1
    ProbeInterval = 2
INVARIANTS HalfOpenOwned FailuresCapped
PROPERTIES Recovers Trips
