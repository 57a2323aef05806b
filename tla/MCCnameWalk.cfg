SPECIFICATION WalkSpec
CONSTANTS
    Names = {q, a, b, c}
    q = q
    a = a
    b = b
    c = c
    None = None
    Malformed = {c}
    Depths = {0, 1, 3}
    Answers <- MCAnswers
    MAX_HOPS = 2
INVARIANTS AllowedLeadsNowhereBad RefusedForCause
CHECK_DEADLOCK FALSE
