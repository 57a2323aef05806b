SPECIFICATION Spec
CONSTANTS
    Queries = {q1, q2}
    Tasks = {t1}
    strict = strict
    open = open
    kid = kid
    a = a
    b = b
    c = c
    ip = ip
    Names = {a, b, c}
    Addrs = {ip}
    Profiles = {strict, open, kid}
    Filtered = {strict, open}
    Denied <- MCDenied
    Allowed <- MCAllowed
    Rewrite <- MCRewrite
    Requests <- MCRequests
    Listable = {b, ip}
    Answers <- MCAnswers
    MaxGen = 2
INVARIANTS OldAnswersDoomed ServedIsUnblocked
