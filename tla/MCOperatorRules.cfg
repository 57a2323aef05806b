SPECIFICATION Spec
CONSTANTS
    com = com
    a = a
    xa = xa
    b = b
    Domains = {com, a, xa, b}
    Up <- MCUp
    Length <- MCLength
    N = 3
    Rules <- MCRules
    Externals = {"None", "Deny"}
INVARIANTS LookupFindsBest VerdictByTiers
