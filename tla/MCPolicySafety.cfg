CONSTANTS
    NMembers = 3
    r1 = r1
    r2 = r2
    old = old
    new = new
    other = other
    hand = hand
    None = None
    Values = {old, new, other, hand}
    Requests = {r1}
    Target <- MCTarget
    Genesis <- MCGenesis
    EditValue = hand
    EditPoints <- MCChecked
    MaxReceipts = 1
    MaxFaults = 3
    MaxEdits = 1
SPECIFICATION FairSpec
INVARIANTS OnlyEditsConflict NoOrphans
PROPERTIES EditsSurvive RefinesAtomic FenceClears PendingResolves
