CONSTANTS
    NMembers = 2
    r1 = r1
    r2 = r2
    old = old
    new = new
    other = other
    hand = hand
    None = None
    Values = {old, new, other, hand}
    Requests = {r1, r2}
    Target <- MCTargetTwo
    Genesis <- MCGenesisTwo
    EditValue = hand
    EditPoints <- MCIdle
    MaxReceipts = 2
    MaxFaults = 1
    MaxEdits = 0
SPECIFICATION Spec
INVARIANTS JournalsDecode
PROPERTIES RefinesAtomic
