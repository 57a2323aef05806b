SPECIFICATION FairSpec
CONSTANTS
    r1 = r1
    r2 = r2
    r3 = r3
    Requests = {r1, r2, r3}
    Commands <- MCCommands
    NoRequest = NoRequest
    ShardCount = 2
    MaxScheduled = 1
    MaxRejected = 1
    MaxPanics = 1
INVARIANTS CancelledLeavesCorpus CompletedIsNotCancelled RebindBarrier RetiredIsQuiet NobodyStranded
PROPERTIES AnsweredAfterwards ForgetsComeFirst Retires Settles
CHECK_DEADLOCK FALSE
