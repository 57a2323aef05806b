CONSTANTS
    u1 = u1
    u2 = u2
    api = api
    dev = dev
    j1 = j1
    j2 = j2
    NoUid = NoUid
    IpcClients <- MCIpcClients
    ApiClients <- MCApiClients
    MutClients <- MCMutClients
    Jobs <- MCTwoJobs
    ActQueue = 1
    MaxVersion = 2
SPECIFICATION FairSpec
INVARIANTS
    NoLostReload
    NoLostWakeup
    ActivationTruthful
PROPERTIES
    AcceptedIsAttempted
    ActivationAnswered
CHECK_DEADLOCK FALSE
