CONSTANTS
    t1 = t1
    t2 = t2
    t3 = t3
    c1 = c1
    c2 = c2
    None = None
    Calls <- ThreeCalls
    Clients <- TwoClients
SPECIFICATION FairSpec
INVARIANTS
    TypeOK
    SerializedCallsExclude
    LockFollowsCalls
    CachedClientNotClosed
PROPERTY EveryCallReturns
CHECK_DEADLOCK FALSE
