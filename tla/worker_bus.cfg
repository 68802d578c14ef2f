SPECIFICATION FairSpec
CONSTANTS
    p1 = p1
    p2 = p2
    q1 = q1
    q2 = q2
    Pages <- MCPages
    Requests <- MCRequests
    PageOf <- MCPageOf
    Streams = {q2}
    MaxFaults = 2
    FaultSets <- MCFaultSets
INVARIANT ExecutedOnce
INVARIANT FailsForCause
INVARIANT TicksGoOn
PROPERTY WalletInitialized
PROPERTY RequestsEnd
CHECK_DEADLOCK FALSE
