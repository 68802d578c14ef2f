SPECIFICATION FairSpec
CONSTANTS
    Outs = {1, 2}
    Expected = 2
    LockTime = 4
    HtlcTime = 4
    Margin = 2
    Lag = 1
    MaxTime = 6
    MaxFaults = 2
    FaultSets = {{"crash", "read", "action", "write"}, {"unable", "crash"}, {"unable", "unprobed", "read"}}
CHECK_DEADLOCK FALSE
INVARIANT ToldIsStored
INVARIANT ReportedOnce
PROPERTY TakesFill
PROPERTY NotForLess
PROPERTY Ends
