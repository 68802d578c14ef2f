SPECIFICATION FairSpec
CONSTANTS
    Coins = {c1, c2}
    Preconfirmed = {c1}
    Young = {c2}
    Ops = {a, b, n}
    Named = {n}
    MaxFaults = 2
    FaultSets = {{"crash"}, {"fail", "crash", "recover"}, {"eager", "crash"}, {"lag"}}
CHECK_DEADLOCK FALSE
INVARIANT FlagCovers
INVARIANT NoOwnConflict
PROPERTY Recovered
PROPERTY OpsEnd
