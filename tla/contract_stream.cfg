SPECIFICATION FairSpec
CONSTANTS
    s1 = s1
    s2 = s2
    c1 = c1
    c2 = c2
    Scripts = {s1}
    Coins = {c1}
    ScriptOf <- One
    Preconfirmed = {c1}
    Tasks = {0, 1}
    Lag = 0
    Life = 1
    Overlap = 0
    MaxFlight = 0
    MaxTime = 2
    MaxFaults = 2
    FaultSets = {{"crash", "fail", "settles"}, {"break", "settles"}, {"end", "unsubscribed", "settles"}, {"owner", "settles"}}
CHECK_DEADLOCK FALSE
PROPERTY Listens
PROPERTY EndsCurrent
