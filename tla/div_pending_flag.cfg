SPECIFICATION Spec
CONSTANTS
    Coins = {c1, c2}
    Preconfirmed = {c1}
    Young = {c2}
    Ops = {a, b}
    Named = {}
    MaxFaults = 2
    FaultSets = {{"fail"}}
CHECK_DEADLOCK FALSE
INVARIANT FlagOutlives
