SPECIFICATION FairSpec
CONSTANTS
    Kinds <- AllKinds
    Tasks = {1, 2}
    MaxStarts = 2
    Threshold = 2
    MaxFaults = 2
    FaultSets = {{"crash", "immature"}, {"slow", "advance"}, {"slow", "early"}, {"stop"}, {"unknown", "fail", "polls"}, {"early", "crash"}}
CHECK_DEADLOCK FALSE
INVARIANT CosignAfterClaim
PROPERTY DropsNoCoins
PROPERTY ClaimDone
PROPERTY RefundDone
PROPERTY SwapEnds
