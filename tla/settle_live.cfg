SPECIFICATION FairSpec
CONSTANTS
    v1 = v1
    v2 = v2
    Vtxos = {v1}
    FaultSets = {{"crash", "precheck", "update"}}
    Kinds = {"offchain"}
    MaxAttempts = 2
    MaxRounds = 2
    MaxCrashes = 1
PROPERTY CommitRecorded
PROPERTY LeftoverResolved
PROPERTY SettleReturns
