SPECIFICATION Spec
CONSTANTS
    v1 = v1
    v2 = v2
    Vtxos = {v1, v2}
    FaultSets = {{"crash", "precheck", "update", "indexer"}, {"crash", "stream", "requeue"}, {"stream", "rpc"}, {"crash", "repo"}, {"loss", "spend", "overlap"}}
    Kinds = {"offchain"}
    MaxAttempts = 2
    MaxRounds = 2
    MaxCrashes = 1
INVARIANT HiddenWhileHeld
INVARIANT NeverDisowned
INVARIANT OutcomesReal
INVARIANT LocksFollowBatch
PROPERTY TerminalSticky
SYMMETRY CoinSymmetry
