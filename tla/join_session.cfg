SPECIFICATION FairSpec
CONSTANTS
    MaxBatches = 2
    FaultSets = {{"requeue"}, {"loss", "requeue", "stream"}, {"server", "requeue"}}
INVARIANT ForfeitsAreOurs
INVARIANT OneTreeSigned
PROPERTY JoinEnds
PROPERTY KeepsPromise
CHECK_DEADLOCK FALSE
