SPECIFICATION FairSpec
CONSTANTS
    Layouts <- SmallLayouts
    CSV = 2
    MaxFaults = 2
    FaultSets = {{"conflict", "evict", "kill"}, {"reorg", "read"}, {"others", "fees"}}
INVARIANT PlanInOrder
INVARIANT GivenUpForCause
PROPERTY Recovered
