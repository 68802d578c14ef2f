SPECIFICATION FairSpec
CONSTANTS
    b1 = b1
    r1 = r1
    N = 3
    Boardings <- MCBoardings
    Calls <- MCCalls
    Value <- MCValue
    Fee <- MCFee
    BoardingNet = 3
    Dust = 2
    Ceiling = 4
    Cap = 1
    MaxFaults = 1
    FaultSets <- MCFaultSets
INVARIANT FlagHeld
PROPERTIES Renewed BoardingEnds
CHECK_DEADLOCK FALSE
