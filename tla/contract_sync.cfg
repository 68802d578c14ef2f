SPECIFICATION Spec
CONSTANTS
    s1 = s1
    s2 = s2
    c1 = c1
    c2 = c2
    Scripts = {s1, s2}
    Coins = {c1}
    ScriptOf <- One
    Preconfirmed = {c1}
    Tasks = {0, 1, 2}
    Lag = 1
    Life = 1
    Overlap = 0
    MaxFlight = 1
    MaxTime = 4
    MaxFaults = 1
    FaultSets = {{"nosource", "crash"}, {"nosource", "fail"}}
CHECK_DEADLOCK FALSE
INVARIANT InWindow
