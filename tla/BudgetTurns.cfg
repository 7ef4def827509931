SPECIFICATION Spec
CONSTANTS
    Pods = {p1, p2}
    Costs = {8}
    MaxPeriod = 2
    MaxUid = 2
    MaxTurns = 1
    MaxCalls = 2
    MaxCrashes = 1
    MaxEnds = 1
    MaxFolds = 1
    Policies = TRUE
    InPlaceRestart = FALSE
CHECK_DEADLOCK FALSE
SYMMETRY PodSymmetry
INVARIANTS   RecreatedStartsClean
