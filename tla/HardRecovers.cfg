SPECIFICATION FairSpec
CONSTANTS
    Replicas = {r1, r2}
    Namespaces = {n1}
    Costs = {1}
    NsCeiling = 2
    ClCeiling = 0
    Policies <- Blocks
    Margin = 50
    Window = 1
    MaxNow = 2
    MaxPeriod = 1
    MaxCalls = 3
CHECK_DEADLOCK FALSE
INVARIANTS HardCap
 
