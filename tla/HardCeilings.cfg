SPECIFICATION Spec
CONSTANTS
    Replicas = {r1}
    Namespaces = {n1, n2}
    Costs = {0, 1}
    NsCeiling = 2
    ClCeiling = 3
    Policies <- Blocks
    Margin = 70
    Window = 1
    MaxNow = 1
    MaxPeriod = 2
    MaxCalls = 4
SYMMETRY CallerSymmetry
CHECK_DEADLOCK FALSE
INVARIANTS SlotHasOwner HardCap
