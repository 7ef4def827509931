SPECIFICATION DSpec
CONSTANTS
    Replicas = {g1}
    Gateway = g1
    Messages = {m1}
    MaxPodWaits = 1
    Attempts = 3
    IdleTimeout = 1
    HibernationDelay = 0
    Window = 1
    Cases = {{}, {"crash"}, {"activator"}, {"timeout"}, {"badReply"}}
    MaxPods = 2
    MaxNow = 3
    MaxEvents = 2
CHECK_DEADLOCK FALSE
INVARIANTS SlotsCounted
PROPERTIES MessageArrives PromiseKept
