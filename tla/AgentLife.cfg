SPECIFICATION Spec
CONSTANTS
    Replicas = {g1}
    IdleTimeout = 2
    HibernationDelay = 0
    Window = 1
    Cases <- LifeCases
    MaxPods = 2
    MaxNow = 4
    MaxEvents = 2
VIEW Current
CHECK_DEADLOCK FALSE
INVARIANTS PodsInStep
PROPERTIES  PhaseKept
