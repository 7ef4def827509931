SPECIFICATION Spec
CONSTANTS
    Cases <- Current
    MaxPods = 3
    MaxFaults = 1
CHECK_DEADLOCK FALSE
VIEW Versionless
INVARIANTS PodsRight  
 
