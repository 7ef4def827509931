SPECIFICATION FairSpec
CONSTANTS
    Cases <- Lagging
    MaxPods = 1
    MaxFaults = 1
CHECK_DEADLOCK FALSE
PROPERTIES SettledStays Settles
