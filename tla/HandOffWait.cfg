SPECIFICATION FairSpec
CONSTANTS
    MaxPods = 1
    MaxRows = 1
    MaxNudges = 1
CHECK_DEADLOCK FALSE
PROPERTY WaitEnds
