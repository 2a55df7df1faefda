CONSTANTS
    Run = "r"
    Buffer = 1
    MaxEmits = 3
    MaxForeign = 1
    MaxFaults = 1

SPECIFICATION FairSpec
PROPERTIES StreamIsFaithful ImplementsContract RemoteRunEnds
CHECK_DEADLOCK FALSE
