CONSTANTS
    Run = "r"
    Buffer = 1
    MaxEmits = 4
    MaxForeign = 0
    MaxFaults = 0

SPECIFICATION FairSpec
INVARIANTS NoSendOnClosed
CHECK_DEADLOCK FALSE
