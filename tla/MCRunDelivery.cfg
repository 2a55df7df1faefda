CONSTANTS
    Runs = {"r1"}
    Observers = {"o1"}
    Background = "task"
    Publishers <- MCPublishers
    Subs <- MCSubs
    AllSubs = {"o1"}
    Buffer = 1
    MaxEmits = 1
    MaxFaults = 1

SPECIFICATION FairSpec
INVARIANTS LosslessInOrder NoEmitAfterClose
PROPERTIES StreamIsFaithful ImplementsContract EveryRunEnds
CHECK_DEADLOCK FALSE
