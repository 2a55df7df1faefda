\* Two instances, batches that claim, compete, repeat and span two streams.
CONSTANTS
    Stores = {a, b}
    s1 = s1
    s2 = s2
    r1 = r1
    r2 = r2
    r3 = r3
    Streams = {s1, s2}
    Ids = {r1, r2, r3}
    Batches <- SomeBatches
    MaxAppendRetries = 2
    KeepsNewest = TRUE
    MaxLog = 3
    MaxCalls = 3
    MaxFirst = 2
SPECIFICATION Spec
INVARIANTS TypeOK ProjectionIsReplay LoadIsFresh AcknowledgedIsStored
PROPERTY ImplementsEventLog
SYMMETRY StoreSymmetry
