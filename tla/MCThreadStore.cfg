CONSTANTS
    Callers = {c1, c2}
    Streams <- MCStreams
    Ids <- MCIds
    Batches <- MCBatches
    SqliteAttempts = 2
    MaxFaults = 1
    Threads = {t1, t2}
    Index = index
    Main = "main"
    Alt = "alt"
    ThreadRetries = 4
    BatchSize = 1
    Kinds = {"create", "append", "fork", "archive", "unarchive", "list", "project"}
    MaxCalls = 3

SYMMETRY MCSymmetry
SPECIFICATION Spec
INVARIANTS CallsTellTruth IndexAgrees ReadsAreComplete
PROPERTIES HistoryIsStable ImplementsEventLog
CHECK_DEADLOCK FALSE
