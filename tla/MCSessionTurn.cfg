SPECIFICATION FairSpec
CONSTANTS
    NoCall = "none"
    Budget = 5
    LargeItem = 1
    PreserveRecent = 2
    Runs = {"r1", "r2"}
    Goals = {"r2"}
    ProviderCalls = {"c1", "c2", "none"}
    Replies <- MCReplies
    Edits = {"c2"}
    ResultSizes = {2}
    Facts = {"f1"}
    NoFact = "no fact"
    Observed <- MCObserved
    MaxSteps = 2
    MaxContinuations = 1
    MaxContext = 3
    Placed <- MCPlaced
    DiffSize <- MCDiffSize
    MaxFaults = 1
INVARIANTS
    AlwaysContinuous
    ThreadTellsTruth
    ContextReachesModel
PROPERTIES
    NothingRunsTwice
    EveryInputReturns
CHECK_DEADLOCK FALSE
