\* Two processes, one task with two dependent steps; one crash or store error
\* that does not separate a task append from its index append.
CONSTANTS
    Workers = {w1, w2}
    Tasks = {t1}
    Steps = {1, 2}
    DependsOn <- Chain
    Outputs = {}
    MaxExecs = 1
    RoleOf <- OneRole
    PoolLimit <- Unlimited
    MaxParallel = 1
    MaxAttempts = 2
    HumanSteps = {}
    HumanTasks = {}
    Declarations <- TwoSteps
    Requirements <- None
    Operations = {}
    SetStatuses = {}
    FaultKinds = {"crash", "error"}
    LosesIndex = FALSE
    MaxFaults = 1
    MaxStalls = 0
    MaxOps = 0
SPECIFICATION FairSpec
PROPERTIES ReadySettles
CHECK_DEADLOCK FALSE
