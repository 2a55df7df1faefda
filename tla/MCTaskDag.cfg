\* Two processes, one task with two dependent steps; crashes, store errors
\* and one slow lease holder; no task operation but creation.
CONSTANTS
    Workers = {w1, w2}
    Tasks = {t1}
    Steps = {1, 2}
    DependsOn <- Chain
    Outputs = {o1}
    MaxExecs = 1
    RoleOf <- OneRole
    PoolLimit <- Unlimited
    MaxParallel = 1
    MaxAttempts = 2
    HumanSteps = {}
    HumanTasks = {}
    Declarations <- TwoSteps
    Requirements <- All
    Operations = {}
    SetStatuses = {}
    FaultKinds = {"crash", "error"}
    LosesIndex = TRUE
    MaxFaults = 1
    MaxStalls = 1
    MaxOps = 0
SYMMETRY Symmetry
SPECIFICATION Spec
INVARIANTS AttemptsBounded ClaimedOnce DrivenByOne
PROPERTIES WorkIsKept CompletionIsValid
CHECK_DEADLOCK FALSE
