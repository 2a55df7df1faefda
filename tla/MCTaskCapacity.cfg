\* One process, two tasks of one role whose pool takes one; a human step and a
\* human task.
CONSTANTS
    Workers = {w1}
    Tasks = {t1, t2}
    Steps = {1, 2}
    DependsOn <- Chain
    Outputs = {}
    MaxExecs = 1
    RoleOf <- OneRole
    PoolLimit <- OneAtATime
    MaxParallel = 2
    MaxAttempts = 2
    HumanSteps = {2}
    HumanTasks = {t2}
    Declarations <- WholeOrAll
    Requirements <- None
    Operations = {}
    SetStatuses = {}
    FaultKinds = {"crash", "error"}
    LosesIndex = FALSE
    MaxFaults = 0
    MaxStalls = 0
    MaxOps = 0
SPECIFICATION FairSpec
INVARIANTS CapacityRespected
PROPERTIES ReadySettles
CHECK_DEADLOCK FALSE
