\* One process, one task run whole or with one step, and every task operation.
CONSTANTS
    Workers = {w1}
    Tasks = {t1}
    Steps = {1}
    DependsOn <- Chain
    Outputs = {o1}
    MaxExecs = 2
    RoleOf <- OneRole
    PoolLimit <- Unlimited
    MaxParallel = 1
    MaxAttempts = 1
    HumanSteps = {}
    HumanTasks = {}
    Declarations <- WholeOrSteps
    Requirements <- None
    Operations = {"task_run", "set_status", "reopen", "set_step_status", "reopen_step",
                  "add_step", "remove_step", "add_output", "add_artifact", "complete",
                  "set_enabled"}
    SetStatuses = {"ready", "cancelled", "blocked"}
    FaultKinds = {"crash", "error"}
    LosesIndex = FALSE
    MaxFaults = 0
    MaxStalls = 0
    MaxOps = 2
SPECIFICATION Spec
PROPERTIES StoppedTaskIsFrozen
CHECK_DEADLOCK FALSE
