SPECIFICATION FairSpec
CONSTANTS
    Requests = {q1, q2}
    Inputs <- MCInputs
    Registry <- MCRegistry
    Agents <- MCAgents
    Operations = {"read", "write", "grep"}
    HasResolver = TRUE
    MaxParallel = 2
    Default = 4
    FetchBuffer = 0
    Endless = {q1}
    MaxEvents <- MCMaxEvents
INVARIANTS CapacityExact EventsTellRun DelegationHolds
PROPERTIES EveryRequestReturns
CHECK_DEADLOCK FALSE
