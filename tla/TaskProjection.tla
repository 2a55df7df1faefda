--------------------------- MODULE TaskProjection ---------------------------
(***************************************************************************)
(* core/task and runtime/task: the state of a task that is projected from  *)
(* its event stream.  One operator per event gives the state after it, and *)
(* the queries are those the scheduler and the task operations ask.        *)
(*                                                                         *)
(* A map entry that is absent reads as the zero value, as in Go: an        *)
(* execution with status "" and steps with status "".                      *)
(***************************************************************************)
EXTENDS Naturals

CONSTANTS
    Steps,          \* step identifiers, numbered in the order of declaration
    DependsOn,      \* DependsOn[i]: the steps that step i names in depends_on
    Outputs,        \* names of required task outputs
    Workers,        \* worker identifiers that leases are given to
    MaxExecs        \* bound: executions started per task

ASSUME ProjectionAssumption ==
    /\ Steps \subseteq Nat
    /\ DependsOn \in [Steps -> SUBSET Steps]
    /\ MaxExecs \in Nat
    /\ "" \notin Workers

Statuses == {"draft", "ready", "running", "blocked", "completed", "failed",
             "cancelled", "interrupted"}
StepStatuses == {"waiting", "running", "blocked", "skipped", "completed", "failed",
                 "cancelled"}
Terminal(x) == x \in {"completed", "failed", "cancelled"}
StepTerminal(x) == x \in {"completed", "failed", "cancelled", "skipped"}
Waiting(x) == x \in {"waiting", ""}

(* Execution identifiers: none, those made by claims, and the one that     *)
(* manual step changes use when there is no execution.                     *)
NoExecution == 0
Manual == MaxExecs + 1
ExecutionIDs == NoExecution .. Manual

Execution(status, attempt, worker, lease, steps) ==
    [status |-> status, attempt |-> attempt, worker |-> worker, lease |-> lease,
     steps |-> steps]
State(status, current, executions, steps, outputs, artifacts) ==
    [status |-> status, current |-> current, executions |-> executions,
     steps |-> steps, outputs |-> outputs, artifacts |-> artifacts]

Executions == [status : Statuses \union {""}, attempt : Nat,
               worker : Workers \union {""}, lease : {"none", "held", "expired"},
               steps : [Steps -> StepStatuses \union {""}]]
States == [status : Statuses \union {""}, current : ExecutionIDs,
           executions : [ExecutionIDs -> Executions], steps : SUBSET Steps,
           outputs : SUBSET Outputs, artifacts : SUBSET Outputs]

NoSteps == [i \in Steps |-> ""]
ZeroExecution == Execution("", 0, "", "none", NoSteps)
ZeroState == State("", NoExecution, [e \in ExecutionIDs |-> ZeroExecution], {}, {}, {})

-----------------------------------------------------------------------------
(* The parts of Apply.                                                     *)

setStatus(st, x) ==
    State(x, st.current, st.executions, st.steps, st.outputs, st.artifacts)

(* setExecution, after state.CurrentExecution was set to the same one.     *)
setExecution(st, e, exec) ==
    State(st.status, e, [st.executions EXCEPT ![e] = exec], st.steps, st.outputs,
          st.artifacts)

setSteps(exec, steps) ==
    Execution(exec.status, exec.attempt, exec.worker, exec.lease, steps)

(* Declared steps without a status are waiting.                            *)
ensureExecutionSteps(declared, steps) ==
    [i \in Steps |-> IF i \in declared /\ steps[i] = "" THEN "waiting" ELSE steps[i]]

(* state.Executions[id] is an entry of the map.                            *)
known(exec) == exec.attempt > 0 \/ exec.steps # NoSteps

(* One operator per event.                                                 *)

Created(x, declared, outputs) ==
    State(x, NoExecution, ZeroState.executions, declared, outputs, {})

Revised(st, declared, outputs) ==
    State(st.status, st.current,
          [e \in ExecutionIDs |->
             IF known(st.executions[e])
             THEN setSteps(st.executions[e],
                           ensureExecutionSteps(declared, st.executions[e].steps))
             ELSE st.executions[e]],
          declared, outputs, st.artifacts)

StatusChanged(st, x) == setStatus(st, x)

(* Scoped to an execution, an artifact makes that execution current.       *)
ArtifactsAdded(st, e, added) ==
    State(st.status, IF e = NoExecution THEN st.current ELSE e, st.executions, st.steps,
          st.outputs, st.artifacts \union added)

ExecutionStarted(st, e, w) ==
    setStatus(setExecution(st, e,
                Execution("running", st.executions[e].attempt + 1, w, "held",
                          ensureExecutionSteps(st.steps, st.executions[e].steps))),
              "running")

setLease(st, e, w, lease) ==
    LET exec == st.executions[e]
    IN  State(st.status, st.current,
              [st.executions EXCEPT
                 ![e] = Execution(exec.status, exec.attempt, w, lease, exec.steps)],
              st.steps, st.outputs, st.artifacts)

ExecutionLeaseRenewed(st, e, w) ==
    IF st.executions[e].status = "running" THEN setLease(st, e, w, "held") ELSE st

setExecutionStatus(st, e, x) ==
    LET exec == st.executions[e]
    IN  setStatus(setExecution(st, e, Execution(x, exec.attempt, exec.worker, exec.lease,
                                                exec.steps)), x)

ExecutionInterrupted(st, e) == setExecutionStatus(st, e, "interrupted")

(* ExecutionCompleted and ExecutionFailed.                                 *)
applyExecutionTerminal(st, e, x) == setExecutionStatus(st, e, x)

StepDispatched(st, e, i) ==
    LET exec == st.executions[e]
    IN  setExecution(st, e, Execution("running", exec.attempt, exec.worker, exec.lease,
                                      [exec.steps EXCEPT ![i] = "running"]))

(* StepStatusChanged of the steps in I, and the terminal step events.      *)
StepStatusChanged(st, e, I, x) ==
    setExecution(st, e, setSteps(st.executions[e],
                          [i \in Steps |-> IF i \in I THEN x ELSE st.executions[e].steps[i]]))

applyStepTerminal(st, e, I, x) == StepStatusChanged(st, e, I, x)

-----------------------------------------------------------------------------
(* Queries.                                                                *)

CurrentSteps(st) == st.executions[st.current].steps

dependenciesCompleted(i, steps) == \A d \in DependsOn[i] : steps[d] = "completed"

hasBlockedDependency(i, steps) ==
    \E d \in DependsOn[i] : steps[d] \in {"failed", "cancelled", "skipped"}

(* Mutant: the dependencies are not looked at.                             *)
ReadySteps_IgnoresDependencies(st) ==
    {i \in st.steps : st.current # NoExecution /\ Waiting(CurrentSteps(st)[i])}

ReadySteps(st) ==
    {i \in st.steps : /\ st.current # NoExecution
                      /\ Waiting(CurrentSteps(st)[i])
                      /\ dependenciesCompleted(i, CurrentSteps(st))}

AllStepsTerminal(st) ==
    /\ st.current # NoExecution /\ st.steps # {}
    /\ \A i \in st.steps :
          \/ StepTerminal(CurrentSteps(st)[i])
          \/ Waiting(CurrentSteps(st)[i]) /\ hasBlockedDependency(i, CurrentSteps(st))

FailedStepIDs(st) == {i \in st.steps : CurrentSteps(st)[i] = "failed"}

(* The steps CancelWaitingDependents cancels: the least set of waiting     *)
(* steps that holds the dependents of failed steps and of its own members. *)
WaitingDependents(st) ==
    LET waiting == {i \in st.steps : Waiting(CurrentSteps(st)[i])}
        failed  == {i \in Steps : CurrentSteps(st)[i] = "failed"}
        Closed(C) == \A i \in waiting : DependsOn[i] \intersect (failed \union C) # {} => i \in C
    IN  {i \in waiting : \A C \in SUBSET waiting : Closed(C) => i \in C}

(* missingRequiredOutputs: artifacts of every scope count.                 *)
missingRequiredOutputs(st) == st.outputs \ st.artifacts

(* validateCompletion, and validateState of the task operations.           *)
Completable(st) ==
    /\ missingRequiredOutputs(st) = {}
    /\ st.steps # {} => AllStepsTerminal(st)
=============================================================================
