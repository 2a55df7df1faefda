--------------------------- MODULE TaskScheduler ----------------------------
(***************************************************************************)
(* orchestration/taskexecutor over runtime/task: scheduler processes claim *)
(* ready tasks, drive their steps through workers and record everything as *)
(* events of the task's stream.  A second stream, the index, holds the     *)
(* latest summary of each task; it is written after the task's stream and  *)
(* is what Tick scans and what wakes a scheduler.  Sessions of the same    *)
(* processes modify tasks with the task operations.                        *)
(*                                                                         *)
(* An append with an expected sequence that succeeds is an atomic read of  *)
(* the stream and a write, so each use of withExpectedRetry, and each      *)
(* modify call, is one action; claim, which gives up on a conflict, is a   *)
(* read and an append.  Leases are held or expired.                        *)
(***************************************************************************)
EXTENDS TaskProjection, FiniteSets

CONSTANTS
    Tasks,
    RoleOf, PoolLimit,  \* role of each task; WorkerPoolConfig.MaxParallel of each role
    MaxParallel, MaxAttempts,   \* Config.MaxParallel, Config.MaxAttempts
    HumanSteps, HumanTasks,     \* steps, and tasks, assigned to a human
    Declarations,   \* the step sets a task may be created with
    Requirements,   \* the required outputs a task may be created with
    Operations,     \* the task operations that sessions call
    SetStatuses,    \* the statuses set_status and reopen are called with
    FaultKinds,     \* "crash": a process stops; "error": a store call fails
    LosesIndex,     \* TRUE: a fault may separate a task append from its index append
    MaxFaults,      \* bound: crashes of processes and store errors
    MaxStalls,      \* bound: leases that expire although their holder still runs
    MaxOps          \* bound: calls of task operations

Schedulers == Workers

VARIABLES
    task,       \* task[t]: the projection of the stream of t
    latest,     \* latest[t]: schedulers at whose claim the stream of t still ends
    index,      \* index[t]: the status in the latest summary of t
    summary,    \* summary[s][t][k]: the index append that actor k of s owes for t
    up, enabled,    \* the process of s runs; its automatic scheduling is enabled
    run,        \* run[s][t]: the goroutine of s that drives t
    faults, stalls, ops     \* counters of the bounds

vars == <<task, latest, index, summary, up, enabled, run, faults, stalls, ops>>

ASSUME SchedulerAssumption ==
    /\ MaxParallel \in Nat \ {0} /\ MaxAttempts \in Nat \ {0}
    /\ IsFiniteSet(Tasks) /\ \A t \in Tasks : PoolLimit[RoleOf[t]] \in Nat
    /\ Declarations \subseteq SUBSET Steps /\ Requirements \subseteq SUBSET Outputs
    /\ SetStatuses \subseteq Statuses
    /\ MaxFaults \in Nat /\ MaxStalls \in Nat /\ MaxOps \in Nat
    /\ \A D \in Declarations, i \in Steps : i \in D => DependsOn[i] \subseteq D

(* Who owes an index append: the driving goroutine, the heartbeat of its   *)
(* worker call, the tick loop, a session that creates or modifies, one     *)
(* that calls task_run, a diagnostic of NotifyTaskReady.                   *)
Kinds == {"run", "beat", "tick", "user", "task_run", "note"}

(* What is left of the call of k after its index append and notification.  *)
Rest(k) == IF k = "task_run" THEN "submit" ELSE "none"

(* Where a driving goroutine stands.  In "whole", "work" and "finalize" a  *)
(* worker runs.                                                            *)
Labels == {"idle", "claim", "append", "open", "whole", "validate", "loop", "cancel",
           "steps", "work", "finalize", "finalizeFail", "fail", "complete", "block"}
WorkLabels == {"whole", "work", "finalize"}

(* exec is the execution the goroutine read last, todo the steps of the    *)
(* pass, outs the outputs its worker is asked for; claimed and attempt     *)
(* (auxiliary) are what the claim wrote.                                   *)
Run(pc, exec, todo, outs, claimed, attempt) ==
    [pc |-> pc, exec |-> exec, todo |-> todo, outs |-> outs, claimed |-> claimed,
     attempt |-> attempt]
Runs == [pc : Labels, exec : ExecutionIDs, todo : SUBSET Steps, outs : SUBSET Outputs,
         claimed : ExecutionIDs, attempt : Nat]
Idle == Run("idle", NoExecution, {}, {}, NoExecution, 0)
AtClaim == Run("claim", NoExecution, {}, {}, NoExecution, 0)

Init ==
    /\ task = [t \in Tasks |-> ZeroState]
    /\ latest = [t \in Tasks |-> {}]
    /\ index = [t \in Tasks |-> ""]
    /\ summary = [s \in Schedulers |-> [t \in Tasks |-> [k \in Kinds |-> "none"]]]
    /\ up = [s \in Schedulers |-> TRUE]
    /\ enabled = [s \in Schedulers |-> TRUE]
    /\ run = [s \in Schedulers |-> [t \in Tasks |-> Idle]]
    /\ faults = 0 /\ stalls = 0 /\ ops = 0

-----------------------------------------------------------------------------
(* Appends to the stream of a task.                                        *)

Write(t, st) ==
    /\ task' = [task EXCEPT ![t] = st]
    /\ latest' = [latest EXCEPT ![t] = {}]

(* appendSchedulerDiagnostic: the projection keeps its lifecycle state.    *)
Diagnostic(t) == UNCHANGED task /\ latest' = [latest EXCEPT ![t] = {}]

NoWrite == UNCHANGED <<task, latest>>

Owe(s, t, k, x) == summary' = [summary EXCEPT ![s][t][k] = x]
OweNothing == UNCHANGED summary

Goto(s, t, r) == run' = [run EXCEPT ![s][t] = r]
Jump(s, t, pc) == LET r == run[s][t]
                  IN  Goto(s, t, Run(pc, r.exec, r.todo, r.outs, r.claimed, r.attempt))

(* The goroutine of s for t is at pc and owes no index append.             *)
At(s, t, pc) == run[s][t].pc = pc /\ summary[s][t]["run"] = "none"

(* The check every append of a driving goroutine repeats on the state it   *)
(* appends to: the task runs, in the execution the goroutine read.         *)
StillRunning(st, e) ==
    st.status = "running" /\ st.current = e /\ st.executions[e].status = "running"

-----------------------------------------------------------------------------
(* Starting a run.                                                         *)

(* isRunning: the running map of the scheduler.                            *)
isRunning(s, t) == run[s][t].pc # "idle" \/ summary[s][t]["run"] # "none"
Running(s) == {t \in Tasks : isRunning(s, t)}
capacity(s) == Cardinality(Running(s)) < MaxParallel

(* Mutant: the pool of the role is not looked at.                          *)
reserve_IgnoresPool(s, t) == capacity(s) /\ ~isRunning(s, t)

reserve(s, t) ==
    /\ capacity(s)
    /\ ~isRunning(s, t)
    /\ PoolLimit[RoleOf[t]] > 0 =>
          Cardinality({u \in Running(s) : RoleOf[u] = RoleOf[t]}) < PoolLimit[RoleOf[t]]

Ticking(s) == up[s] /\ enabled[s] /\ \A t \in Tasks : summary[s][t]["tick"] = "none"

(* Tick: a task whose summary is ready.                                    *)
TickReady(s, t) ==
    /\ Ticking(s) /\ index[t] = "ready" /\ reserve(s, t)
    /\ Goto(s, t, AtClaim)
    /\ UNCHANGED <<task, latest, index, summary, up, enabled, faults, stalls, ops>>

(* submitTask, called by the task_run operation; without a watcher to      *)
(* record it is the first thing the operation does.                        *)
SubmitTask(s, t) ==
    /\ "task_run" \in Operations
    /\ up[s] /\ summary[s][t]["task_run"] \in {"none", "submit"}
    /\ \/ task[t].status = "ready" /\ reserve(s, t) /\ Goto(s, t, AtClaim)
       \/ /\ summary[s][t]["task_run"] = "submit"
          /\ ~(task[t].status = "ready" /\ reserve(s, t))
          /\ UNCHANGED run
    /\ Owe(s, t, "task_run", "none")
    /\ UNCHANGED <<task, latest, index, up, enabled, faults, stalls, ops>>

(* NotifyTaskReady, called while a session appends a ready summary: it     *)
(* submits the task, or records why a ready task waits.                    *)
NotifyTaskReady(s, t, k) ==
    /\ summary[s][t][k] = "notify"
    /\ \/ /\ enabled[s] /\ task[t].status = "ready" /\ reserve(s, t)
          /\ Goto(s, t, AtClaim) /\ NoWrite /\ Owe(s, t, k, Rest(k))
       \/ /\ enabled[s] /\ (task[t].status # "ready" \/ isRunning(s, t))
          /\ NoWrite /\ Owe(s, t, k, Rest(k)) /\ UNCHANGED run
       \/ /\ enabled[s] => task[t].status = "ready" /\ ~reserve(s, t) /\ ~isRunning(s, t)
          /\ summary[s][t]["note"] = "none"
          /\ Diagnostic(t) /\ UNCHANGED run
          /\ summary' = [summary EXCEPT ![s][t][k] = Rest(k), ![s][t]["note"] = "project"]
    /\ UNCHANGED <<index, up, enabled, faults, stalls, ops>>

(* claim, first part: the read.  An interrupted execution is resumed, an   *)
(* active one is not touched.                                              *)
claimable(st) == st.status = "ready" /\ st.executions[st.current].status # "running"

ClaimRead(s, t) ==
    /\ At(s, t, "claim")
    /\ \/ /\ claimable(task[t])
          /\ Jump(s, t, "append") /\ latest' = [latest EXCEPT ![t] = @ \union {s}]
       \/ ~claimable(task[t]) /\ Goto(s, t, Idle) /\ UNCHANGED latest
    /\ UNCHANGED <<task, index, summary, up, enabled, faults, stalls, ops>>

FreshExecutions(st) ==
    {e \in 1 .. MaxExecs : /\ st.executions[e].attempt = 0
                           /\ \A d \in 1 .. MaxExecs : d < e => st.executions[d].attempt > 0}

ClaimTargets(st) == IF st.executions[st.current].status = "interrupted" THEN {st.current}
                    ELSE FreshExecutions(st)

(* Mutant: a conflict is taken for the success of an earlier try.          *)
ClaimAppend_ConflictIsSuccess(s, t) ==
    /\ At(s, t, "append")
    /\ \/ /\ s \notin latest[t]
          /\ Goto(s, t, Run("open", NoExecution, {}, {}, task[t].current,
                            task[t].executions[task[t].current].attempt))
          /\ NoWrite /\ OweNothing
       \/ /\ s \in latest[t]
          /\ \E e \in ClaimTargets(task[t]) :
                /\ Write(t, ExecutionStarted(task[t], e, s))
                /\ Owe(s, t, "run", "project")
                /\ Goto(s, t, Run("open", NoExecution, {}, {}, e,
                                  task[t].executions[e].attempt + 1))
    /\ UNCHANGED <<index, up, enabled, faults, stalls, ops>>

(* claim, second part: the append with the expected sequence.              *)
ClaimAppend(s, t) ==
    /\ At(s, t, "append")
    /\ \/ /\ s \notin latest[t]
          /\ Goto(s, t, Idle) /\ NoWrite /\ OweNothing
       \/ /\ s \in latest[t]
          /\ \E e \in ClaimTargets(task[t]) :
                /\ Write(t, ExecutionStarted(task[t], e, s))
                /\ Owe(s, t, "run", "project")
                /\ Goto(s, t, Run("open", NoExecution, {}, {}, e,
                                  task[t].executions[e].attempt + 1))
    /\ UNCHANGED <<index, up, enabled, faults, stalls, ops>>

-----------------------------------------------------------------------------
(* Driving a claimed task.                                                 *)

Sees(s, t, pc, todo, outs) ==
    Goto(s, t, Run(pc, task[t].current, todo, outs, run[s][t].claimed, run[s][t].attempt))

(* RunTask after the claim, and runWholeTask up to the worker call.        *)
OpenTask(s, t) ==
    /\ At(s, t, "open")
    /\ \/ task[t].steps # {} /\ Sees(s, t, "loop", {}, {})
       \/ task[t].steps = {} /\ t \in HumanTasks /\ Sees(s, t, "block", {}, {})
       \/ task[t].steps = {} /\ t \notin HumanTasks /\ Sees(s, t, "whole", {}, task[t].outputs)
    /\ UNCHANGED <<task, latest, index, summary, up, enabled, faults, stalls, ops>>

(* The heartbeat ends with the worker call: an index append it still owes  *)
(* is abandoned.                                                           *)
OweAfterWork(s, t, x) ==
    summary' = [summary EXCEPT ![s][t] = [k \in Kinds |-> IF k = "run" THEN x
                                                          ELSE IF k = "beat" THEN "none"
                                                          ELSE summary[s][t][k]]]

(* The worker of a whole task returns; A are the artifacts it produced.    *)
(* Outputs it was asked for are bound to its result.                       *)
WholeTaskReturns(s, t, A) ==
    LET e == run[s][t].exec
        artifacts == A \union run[s][t].outs
    IN
    /\ At(s, t, "whole")
    /\ \/ Jump(s, t, "fail") /\ NoWrite /\ OweAfterWork(s, t, "none")
       \/ /\ artifacts = {}
          /\ Jump(s, t, "validate") /\ NoWrite /\ OweAfterWork(s, t, "none")
       \/ /\ artifacts # {} /\ StillRunning(task[t], e)
          /\ Write(t, ArtifactsAdded(task[t], e, artifacts))
          /\ Jump(s, t, "validate") /\ OweAfterWork(s, t, "project")
       \/ /\ artifacts # {} /\ ~StillRunning(task[t], e)
          /\ Diagnostic(t) /\ Goto(s, t, Idle) /\ OweAfterWork(s, t, "project")
    /\ UNCHANGED <<index, up, enabled, faults, stalls, ops>>

ValidateWholeTask(s, t) ==
    /\ At(s, t, "validate")
    /\ Jump(s, t, IF Completable(task[t]) THEN "complete" ELSE "block")
    /\ UNCHANGED <<task, latest, index, summary, up, enabled, faults, stalls, ops>>

(* One iteration of runStepDAG: what to do is decided on the state read    *)
(* here, and done later.                                                   *)
Loop(s, t) ==
    LET st == task[t]
        failed == FailedStepIDs(st) # {}
        done == AllStepsTerminal(st)
    IN
    /\ At(s, t, "loop")
    /\ \/ failed /\ WaitingDependents(st) # {} /\ Sees(s, t, "cancel", WaitingDependents(st), {})
       \/ failed /\ WaitingDependents(st) = {} /\ Sees(s, t, "fail", {}, {})
       \/ ~failed /\ done /\ Completable(st) /\ Sees(s, t, "complete", {}, {})
       \/ ~failed /\ done /\ ~Completable(st) /\ t \in HumanTasks /\ Sees(s, t, "block", {}, {})
       \/ ~failed /\ ~done /\ ReadySteps(st) = {} /\ Sees(s, t, "fail", {}, {})
       \/ ~failed /\ ~done /\ ReadySteps(st) # {} /\ Sees(s, t, "steps", ReadySteps(st), {})
    /\ UNCHANGED <<task, latest, index, summary, up, enabled, faults, stalls, ops>>

(* The iteration that finds only required outputs missing: a diagnostic,   *)
(* then the finalizer's worker call.                                       *)
Finalize(s, t) ==
    LET st == task[t] IN
    /\ At(s, t, "loop") /\ t \notin HumanTasks
    /\ FailedStepIDs(st) = {} /\ AllStepsTerminal(st) /\ ~Completable(st)
    /\ Diagnostic(t) /\ Owe(s, t, "run", "project")
    /\ Sees(s, t, "finalize", {}, missingRequiredOutputs(st))
    /\ UNCHANGED <<index, up, enabled, faults, stalls, ops>>

(* cancelWaitingDependents: the steps found at the read are cancelled.     *)
CancelDependents(s, t) ==
    LET e == run[s][t].exec IN
    /\ At(s, t, "cancel")
    /\ \/ /\ StillRunning(task[t], e)
          /\ Write(t, applyStepTerminal(task[t], e, run[s][t].todo, "cancelled"))
          /\ Owe(s, t, "run", "project")
       \/ ~StillRunning(task[t], e) /\ NoWrite /\ OweNothing
    /\ Jump(s, t, "fail")
    /\ UNCHANGED <<index, up, enabled, faults, stalls, ops>>

Next1(todo) == CHOOSE i \in todo : \A j \in todo : i <= j
(* Mutant: the pass does not advance.                                      *)
Skip_KeepsStep(s, t) == Jump(s, t, "steps")

Skip(s, t) == LET r == run[s][t]
              IN  Goto(s, t, Run("steps", r.exec, r.todo \ {Next1(r.todo)}, r.outs,
                                 r.claimed, r.attempt))

PassEnds(s, t) ==
    /\ At(s, t, "steps") /\ run[s][t].todo = {}
    /\ Jump(s, t, "loop")
    /\ UNCHANGED <<task, latest, index, summary, up, enabled, faults, stalls, ops>>

(* blockStep: the run ends whether or not the step could be blocked.       *)
BlockStep(s, t) ==
    LET e == run[s][t].exec
        i == Next1(run[s][t].todo)
        can == StillRunning(task[t], e) /\ task[t].executions[e].steps[i] = "waiting"
    IN
    /\ At(s, t, "steps") /\ run[s][t].todo # {} /\ i \in HumanSteps
    /\ \/ /\ can
          /\ Write(t, StatusChanged(ExecutionInterrupted(
                        StepStatusChanged(task[t], e, {i}, "blocked"), e), "blocked"))
          /\ Owe(s, t, "run", "project")
       \/ ~can /\ NoWrite /\ OweNothing
    /\ Goto(s, t, Idle)
    /\ UNCHANGED <<index, up, enabled, faults, stalls, ops>>

(* appendStepDispatch, then the worker call; a step that is not waiting    *)
(* any more is passed over.                                                *)
DispatchStep(s, t) ==
    LET e == run[s][t].exec
        i == Next1(run[s][t].todo)
        can == StillRunning(task[t], e) /\ task[t].executions[e].steps[i] = "waiting"
    IN
    /\ At(s, t, "steps") /\ run[s][t].todo # {} /\ i \notin HumanSteps
    /\ \/ /\ can
          /\ Write(t, StepDispatched(task[t], e, i)) /\ Owe(s, t, "run", "project")
          /\ Jump(s, t, "work")
       \/ ~can /\ NoWrite /\ OweNothing /\ Skip(s, t)
    /\ UNCHANGED <<index, up, enabled, faults, stalls, ops>>

(* Mutant: only the step is checked, not the task.                         *)
StepReturns_StepOnly(s, t, x, A) ==
    LET e == run[s][t].exec
        i == Next1(run[s][t].todo)
        can == task[t].executions[e].steps[i] = "running"
    IN
    /\ At(s, t, "work") /\ (x = "failed" => A = {})
    /\ \/ can /\ Write(t, ArtifactsAdded(applyStepTerminal(task[t], e, {i}, x), e, A))
       \/ ~can /\ Diagnostic(t)
    /\ OweAfterWork(s, t, "project")
    /\ Skip(s, t)
    /\ UNCHANGED <<index, up, enabled, faults, stalls, ops>>

(* The worker of a step returns with outcome x and artifacts A:            *)
(* appendStepTerminal.                                                     *)
StepReturns(s, t, x, A) ==
    LET e == run[s][t].exec
        i == Next1(run[s][t].todo)
        can == StillRunning(task[t], e) /\ task[t].executions[e].steps[i] = "running"
    IN
    /\ At(s, t, "work") /\ (x = "failed" => A = {})
    /\ \/ can /\ Write(t, ArtifactsAdded(applyStepTerminal(task[t], e, {i}, x), e, A))
       \/ ~can /\ Diagnostic(t)
    /\ OweAfterWork(s, t, "project")
    /\ Skip(s, t)
    /\ UNCHANGED <<index, up, enabled, faults, stalls, ops>>

(* Mutant: the produced outputs are not recorded.                          *)
FinalizerReturns_SkipsOutputs(s, t) ==
    LET e == run[s][t].exec
        can == StillRunning(task[t], e) /\ AllStepsTerminal(task[t])
    IN
    /\ At(s, t, "finalize")
    /\ \/ Jump(s, t, "finalizeFail") /\ NoWrite /\ OweAfterWork(s, t, "none")
       \/ can /\ NoWrite /\ Jump(s, t, "complete") /\ OweAfterWork(s, t, "project")
       \/ /\ ~can /\ Diagnostic(t)
          /\ Jump(s, t, "block") /\ OweAfterWork(s, t, "project")
    /\ UNCHANGED <<index, up, enabled, faults, stalls, ops>>

(* The finalizer's worker returns: the rest of finalizeMissingOutputs.     *)
FinalizerReturns(s, t) ==
    LET e == run[s][t].exec
        can == StillRunning(task[t], e) /\ AllStepsTerminal(task[t])
    IN
    /\ At(s, t, "finalize")
    /\ \/ Jump(s, t, "finalizeFail") /\ NoWrite /\ OweAfterWork(s, t, "none")
       \/ /\ can /\ Write(t, ArtifactsAdded(task[t], e, run[s][t].outs))
          /\ Jump(s, t, "loop") /\ OweAfterWork(s, t, "project")
       \/ /\ ~can /\ Diagnostic(t)
          /\ Jump(s, t, "block") /\ OweAfterWork(s, t, "project")
    /\ UNCHANGED <<index, up, enabled, faults, stalls, ops>>

(* appendExecutionTerminal: the outcome decided at the read is appended    *)
(* when the execution still runs; what it was decided on is not checked    *)
(* again.                                                                  *)
EndExecution(s, t, from, x) ==
    LET e == run[s][t].exec IN
    /\ At(s, t, from)
    /\ \/ StillRunning(task[t], e) /\ Write(t, applyExecutionTerminal(task[t], e, x))
       \/ ~StillRunning(task[t], e) /\ Diagnostic(t)
    /\ Owe(s, t, "run", "project")
    /\ IF from = "finalizeFail" THEN Jump(s, t, "block") ELSE Goto(s, t, Idle)
    /\ UNCHANGED <<index, up, enabled, faults, stalls, ops>>

(* blockTask and blockCompletion.                                          *)
BlockTask(s, t) ==
    LET e == run[s][t].exec IN
    /\ At(s, t, "block")
    /\ \/ /\ StillRunning(task[t], e)
          /\ Write(t, StatusChanged(ExecutionInterrupted(task[t], e), "blocked"))
          /\ Owe(s, t, "run", "project")
       \/ ~StillRunning(task[t], e) /\ NoWrite /\ OweNothing
    /\ Goto(s, t, Idle)
    /\ UNCHANGED <<index, up, enabled, faults, stalls, ops>>

-----------------------------------------------------------------------------
(* Leases.                                                                 *)

(* renewExecutionLease, from the heartbeat of a worker call.               *)
RenewLease(s, t) ==
    LET e == run[s][t].exec IN
    /\ run[s][t].pc \in WorkLabels /\ summary[s][t]["run"] = "none"
    /\ summary[s][t]["beat"] = "none"
    /\ StillRunning(task[t], e) /\ task[t].executions[e].worker = s
    /\ Write(t, ExecutionLeaseRenewed(task[t], e, s))
    /\ Owe(s, t, "beat", "project")
    /\ UNCHANGED <<index, up, enabled, run, faults, stalls, ops>>

(* The holder of the lease of the current execution still drives it.       *)
HolderDrives(t) ==
    LET exec == task[t].executions[task[t].current]
    IN  exec.worker \in Schedulers /\ run[exec.worker][t].claimed = task[t].current
                                   /\ run[exec.worker][t].attempt = exec.attempt

(* Time passes a lease's deadline: always once its holder is gone, and a   *)
(* bounded number of times while the holder is only slow.                  *)
LeaseExpires(t) ==
    LET e == task[t].current IN
    /\ task[t].executions[e].status = "running" /\ task[t].executions[e].lease = "held"
    /\ \/ ~HolderDrives(t) /\ UNCHANGED stalls
       \/ HolderDrives(t) /\ stalls < MaxStalls /\ stalls' = stalls + 1
    /\ task' = [task EXCEPT ![t] = setLease(task[t], e, task[t].executions[e].worker, "expired")]
    /\ UNCHANGED <<latest, index, summary, up, enabled, run, faults, ops>>

(* Mutant: the lease is not looked at.                                     *)
recoverable_AnyLease(st) == StillRunning(st, st.current)

(* executionRecoveryReason: every execution that runs was claimed with a   *)
(* lease, so only the lease decides.                                       *)
recoverable(st) ==
    StillRunning(st, st.current) /\ st.executions[st.current].lease = "expired"

(* retryStepEvents: running and blocked steps wait again.                  *)
Retried(st) ==
    LET e == st.current
    IN  StepStatusChanged(st, e, {i \in Steps : st.executions[e].steps[i] \in {"running", "blocked"}},
                          "waiting")

(* Mutant: one attempt too many is granted.                                *)
ReconcileExecution_OffByOne(s, t) ==
    LET st == task[t]
        e == st.current
    IN
    /\ Ticking(s) /\ index[t] = "running" /\ capacity(s) /\ ~isRunning(s, t)
    /\ recoverable(st)
    /\ Write(t, IF st.executions[e].attempt <= MaxAttempts
                THEN StatusChanged(ExecutionInterrupted(Retried(st), e), "ready")
                ELSE ExecutionInterrupted(st, e))
    /\ Owe(s, t, "tick", "project")
    /\ UNCHANGED <<index, up, enabled, run, faults, stalls, ops>>

(* Mutant: the requeued task is not indexed.                               *)
ReconcileExecution_NoIndex(s, t) ==
    LET st == task[t]
        e == st.current
    IN
    /\ Ticking(s) /\ index[t] = "running" /\ capacity(s) /\ ~isRunning(s, t)
    /\ recoverable(st)
    /\ Write(t, IF st.executions[e].attempt < MaxAttempts
                THEN StatusChanged(ExecutionInterrupted(Retried(st), e), "ready")
                ELSE ExecutionInterrupted(st, e))
    /\ OweNothing
    /\ UNCHANGED <<index, up, enabled, run, faults, stalls, ops>>

(* Tick: a task whose summary is running, reconcileRecoverableExecution.   *)
ReconcileExecution(s, t) ==
    LET st == task[t]
        e == st.current
    IN
    /\ Ticking(s) /\ index[t] = "running" /\ capacity(s) /\ ~isRunning(s, t)
    /\ recoverable(st)
    /\ \/ /\ st.executions[e].attempt < MaxAttempts
          /\ Write(t, StatusChanged(ExecutionInterrupted(Retried(st), e), "ready"))
       \/ /\ st.executions[e].attempt >= MaxAttempts
          /\ Write(t, StatusChanged(ExecutionInterrupted(st, e), "interrupted"))
    /\ Owe(s, t, "tick", "project")
    /\ UNCHANGED <<index, up, enabled, run, faults, stalls, ops>>

-----------------------------------------------------------------------------
(* The index.                                                              *)

(* Scheduler.index reads the task again before it appends the summary; a   *)
(* modify call appends the summary of the state it wrote.                  *)
IndexProject(s, t, k) ==
    /\ summary[s][t][k] = "project"
    /\ Owe(s, t, k, task[t].status)
    /\ UNCHANGED <<task, latest, index, up, enabled, run, faults, stalls, ops>>

(* EventStore.Index, and notifyReady when a session appends the summary.   *)
IndexAppend(s, t, k) ==
    /\ summary[s][t][k] \in Statuses
    /\ index' = [index EXCEPT ![t] = summary[s][t][k]]
    /\ Owe(s, t, k, IF k \in {"user", "task_run"} /\ summary[s][t][k] = "ready" THEN "notify"
                    ELSE Rest(k))
    /\ UNCHANGED <<task, latest, up, enabled, run, faults, stalls, ops>>

-----------------------------------------------------------------------------
(* Task operations of sessions.                                            *)

(* createTask: the stream must be empty.                                   *)
CreateTask(s, t, x, D, R) ==
    /\ up[s] /\ task[t].status = "" /\ summary[s][t]["user"] = "none"
    /\ Write(t, Created(x, D, R))
    /\ Owe(s, t, "user", x)
    /\ UNCHANGED <<index, up, enabled, run, faults, stalls, ops>>

(* modifyTask with the modification op, which leads to state st.           *)
Modify(s, t, op, st) ==
    /\ op \in Operations /\ ops < MaxOps
    /\ up[s] /\ task[t].status # "" /\ summary[s][t]["user"] = "none"
    /\ Write(t, st)
    /\ Owe(s, t, "user", st.status)
    /\ ops' = ops + 1
    /\ UNCHANGED <<index, up, enabled, run, faults, stalls>>

activeTaskStatus(x) == x \in {"draft", "ready", "running", "blocked", "interrupted"}
activeStepStatus(x) == x \in {"waiting", "running", "blocked"}

SetStatus(s, t, x) ==
    /\ task[t].status # x
    /\ ~(Terminal(task[t].status) /\ activeTaskStatus(x))
    /\ ~(task[t].status = "running" /\ x \in {"ready", "draft"})
    /\ Modify(s, t, "set_status", StatusChanged(task[t], x))

Reopen(s, t, x) ==
    /\ Terminal(task[t].status) /\ activeTaskStatus(x)
    /\ Modify(s, t, "reopen", StatusChanged(task[t], x))

(* The execution a step change is scoped to: the one the caller names, the *)
(* current one, or the manual one.                                         *)
Scopes(st) ==
    {e \in 1 .. Manual : known(st.executions[e])} \union
        {IF st.current = NoExecution THEN Manual ELSE st.current}

SetStepStatus(s, t, e, i, x) ==
    /\ i \in task[t].steps
    /\ ~(StepTerminal(task[t].executions[e].steps[i]) /\ activeStepStatus(x))
    /\ Modify(s, t, "set_step_status", StepStatusChanged(task[t], e, {i}, x))

ReopenStep(s, t, e, i, x) ==
    /\ i \in task[t].steps
    /\ StepTerminal(task[t].executions[e].steps[i]) /\ activeStepStatus(x)
    /\ Modify(s, t, "reopen_step", StepStatusChanged(task[t], e, {i}, x))

(* add_step and remove_step; Validate wants every dependency declared.     *)
AddStep(s, t, i) ==
    /\ i \notin task[t].steps /\ DependsOn[i] \subseteq task[t].steps
    /\ \A j \in task[t].steps : j < i
    /\ Modify(s, t, "add_step", Revised(task[t], task[t].steps \union {i}, task[t].outputs))

RemoveStep(s, t, i) ==
    /\ i \in task[t].steps /\ \A j \in task[t].steps : i \notin DependsOn[j]
    /\ \A e \in ExecutionIDs : task[t].executions[e].steps[i] = ""
    /\ Modify(s, t, "remove_step", Revised(task[t], task[t].steps \ {i}, task[t].outputs))

AddOutput(s, t, o) ==
    /\ o \notin task[t].outputs
    /\ Modify(s, t, "add_output", Revised(task[t], task[t].steps, task[t].outputs \union {o}))

(* add_artifact, scoped to the task (NoExecution) or to an execution.      *)
AddArtifact(s, t, e, o) ==
    /\ o \notin task[t].artifacts
    /\ Modify(s, t, "add_artifact", ArtifactsAdded(task[t], e, {o}))

(* complete with artifacts A; force overrides name the checks to ignore.   *)
CompleteTask(s, t, A, force) ==
    LET st == ArtifactsAdded(task[t], NoExecution, A) IN
    /\ Completable(st) \/ force
    /\ st # task[t] \/ st.status # "completed"
    /\ Modify(s, t, "complete", StatusChanged(st, "completed"))

(* recordTaskRunWatcher, the first part of task_run: the revision changes  *)
(* metadata only.                                                          *)
recordTaskRunWatcher(s, t) ==
    /\ "task_run" \in Operations /\ ops < MaxOps
    /\ up[s] /\ task[t].status # "" /\ summary[s][t]["task_run"] = "none"
    /\ Write(t, Revised(task[t], task[t].steps, task[t].outputs))
    /\ Owe(s, t, "task_run", task[t].status)
    /\ ops' = ops + 1
    /\ UNCHANGED <<index, up, enabled, run, faults, stalls>>

SetEnabled(s) ==
    /\ "set_enabled" \in Operations /\ ops < MaxOps /\ up[s]
    /\ enabled' = [enabled EXCEPT ![s] = ~@]
    /\ ops' = ops + 1
    /\ UNCHANGED <<task, latest, index, summary, up, run, faults, stalls>>

-----------------------------------------------------------------------------
(* Faults.                                                                 *)

Fault(kind) == kind \in FaultKinds /\ faults < MaxFaults /\ faults' = faults + 1

(* The process stops; one that is started later is another scheduler.      *)
Crash(s) ==
    /\ Fault("crash") /\ up[s]
    /\ LosesIndex \/ \A t \in Tasks, k \in Kinds : summary[s][t][k] = "none"
    /\ up' = [up EXCEPT ![s] = FALSE]
    /\ run' = [run EXCEPT ![s] = [t \in Tasks |-> Idle]]
    /\ summary' = [summary EXCEPT ![s] = [t \in Tasks |-> [k \in Kinds |-> "none"]]]
    /\ UNCHANGED <<task, latest, index, enabled, stalls, ops>>

(* A store call of a run fails, or its conflicts outlast the retries: the  *)
(* error ends the run.                                                     *)
RunFails(s, t) ==
    /\ Fault("error") /\ isRunning(s, t)
    /\ LosesIndex \/ summary[s][t]["run"] = "none"
    /\ Goto(s, t, Idle)
    /\ OweAfterWork(s, t, "none")
    /\ UNCHANGED <<task, latest, index, up, enabled, stalls, ops>>

(* The index append of another actor fails; the error is only reported.    *)
IndexFails(s, t, k) ==
    /\ Fault("error") /\ LosesIndex /\ k # "run" /\ summary[s][t][k] # "none"
    /\ Owe(s, t, k, "none")
    /\ UNCHANGED <<task, latest, index, up, enabled, run, stalls, ops>>

-----------------------------------------------------------------------------
Drive(s, t) ==
    \/ ClaimRead(s, t) \/ ClaimAppend(s, t) \/ OpenTask(s, t)
    \/ \E A \in SUBSET Outputs : WholeTaskReturns(s, t, A)
    \/ ValidateWholeTask(s, t)
    \/ Loop(s, t) \/ Finalize(s, t) \/ CancelDependents(s, t) \/ PassEnds(s, t)
    \/ BlockStep(s, t) \/ DispatchStep(s, t)
    \/ \E A \in SUBSET Outputs, x \in {"completed", "failed"} : StepReturns(s, t, x, A)
    \/ FinalizerReturns(s, t)
    \/ EndExecution(s, t, "fail", "failed") \/ EndExecution(s, t, "finalizeFail", "failed")
    \/ EndExecution(s, t, "complete", "completed")
    \/ BlockTask(s, t)

Operate(s, t) ==
    \/ \E x \in {"draft", "ready"}, D \in Declarations, R \in Requirements :
          CreateTask(s, t, x, D, R)
    \/ \E x \in SetStatuses : SetStatus(s, t, x) \/ Reopen(s, t, x)
    \/ \E e \in Scopes(task[t]), i \in Steps, x \in StepStatuses :
          SetStepStatus(s, t, e, i, x) \/ ReopenStep(s, t, e, i, x)
    \/ \E i \in Steps : AddStep(s, t, i) \/ RemoveStep(s, t, i)
    \/ \E o \in Outputs : \/ AddOutput(s, t, o)
                          \/ \E e \in Scopes(task[t]) \union {NoExecution} : AddArtifact(s, t, e, o)
    \/ \E A \in SUBSET Outputs, force \in BOOLEAN : CompleteTask(s, t, A, force)
    \/ recordTaskRunWatcher(s, t) \/ SubmitTask(s, t)
    \/ \E k \in {"user", "task_run"} : NotifyTaskReady(s, t, k)

Next ==
    \/ \E s \in Schedulers, t \in Tasks :
          \/ Drive(s, t) \/ Operate(s, t)
          \/ TickReady(s, t) \/ ReconcileExecution(s, t) \/ RenewLease(s, t)
          \/ \E k \in Kinds : IndexProject(s, t, k) \/ IndexAppend(s, t, k) \/ IndexFails(s, t, k)
          \/ RunFails(s, t)
    \/ \E t \in Tasks : LeaseExpires(t)
    \/ \E s \in Schedulers : Crash(s) \/ SetEnabled(s)

Spec == Init /\ [][Next]_vars

(* A live process keeps executing its goroutines, workers return, index    *)
(* appends are made, the reconciliation ticker fires, and the deadline of  *)
(* an abandoned lease passes.  Sessions need not do anything.              *)
Fairness ==
    /\ \A s \in Schedulers, t \in Tasks :
          /\ WF_vars(Drive(s, t)) /\ WF_vars(TickReady(s, t)) /\ WF_vars(ReconcileExecution(s, t))
          /\ \A k \in {"user", "task_run"} : WF_vars(NotifyTaskReady(s, t, k))
          /\ WF_vars(summary[s][t]["task_run"] = "submit" /\ SubmitTask(s, t))
          /\ \A k \in Kinds : WF_vars(IndexProject(s, t, k) \/ IndexAppend(s, t, k))
    /\ \A t \in Tasks : WF_vars(~HolderDrives(t) /\ LeaseExpires(t))

FairSpec == Spec /\ Fairness

-----------------------------------------------------------------------------
(* Properties.                                                             *)

(* Types.                                                                  *)
TypeOK ==
    /\ task \in [Tasks -> States]
    /\ latest \in [Tasks -> SUBSET Schedulers]
    /\ index \in [Tasks -> Statuses \union {""}]
    /\ summary \in [Schedulers -> [Tasks -> [Kinds ->
                        Statuses \union {"", "none", "project", "notify", "submit"}]]]
    /\ up \in [Schedulers -> BOOLEAN] /\ enabled \in [Schedulers -> BOOLEAN]
    /\ run \in [Schedulers -> [Tasks -> Runs]]
    /\ faults \in Nat /\ stalls \in Nat /\ ops \in Nat

(* The retry policy: reconciliation alone never brings an execution beyond *)
(* MaxAttempts; every further attempt was asked for by a task operation.   *)
AttemptsBounded ==
    \A t \in Tasks, e \in ExecutionIDs : task[t].executions[e].attempt <= MaxAttempts + ops

Driving(s, t) == run[s][t].claimed # NoExecution
Working(s, t) == run[s][t].pc \in WorkLabels

(* Two scheduler instances never hold the same claim: an attempt of an     *)
(* execution is driven by at most one goroutine, and by none before the    *)
(* claim is in the stream.                                                 *)
ClaimedOnce ==
    \A t \in Tasks, s \in Schedulers : Driving(s, t) =>
        /\ run[s][t].attempt <= task[t].executions[run[s][t].claimed].attempt
        /\ \A r \in Schedulers \ {s} :
              ~ /\ run[r][t].claimed = run[s][t].claimed
                /\ run[r][t].attempt = run[s][t].attempt

(* No two workers run on one task at the same time unless a lease expired  *)
(* under a slow holder.                                                    *)
OneWorker ==
    stalls = 0 => \A t \in Tasks, r, s \in Schedulers : Working(r, t) /\ Working(s, t) => r = s

(* A task that is running in the stream has a goroutine that drives it, as *)
(* long as nothing failed: no path of a run ends and leaves it running.    *)
RunningIsDriven ==
    faults = 0 => \A t \in Tasks :
        StillRunning(task[t], task[t].current) => \E s \in Schedulers : Driving(s, t)

(* A running task is driven, and its worker is the only one.               *)
DrivenByOne == OneWorker /\ RunningIsDriven

(* What a session stopped stays as it is: while a task is not ready or     *)
(* running, no scheduler step changes its status, its executions, their    *)
(* steps or its artifacts.  A run that was overtaken by a cancellation, a  *)
(* block or a completion has its outcome ignored.                          *)
StoppedTaskIsFrozen ==
    [][\A t \in Tasks : task[t].status \in Statuses \ {"ready", "running"} /\ ops' = ops =>
          /\ task'[t].status = task[t].status /\ task'[t].current = task[t].current
          /\ task'[t].artifacts = task[t].artifacts
          /\ \A e \in ExecutionIDs :
                /\ task'[t].executions[e].status = task[t].executions[e].status
                /\ task'[t].executions[e].steps = task[t].executions[e].steps]_vars

(* A step starts only when every step it depends on is completed, although *)
(* the dispatch does not look at the dependencies again.                   *)
DispatchInOrder ==
    [][\A t \in Tasks, e \in ExecutionIDs, i \in Steps :
          (/\ task[t].executions[e].steps[i] # "running"
           /\ task'[t].executions[e].steps[i] = "running")
          => \A d \in DependsOn[i] : task[t].executions[e].steps[d] = "completed"]_vars

(* A completed step is not run again: retries keep the work that was done. *)
CompletedStepStays ==
    [][\A t \in Tasks, e \in ExecutionIDs, i \in Steps :
          task[t].executions[e].steps[i] = "completed"
              => task'[t].executions[e].steps[i] = "completed"]_vars

(* The work of a task is done in order, and what was done is kept.         *)
WorkIsKept == DispatchInOrder /\ CompletedStepStays

(* The scheduler completes a task only when its required outputs exist and *)
(* its steps are terminal.                                                 *)
CompletionIsValid ==
    [][\A t \in Tasks : (/\ task'[t].status = "completed" /\ task[t].status = "running"
                         /\ ops' = ops)
                        => Completable(task[t])]_vars

(* A ready task is taken up and settles.                                   *)
ReadySettles ==
    \A t \in Tasks : task[t].status = "ready" ~> task[t].status \notin {"ready", "running"}

(* The limits of reserve hold in every state: a scheduler never drives     *)
(* more tasks than its capacity, nor more of a role than the role's pool.  *)
CapacityRespected ==
    \A s \in Schedulers :
        /\ Cardinality(Running(s)) <= MaxParallel
        /\ \A t \in Tasks : PoolLimit[RoleOf[t]] > 0 =>
              Cardinality({u \in Running(s) : RoleOf[u] = RoleOf[t]}) <= PoolLimit[RoleOf[t]]
=============================================================================
