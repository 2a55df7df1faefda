------------------------ MODULE TaskSchedulerProofs -------------------------
(***************************************************************************)
(* Proofs about TaskScheduler, for every number of processes, tasks,       *)
(* steps, attempts, faults and task operations.                            *)
(*                                                                         *)
(* Every action but the claim has the effect of the operator Effect: it    *)
(* keeps the attempts of all executions and what the runs claimed, writes  *)
(* to a task only when the task runs, is created or is modified by a       *)
(* session, and makes a task ready only with an attempt to spare.  The     *)
(* invariants follow from that once, for all of these actions together.    *)
(*                                                                         *)
(* The second half is about the work of a task and who does it.  A driving *)
(* goroutine decides on a state it read and writes later: what it decided  *)
(* still fits the state it writes to (WorkInv), its claim is held until    *)
(* the execution ends, and a running task is driven by the goroutine that  *)
(* claimed it (DriveInv).  WorkStep and DriveStep say what a step may do   *)
(* to a task and to a goroutine; such a step keeps the invariant, and the  *)
(* system takes no other one.                                              *)
(***************************************************************************)
EXTENDS TaskScheduler, FiniteSetTheorems, WellFoundedInduction, NaturalsInduction, TLAPS

-----------------------------------------------------------------------------
(* The inductive invariant.                                                *)

SameAttempts(old, new) ==
    \A e \in ExecutionIDs : new.executions[e].attempt = old.executions[e].attempt

(* A ready task whose execution will be resumed has an attempt left, or    *)
(* sessions asked for more.                                                *)
Requeued(st, n) ==
    st.status = "ready" /\ st.executions[st.current].status = "interrupted"
        => st.executions[st.current].attempt < MaxAttempts + n

Untouched(st) == st.status = "" => \A e \in ExecutionIDs : st.executions[e].attempt = 0

TaskInv ==
    \A t \in Tasks : /\ Untouched(task[t])
                     /\ Requeued(task[t], ops)
                     /\ latest[t] # {} => claimable(task[t])

IInv == TypeOK /\ TaskInv /\ AttemptsBounded /\ ClaimedOnce

(* What a step other than a claim does to the projection of one task: only *)
(* the lease changes, or the task is written.                              *)
SameButLease(old, new) ==
    /\ new.status = old.status /\ new.current = old.current
    /\ new.artifacts = old.artifacts
    /\ SameAttempts(old, new)
    /\ \A e \in ExecutionIDs : /\ new.executions[e].status = old.executions[e].status
                               /\ new.executions[e].steps = old.executions[e].steps

GoodWrite(old, new) ==
    /\ new.status # ""
    /\ SameAttempts(old, new)
    /\ Requeued(new, ops')
    /\ ops' = ops => old.status \in {"", "running"}

TaskEffect(t) ==
    \/ SameButLease(task[t], task'[t]) /\ (latest'[t] \subseteq latest[t] \/ claimable(task[t]))
    \/ GoodWrite(task[t], task'[t]) /\ latest'[t] = {}

KeepsClaim(old, new) ==
    (new.claimed = old.claimed /\ new.attempt = old.attempt) \/ new.claimed = NoExecution

TaskPart == task' \in [Tasks -> States] /\ latest' \in [Tasks -> SUBSET Schedulers]
                                        /\ \A t \in Tasks : TaskEffect(t)
RunPart == run' \in [Schedulers -> [Tasks -> Runs]]
             /\ \A s \in Schedulers, t \in Tasks : KeepsClaim(run[s][t], run'[s][t])
Owed == Statuses \union {"", "none", "project", "notify", "submit"}
SummaryPart == summary' \in [Schedulers -> [Tasks -> [Kinds -> Owed]]]
RestPart ==
    /\ index' \in [Tasks -> Statuses \union {""}]
    /\ up' \in [Schedulers -> BOOLEAN] /\ enabled' \in [Schedulers -> BOOLEAN]
    /\ faults' \in Nat /\ stalls' \in Nat /\ ops' \in {ops, ops + 1}

Effect == TaskPart /\ RunPart /\ SummaryPart /\ RestPart

-----------------------------------------------------------------------------
(* The operators of the projector: types, and what they leave alone.       *)

LEMMA StateFields ==
    ASSUME NEW st \in States
    PROVE  /\ st.status \in Statuses \union {""} /\ st.current \in ExecutionIDs
           /\ st.executions \in [ExecutionIDs -> Executions]
           /\ st.steps \in SUBSET Steps /\ st.outputs \in SUBSET Outputs
           /\ st.artifacts \in SUBSET Outputs
BY DEF States

LEMMA ExecutionFields ==
    ASSUME NEW st \in States, NEW e \in ExecutionIDs
    PROVE  LET exec == st.executions[e] IN
           /\ exec \in Executions
           /\ exec.status \in Statuses \union {""} /\ exec.attempt \in Nat
           /\ exec.worker \in Workers \union {""} /\ exec.lease \in {"none", "held", "expired"}
           /\ exec.steps \in [Steps -> StepStatuses \union {""}]
BY DEF States, Executions

LEMMA setStatusType ==
    ASSUME NEW st \in States, NEW x \in Statuses
    PROVE  /\ setStatus(st, x) \in States
           /\ setStatus(st, x).status = x /\ setStatus(st, x).current = st.current
           /\ setStatus(st, x).executions = st.executions
BY DEF setStatus, State, States

LEMMA setExecutionType ==
    ASSUME NEW st \in States, NEW e \in ExecutionIDs, NEW exec \in Executions
    PROVE  /\ setExecution(st, e, exec) \in States
           /\ setExecution(st, e, exec).status = st.status
           /\ setExecution(st, e, exec).current = e
           /\ setExecution(st, e, exec).executions = [st.executions EXCEPT ![e] = exec]
BY DEF setExecution, State, States

LEMMA setStepsType ==
    ASSUME NEW exec \in Executions, NEW p \in [Steps -> StepStatuses \union {""}]
    PROVE  /\ setSteps(exec, p) \in Executions
           /\ setSteps(exec, p).attempt = exec.attempt
           /\ setSteps(exec, p).status = exec.status
BY DEF setSteps, Execution, Executions

LEMMA ensureExecutionStepsType ==
    ASSUME NEW d, NEW p \in [Steps -> StepStatuses \union {""}]
    PROVE  ensureExecutionSteps(d, p) \in [Steps -> StepStatuses \union {""}]
BY DEF ensureExecutionSteps, StepStatuses

LEMMA RevisedType ==
    ASSUME NEW st \in States, NEW d \in SUBSET Steps, NEW o \in SUBSET Outputs
    PROVE  /\ Revised(st, d, o) \in States
           /\ Revised(st, d, o).status = st.status
           /\ SameAttempts(st, Revised(st, d, o))
<1> DEFINE ex == [e \in ExecutionIDs |->
             IF known(st.executions[e])
             THEN setSteps(st.executions[e], ensureExecutionSteps(d, st.executions[e].steps))
             ELSE st.executions[e]]
<1>1. ASSUME NEW e \in ExecutionIDs
      PROVE  ex[e] \in Executions /\ ex[e].attempt = st.executions[e].attempt
  BY ExecutionFields, setStepsType, ensureExecutionStepsType
<1>2. ex \in [ExecutionIDs -> Executions]
  BY <1>1
<1>3. Revised(st, d, o) = State(st.status, st.current, ex, d, o, st.artifacts)
  BY DEF Revised
<1> HIDE DEF ex
<1>4. State(st.status, st.current, ex, d, o, st.artifacts) \in States
  BY <1>2 DEF State, States
<1>5. /\ State(st.status, st.current, ex, d, o, st.artifacts).executions = ex
      /\ State(st.status, st.current, ex, d, o, st.artifacts).status = st.status
  BY DEF State
<1>6. QED
  BY <1>1, <1>3, <1>4, <1>5 DEF SameAttempts

LEMMA ArtifactsAddedType ==
    ASSUME NEW st \in States, NEW e \in ExecutionIDs, NEW A \in SUBSET Outputs
    PROVE  /\ ArtifactsAdded(st, e, A) \in States
           /\ ArtifactsAdded(st, e, A).status = st.status
           /\ SameAttempts(st, ArtifactsAdded(st, e, A))
<1>1. (IF e = NoExecution THEN st.current ELSE e) \in ExecutionIDs
  BY StateFields
<1>2. QED
  BY <1>1 DEF ArtifactsAdded, SameAttempts, State, States

LEMMA setLeaseType ==
    ASSUME NEW st \in States, NEW e \in ExecutionIDs, NEW w \in Workers \union {""},
           NEW l \in {"none", "held", "expired"}
    PROVE  /\ setLease(st, e, w, l) \in States
           /\ SameButLease(st, setLease(st, e, w, l))
<1> DEFINE exec == st.executions[e]
           new == Execution(exec.status, exec.attempt, w, l, exec.steps)
           ex == [st.executions EXCEPT ![e] = new]
<1>1. /\ new \in Executions /\ new.status = exec.status /\ new.attempt = exec.attempt
      /\ new.steps = exec.steps
  BY ExecutionFields DEF Execution, Executions
<1>2. setLease(st, e, w, l)
        = State(st.status, st.current, ex, st.steps, st.outputs, st.artifacts)
  BY DEF setLease
<1> HIDE DEF new
<1>3. ex \in [ExecutionIDs -> Executions]
  BY <1>1, StateFields
<1>4. \A f \in ExecutionIDs : /\ ex[f].attempt = st.executions[f].attempt
                              /\ ex[f].status = st.executions[f].status
                              /\ ex[f].steps = st.executions[f].steps
  BY <1>1, StateFields
<1> HIDE DEF ex
<1> DEFINE res == State(st.status, st.current, ex, st.steps, st.outputs, st.artifacts)
<1>5. res \in States
  BY <1>3 DEF State, States
<1>6. /\ res.executions = ex /\ res.status = st.status /\ res.current = st.current
      /\ res.artifacts = st.artifacts
  BY DEF State
<1>7. setLease(st, e, w, l) = res
  BY <1>2
<1> HIDE DEF res
<1>8. QED
  BY <1>4, <1>5, <1>6, <1>7 DEF SameButLease, SameAttempts

LEMMA setExecutionStatusType ==
    ASSUME NEW st \in States, NEW e \in ExecutionIDs, NEW x \in Statuses
    PROVE  /\ setExecutionStatus(st, e, x) \in States
           /\ setExecutionStatus(st, e, x).status = x
           /\ setExecutionStatus(st, e, x).current = e
           /\ SameAttempts(st, setExecutionStatus(st, e, x))
<1> DEFINE exec == st.executions[e]
           new == Execution(x, exec.attempt, exec.worker, exec.lease, exec.steps)
<1>1. new \in Executions /\ new.attempt = exec.attempt
  BY ExecutionFields DEF Execution, Executions
<1>2. setExecutionStatus(st, e, x) = setStatus(setExecution(st, e, new), x)
  BY DEF setExecutionStatus
<1> HIDE DEF new
<1>3. \A f \in ExecutionIDs :
         [st.executions EXCEPT ![e] = new][f].attempt = st.executions[f].attempt
  BY <1>1, StateFields
<1> DEFINE mid == setExecution(st, e, new)
<1>4. mid \in States /\ mid.current = e /\ mid.executions = [st.executions EXCEPT ![e] = new]
  BY <1>1, setExecutionType
<1> HIDE DEF mid
<1>5. /\ setStatus(mid, x) \in States /\ setStatus(mid, x).status = x
      /\ setStatus(mid, x).current = mid.current
      /\ setStatus(mid, x).executions = mid.executions
  BY <1>4, setStatusType
<1>6. QED
  BY <1>2, <1>3, <1>4, <1>5 DEF SameAttempts, mid

LEMMA StepDispatchedType ==
    ASSUME NEW st \in States, NEW e \in ExecutionIDs, NEW i
    PROVE  /\ StepDispatched(st, e, i) \in States
           /\ StepDispatched(st, e, i).status = st.status
           /\ SameAttempts(st, StepDispatched(st, e, i))
<1> DEFINE exec == st.executions[e]
           new == Execution("running", exec.attempt, exec.worker, exec.lease,
                            [exec.steps EXCEPT ![i] = "running"])
<1>1. [exec.steps EXCEPT ![i] = "running"] \in [Steps -> StepStatuses \union {""}]
  BY ExecutionFields DEF StepStatuses
<1>2. new \in Executions /\ new.attempt = exec.attempt
  BY <1>1, ExecutionFields DEF Execution, Executions, Statuses
<1>3. StepDispatched(st, e, i) = setExecution(st, e, new)
  BY DEF StepDispatched
<1> HIDE DEF new
<1>4. \A f \in ExecutionIDs :
         [st.executions EXCEPT ![e] = new][f].attempt = st.executions[f].attempt
  BY <1>2, StateFields
<1>5. /\ setExecution(st, e, new) \in States
      /\ setExecution(st, e, new).status = st.status /\ setExecution(st, e, new).current = e
      /\ setExecution(st, e, new).executions = [st.executions EXCEPT ![e] = new]
  BY <1>2, <1>3, setExecutionType
<1>6. QED
  BY <1>2, <1>3, <1>4, <1>5 DEF SameAttempts

LEMMA StepStatusChangedType ==
    ASSUME NEW st \in States, NEW e \in ExecutionIDs, NEW I, NEW x \in StepStatuses
    PROVE  /\ StepStatusChanged(st, e, I, x) \in States
           /\ StepStatusChanged(st, e, I, x).status = st.status
           /\ StepStatusChanged(st, e, I, x).current = e
           /\ SameAttempts(st, StepStatusChanged(st, e, I, x))
<1> DEFINE p == [i \in Steps |-> IF i \in I THEN x ELSE st.executions[e].steps[i]]
           new == setSteps(st.executions[e], p)
<1>1. p \in [Steps -> StepStatuses \union {""}]
  BY ExecutionFields
<1>2. StepStatusChanged(st, e, I, x) = setExecution(st, e, new)
  BY DEF StepStatusChanged
<1> HIDE DEF p
<1>3. new \in Executions /\ new.attempt = st.executions[e].attempt
  BY <1>1, ExecutionFields, setStepsType
<1> HIDE DEF new
<1>4. \A f \in ExecutionIDs :
         [st.executions EXCEPT ![e] = new][f].attempt = st.executions[f].attempt
  BY <1>3, StateFields
<1>5. /\ setExecution(st, e, new) \in States
      /\ setExecution(st, e, new).status = st.status /\ setExecution(st, e, new).current = e
      /\ setExecution(st, e, new).executions = [st.executions EXCEPT ![e] = new]
  BY <1>2, <1>3, setExecutionType
<1>6. QED
  BY <1>2, <1>3, <1>4, <1>5 DEF SameAttempts

-----------------------------------------------------------------------------
(* The parts of an action.                                                 *)

LEMMA SameIsSame == ASSUME NEW st PROVE SameButLease(st, st)
BY DEF SameButLease, SameAttempts

LEMMA NoWriteEffect == ASSUME TypeOK, NoWrite PROVE TaskPart
BY SameIsSame DEF TypeOK, NoWrite, TaskPart, TaskEffect

LEMMA DiagnosticEffect == ASSUME TypeOK, NEW t \in Tasks, Diagnostic(t) PROVE TaskPart
BY SameIsSame DEF TypeOK, Diagnostic, TaskPart, TaskEffect

LEMMA WriteEffect ==
    ASSUME TypeOK, NEW t \in Tasks, NEW st \in States, GoodWrite(task[t], st), Write(t, st)
    PROVE  TaskPart
<1>1. task' \in [Tasks -> States] /\ latest' \in [Tasks -> SUBSET Schedulers]
  BY DEF TypeOK, Write
<1>2. task'[t] = st /\ latest'[t] = {}
  BY DEF TypeOK, Write
<1>3. \A u \in Tasks : u # t => task'[u] = task[u] /\ latest'[u] = latest[u]
  BY DEF TypeOK, Write
<1>4. QED
  BY <1>1, <1>2, <1>3, SameIsSame DEF TaskPart, TaskEffect

LEMMA RunUnchanged == ASSUME TypeOK, UNCHANGED run PROVE RunPart
BY DEF TypeOK, RunPart, KeepsClaim

LEMMA GotoEffect ==
    ASSUME TypeOK, NEW s \in Schedulers, NEW t \in Tasks, NEW r \in Runs,
           KeepsClaim(run[s][t], r), Goto(s, t, r)
    PROVE  RunPart
<1>1. run' \in [Schedulers -> [Tasks -> Runs]]
  BY DEF TypeOK, Goto
<1>2. run'[s][t] = r
  BY DEF TypeOK, Goto
<1>3. \A q \in Schedulers, u \in Tasks : q # s \/ u # t => run'[q][u] = run[q][u]
  BY DEF TypeOK, Goto
<1>4. QED
  BY <1>1, <1>2, <1>3 DEF RunPart, KeepsClaim

LEMMA RunFields ==
    ASSUME TypeOK, NEW s \in Schedulers, NEW t \in Tasks
    PROVE  /\ run[s][t].pc \in Labels /\ run[s][t].exec \in ExecutionIDs
           /\ run[s][t].todo \in SUBSET Steps /\ run[s][t].outs \in SUBSET Outputs
           /\ run[s][t].claimed \in ExecutionIDs /\ run[s][t].attempt \in Nat
<1>1. run[s][t] \in Runs
  BY DEF TypeOK
<1>2. QED
  BY <1>1 DEF Runs

LEMMA NoExecutionType == NoExecution \in ExecutionIDs /\ Manual \in ExecutionIDs
<1>1. MaxExecs \in Nat
  BY ProjectionAssumption
<1>2. QED
  BY <1>1 DEF NoExecution, Manual, ExecutionIDs

LEMMA IdleEffect ==
    ASSUME TypeOK, NEW s \in Schedulers, NEW t \in Tasks, Goto(s, t, Idle) \/ Goto(s, t, AtClaim)
    PROVE  RunPart
<1>1. Idle \in Runs /\ AtClaim \in Runs
  BY NoExecutionType DEF Idle, AtClaim, Run, Runs, Labels
<1>2. Idle.claimed = NoExecution /\ AtClaim.claimed = NoExecution
  BY DEF Idle, AtClaim, Run
<1>3. QED
  BY <1>1, <1>2, GotoEffect DEF KeepsClaim

LEMMA JumpEffect ==
    ASSUME TypeOK, NEW s \in Schedulers, NEW t \in Tasks, NEW pc \in Labels, Jump(s, t, pc)
    PROVE  RunPart
<1> DEFINE r == run[s][t]
           n == Run(pc, r.exec, r.todo, r.outs, r.claimed, r.attempt)
<1>1. n \in Runs
  BY RunFields DEF Run, Runs
<1>2. KeepsClaim(r, n)
  BY DEF KeepsClaim, Run
<1>3. Goto(s, t, n)
  BY DEF Jump
<1> HIDE DEF n
<1>4. QED
  BY <1>1, <1>2, <1>3, GotoEffect

LEMMA SeesEffect ==
    ASSUME TypeOK, NEW s \in Schedulers, NEW t \in Tasks, NEW pc \in Labels,
           NEW todo \in SUBSET Steps, NEW outs \in SUBSET Outputs, Sees(s, t, pc, todo, outs)
    PROVE  RunPart
<1> DEFINE r == run[s][t]
           n == Run(pc, task[t].current, todo, outs, r.claimed, r.attempt)
<1>1. n \in Runs
  <2>1. task[t].current \in ExecutionIDs
    BY StateFields DEF TypeOK
  <2>2. QED
    BY <2>1, RunFields DEF Run, Runs
<1>2. KeepsClaim(r, n)
  BY DEF KeepsClaim, Run
<1>3. Goto(s, t, n)
  BY DEF Sees
<1> HIDE DEF n
<1>4. QED
  BY <1>1, <1>2, <1>3, GotoEffect

LEMMA SkipEffect ==
    ASSUME TypeOK, NEW s \in Schedulers, NEW t \in Tasks, Skip(s, t)
    PROVE  RunPart
<1> DEFINE r == run[s][t]
           n == Run("steps", r.exec, r.todo \ {Next1(r.todo)}, r.outs, r.claimed, r.attempt)
<1>1. n \in Runs
  BY RunFields DEF Run, Runs, Labels
<1>2. KeepsClaim(r, n)
  BY DEF KeepsClaim, Run
<1>3. Goto(s, t, n)
  BY DEF Skip
<1> HIDE DEF n
<1>4. QED
  BY <1>1, <1>2, <1>3, GotoEffect

LEMMA SummaryUnchanged == ASSUME TypeOK, UNCHANGED summary PROVE SummaryPart
BY DEF TypeOK, SummaryPart, Owed

LEMMA OweEffect ==
    ASSUME TypeOK, NEW s \in Schedulers, NEW t \in Tasks, NEW k \in Kinds, NEW x \in Owed,
           Owe(s, t, k, x)
    PROVE  SummaryPart
BY DEF TypeOK, SummaryPart, Owed, Owe

LEMMA OweAfterWorkEffect ==
    ASSUME TypeOK, NEW s \in Schedulers, NEW t \in Tasks, NEW x \in Owed, OweAfterWork(s, t, x)
    PROVE  SummaryPart
<1> DEFINE f == [k \in Kinds |-> IF k = "run" THEN x
                                 ELSE IF k = "beat" THEN "none" ELSE summary[s][t][k]]
<1>1. f \in [Kinds -> Owed]
  <2>1. summary[s][t] \in [Kinds -> Owed]
    BY DEF TypeOK, Owed
  <2>2. "none" \in Owed
    BY DEF Owed
  <2>3. QED
    BY <2>1, <2>2
<1>2. summary' = [summary EXCEPT ![s][t] = f]
  BY DEF OweAfterWork
<1> HIDE DEF f
<1>3. QED
  BY <1>1, <1>2 DEF TypeOK, SummaryPart, Owed

LEMMA RestUnchanged ==
    ASSUME TypeOK, UNCHANGED <<index, up, enabled, faults, stalls, ops>>
    PROVE  RestPart
BY DEF TypeOK, RestPart

LEMMA RunningWrite ==
    ASSUME NEW st \in States, NEW new \in States, st.status = "running",
           new.status \in Statuses \ {"ready"}, SameAttempts(st, new)
    PROVE  GoodWrite(st, new)
BY DEF GoodWrite, Requeued, Statuses

LEMMA UserWrite ==
    ASSUME TypeOK, AttemptsBounded, NEW t \in Tasks, NEW new \in States,
           new.status \in Statuses, SameAttempts(task[t], new), ops' = ops + 1
    PROVE  GoodWrite(task[t], new)
<1>1. new.current \in ExecutionIDs
  BY StateFields
<1>2. /\ task[t].executions[new.current].attempt \in Nat
      /\ task[t].executions[new.current].attempt <= MaxAttempts + ops
  BY <1>1, ExecutionFields DEF TypeOK, AttemptsBounded
<1>3. new.executions[new.current].attempt = task[t].executions[new.current].attempt
  BY <1>1 DEF SameAttempts
<1>4. MaxAttempts \in Nat /\ ops \in Nat
  BY SchedulerAssumption DEF TypeOK
<1>5. new.executions[new.current].attempt < MaxAttempts + ops'
  BY <1>2, <1>3, <1>4
<1>6. ops' # ops
  BY <1>4
<1>7. new.status # ""
  BY DEF Statuses
<1>8. QED
  BY <1>5, <1>6, <1>7 DEF GoodWrite, Requeued

-----------------------------------------------------------------------------
(* The actions that only start, move or end a run.                         *)

LEMMA TickReadyEffect ==
    ASSUME IInv, NEW s \in Schedulers, NEW t \in Tasks, TickReady(s, t)
    PROVE  Effect
<1>1. TypeOK /\ NoWrite /\ Goto(s, t, AtClaim) /\ UNCHANGED summary
      /\ UNCHANGED <<index, up, enabled, faults, stalls, ops>>
  BY DEF IInv, TickReady, NoWrite
<1>2. QED
  BY <1>1, NoWriteEffect, IdleEffect, SummaryUnchanged, RestUnchanged DEF Effect

LEMMA SubmitTaskEffect ==
    ASSUME IInv, NEW s \in Schedulers, NEW t \in Tasks, SubmitTask(s, t)
    PROVE  Effect
<1>1. TypeOK /\ NoWrite /\ (Goto(s, t, AtClaim) \/ UNCHANGED run)
      /\ Owe(s, t, "task_run", "none") /\ UNCHANGED <<index, up, enabled, faults, stalls, ops>>
  BY DEF IInv, SubmitTask, NoWrite
<1>2. "task_run" \in Kinds /\ "none" \in Owed
  BY DEF Kinds, Owed
<1>3. QED
  BY <1>1, <1>2, NoWriteEffect, IdleEffect, RunUnchanged, OweEffect, RestUnchanged DEF Effect

LEMMA NotifyEffect ==
    ASSUME IInv, NEW s \in Schedulers, NEW t \in Tasks, NEW k \in {"user", "task_run"},
           NotifyTaskReady(s, t, k)
    PROVE  Effect
<1>1. TypeOK /\ UNCHANGED <<index, up, enabled, faults, stalls, ops>>
  BY DEF IInv, NotifyTaskReady
<1>2. k \in Kinds /\ "note" \in Kinds /\ Rest(k) \in Owed /\ "project" \in Owed
  BY DEF Kinds, Owed, Rest
<1>3. CASE NoWrite /\ Owe(s, t, k, Rest(k)) /\ (Goto(s, t, AtClaim) \/ UNCHANGED run)
  BY <1>1, <1>2, <1>3, NoWriteEffect, OweEffect, IdleEffect, RunUnchanged, RestUnchanged DEF Effect
<1>4. CASE /\ Diagnostic(t) /\ UNCHANGED run
           /\ summary' = [summary EXCEPT ![s][t][k] = Rest(k), ![s][t]["note"] = "project"]
  <2>1. SummaryPart
    BY <1>1, <1>2, <1>4, ZenonT(30) DEF TypeOK, SummaryPart, Owed
  <2>2. QED
    BY <1>1, <1>4, <2>1, DiagnosticEffect, RunUnchanged, RestUnchanged DEF Effect
<1>5. QED
  BY <1>3, <1>4 DEF NotifyTaskReady

LEMMA ClaimReadEffect ==
    ASSUME IInv, NEW s \in Schedulers, NEW t \in Tasks, ClaimRead(s, t)
    PROVE  Effect
<1>1. /\ TypeOK /\ UNCHANGED task /\ UNCHANGED summary
      /\ UNCHANGED <<index, up, enabled, faults, stalls, ops>>
  BY DEF IInv, ClaimRead
<1>2. CASE /\ claimable(task[t]) /\ Jump(s, t, "append")
           /\ latest' = [latest EXCEPT ![t] = @ \union {s}]
  <2>1. RunPart
    BY <1>1, <1>2, JumpEffect DEF Labels
  <2>2. task' \in [Tasks -> States] /\ latest' \in [Tasks -> SUBSET Schedulers]
    BY <1>1, <1>2 DEF TypeOK
  <2>3. \A u \in Tasks : task'[u] = task[u] /\ (u # t => latest'[u] = latest[u])
    BY <1>1, <1>2 DEF TypeOK
  <2>4. TaskPart
    BY <1>2, <2>2, <2>3, SameIsSame DEF TaskPart, TaskEffect
  <2>5. QED
    BY <1>1, <2>1, <2>4, SummaryUnchanged, RestUnchanged DEF Effect
<1>3. CASE Goto(s, t, Idle) /\ UNCHANGED latest
  BY <1>1, <1>3, NoWriteEffect, IdleEffect, SummaryUnchanged, RestUnchanged DEF Effect, NoWrite
<1>4. QED
  BY <1>2, <1>3 DEF ClaimRead

LEMMA ReadEffect ==
    ASSUME IInv, NEW s \in Schedulers, NEW t \in Tasks,
           \/ OpenTask(s, t) \/ ValidateWholeTask(s, t) \/ Loop(s, t) \/ PassEnds(s, t)
    PROVE  Effect
<1>1. /\ TypeOK /\ NoWrite /\ UNCHANGED summary
      /\ UNCHANGED <<index, up, enabled, faults, stalls, ops>>
  BY DEF IInv, OpenTask, ValidateWholeTask, Loop, PassEnds, NoWrite
<1>2. /\ task[t].outputs \in SUBSET Outputs
      /\ WaitingDependents(task[t]) \in SUBSET Steps
      /\ ReadySteps(task[t]) \in SUBSET Steps
  <2>1. task[t] \in States
    BY <1>1 DEF TypeOK
  <2>2. task[t].outputs \in SUBSET Outputs /\ task[t].steps \in SUBSET Steps
    BY <2>1, StateFields
  <2>3. QED
    BY <2>2 DEF WaitingDependents, ReadySteps
<1>3. ASSUME OpenTask(s, t) PROVE RunPart
  BY <1>1, <1>2, <1>3, SeesEffect DEF OpenTask, Labels
<1>4. ASSUME ValidateWholeTask(s, t) PROVE RunPart
  BY <1>1, <1>4, JumpEffect DEF ValidateWholeTask, Labels
<1>5. ASSUME Loop(s, t) PROVE RunPart
  <2>1. \E pc \in Labels, todo \in SUBSET Steps, outs \in SUBSET Outputs :
           Sees(s, t, pc, todo, outs)
    BY <1>2, <1>5 DEF Loop, Labels
  <2>2. QED
    BY <1>1, <2>1, SeesEffect
<1>6. ASSUME PassEnds(s, t) PROVE RunPart
  BY <1>1, <1>6, JumpEffect DEF PassEnds, Labels
<1>7. QED
  BY <1>1, <1>3, <1>4, <1>5, <1>6, NoWriteEffect, SummaryUnchanged, RestUnchanged DEF Effect

-----------------------------------------------------------------------------
(* The actions of a driving goroutine that write.                          *)

LEMMA RunningWriteEffect ==
    ASSUME TypeOK, NEW t \in Tasks, NEW e \in ExecutionIDs, NEW new \in States,
           StillRunning(task[t], e), new.status \in Statuses \ {"ready"},
           SameAttempts(task[t], new), Write(t, new)
    PROVE  TaskPart
<1>1. task[t] \in States /\ task[t].status = "running"
  BY DEF TypeOK, StillRunning
<1>2. GoodWrite(task[t], new)
  BY <1>1, RunningWrite
<1>3. QED
  BY <1>2, WriteEffect

LEMMA SameAttemptsTransitive ==
    ASSUME NEW a, NEW b, NEW c, SameAttempts(a, b), SameAttempts(b, c)
    PROVE  SameAttempts(a, c)
BY DEF SameAttempts

LEMMA RunOwes == "run" \in Kinds /\ "beat" \in Kinds /\ "tick" \in Kinds /\ "user" \in Kinds
                 /\ "project" \in Owed /\ "none" \in Owed
BY DEF Kinds, Owed

LEMMA WholeTaskReturnsEffect ==
    ASSUME IInv, NEW s \in Schedulers, NEW t \in Tasks, NEW A \in SUBSET Outputs,
           WholeTaskReturns(s, t, A)
    PROVE  Effect
<1> DEFINE e == run[s][t].exec
           all == A \union run[s][t].outs
<1>1. TypeOK /\ UNCHANGED <<index, up, enabled, faults, stalls, ops>>
  BY DEF IInv, WholeTaskReturns
<1>2. e \in ExecutionIDs /\ all \in SUBSET Outputs
  BY <1>1, RunFields
<1>3. RunPart /\ SummaryPart
  BY <1>1, RunOwes, JumpEffect, IdleEffect, OweAfterWorkEffect DEF WholeTaskReturns, Labels
<1>4. TaskPart
  <2>1. CASE NoWrite \/ Diagnostic(t)
    BY <1>1, <2>1, NoWriteEffect, DiagnosticEffect
  <2>2. CASE StillRunning(task[t], e) /\ Write(t, ArtifactsAdded(task[t], e, all))
    <3> DEFINE new == ArtifactsAdded(task[t], e, all)
    <3>1. task[t] \in States /\ task[t].status = "running"
      BY <1>1, <2>2 DEF TypeOK, StillRunning
    <3> HIDE DEF e, all
    <3>2. new \in States /\ new.status = task[t].status /\ SameAttempts(task[t], new)
      BY <1>2, <3>1, ArtifactsAddedType
    <3> HIDE DEF new
    <3>3. new.status \in Statuses \ {"ready"}
      BY <3>1, <3>2 DEF Statuses
    <3>4. QED
      BY <1>1, <1>2, <2>2, <3>2, <3>3, RunningWriteEffect DEF new
  <2>3. QED
    BY <2>1, <2>2 DEF WholeTaskReturns
<1>5. QED
  BY <1>1, <1>3, <1>4, RestUnchanged DEF Effect

LEMMA FinalizeEffect ==
    ASSUME IInv, NEW s \in Schedulers, NEW t \in Tasks, Finalize(s, t)
    PROVE  Effect
<1>1. TypeOK /\ UNCHANGED <<index, up, enabled, faults, stalls, ops>>
      /\ Diagnostic(t) /\ Owe(s, t, "run", "project")
      /\ Sees(s, t, "finalize", {}, missingRequiredOutputs(task[t]))
  BY DEF IInv, Finalize
<1>2. missingRequiredOutputs(task[t]) \in SUBSET Outputs
  <2>1. task[t].outputs \in SUBSET Outputs
    BY <1>1, StateFields DEF TypeOK
  <2>2. QED
    BY <2>1 DEF missingRequiredOutputs
<1>3. "finalize" \in Labels
  BY DEF Labels
<1>4. QED
  BY <1>1, <1>2, <1>3, RunOwes, DiagnosticEffect, OweEffect, SeesEffect, RestUnchanged DEF Effect

LEMMA CancelDependentsEffect ==
    ASSUME IInv, NEW s \in Schedulers, NEW t \in Tasks, CancelDependents(s, t)
    PROVE  Effect
<1> DEFINE e == run[s][t].exec
           new == applyStepTerminal(task[t], e, run[s][t].todo, "cancelled")
<1>1. TypeOK /\ UNCHANGED <<index, up, enabled, faults, stalls, ops>> /\ Jump(s, t, "fail")
  BY DEF IInv, CancelDependents
<1>2. RunPart
  BY <1>1, JumpEffect DEF Labels
<1>3. CASE StillRunning(task[t], e) /\ Write(t, new) /\ Owe(s, t, "run", "project")
  <2>1. e \in ExecutionIDs /\ task[t] \in States /\ task[t].status = "running"
    BY <1>1, <1>3, RunFields DEF TypeOK, StillRunning
  <2>2. new \in States /\ new.status = task[t].status /\ SameAttempts(task[t], new)
    BY <2>1, StepStatusChangedType DEF applyStepTerminal, StepStatuses
  <2> HIDE DEF new, e
  <2>3. new.status \in Statuses \ {"ready"}
    BY <2>1, <2>2 DEF Statuses
  <2>4. TaskPart
    BY <1>1, <1>3, <2>1, <2>2, <2>3, RunningWriteEffect
  <2>5. QED
    BY <1>1, <1>2, <1>3, <2>4, RunOwes, OweEffect, RestUnchanged DEF Effect
<1>4. CASE NoWrite /\ OweNothing
  BY <1>1, <1>2, <1>4, NoWriteEffect, SummaryUnchanged, RestUnchanged DEF Effect, OweNothing
<1>5. QED
  BY <1>3, <1>4 DEF CancelDependents

(* An execution is interrupted and the task gets status x.                 *)
LEMMA InterruptedType ==
    ASSUME NEW st \in States, NEW e \in ExecutionIDs, NEW x \in Statuses
    PROVE  LET new == StatusChanged(ExecutionInterrupted(st, e), x)
           IN  /\ new \in States /\ new.status = x /\ new.current = e
               /\ SameAttempts(st, new)
<1> DEFINE mid == ExecutionInterrupted(st, e)
           new == StatusChanged(mid, x)
<1>1. mid \in States /\ mid.current = e /\ SameAttempts(st, mid)
  BY setExecutionStatusType DEF ExecutionInterrupted, Statuses
<1> HIDE DEF mid
<1>2. new \in States /\ new.status = x /\ new.current = mid.current
      /\ new.executions = mid.executions
  BY <1>1, setStatusType DEF StatusChanged
<1>3. SameAttempts(st, new)
  BY <1>1, <1>2 DEF SameAttempts
<1>4. QED
  BY <1>1, <1>2, <1>3 DEF mid

LEMMA BlockStepEffect ==
    ASSUME IInv, NEW s \in Schedulers, NEW t \in Tasks, BlockStep(s, t)
    PROVE  Effect
<1> DEFINE e == run[s][t].exec
           i == Next1(run[s][t].todo)
           mid == StepStatusChanged(task[t], e, {i}, "blocked")
           new == StatusChanged(ExecutionInterrupted(mid, e), "blocked")
<1>1. TypeOK /\ UNCHANGED <<index, up, enabled, faults, stalls, ops>> /\ Goto(s, t, Idle)
  BY DEF IInv, BlockStep
<1>2. RunPart
  BY <1>1, IdleEffect
<1>3. CASE StillRunning(task[t], e) /\ Write(t, new) /\ Owe(s, t, "run", "project")
  <2>1. e \in ExecutionIDs /\ task[t] \in States /\ task[t].status = "running"
    BY <1>1, <1>3, RunFields DEF TypeOK, StillRunning
  <2> HIDE DEF e, i
  <2>2. mid \in States /\ SameAttempts(task[t], mid)
    BY <2>1, StepStatusChangedType DEF StepStatuses
  <2> HIDE DEF mid
  <2>3. new \in States /\ new.status = "blocked" /\ SameAttempts(mid, new)
    BY <2>1, <2>2, InterruptedType DEF Statuses
  <2> HIDE DEF new
  <2>4. SameAttempts(task[t], new)
    BY <2>2, <2>3, SameAttemptsTransitive
  <2>5. new.status \in Statuses \ {"ready"}
    BY <2>3 DEF Statuses
  <2>6. TaskPart
    BY <1>1, <1>3, <2>1, <2>3, <2>4, <2>5, RunningWriteEffect
  <2>7. QED
    BY <1>1, <1>2, <1>3, <2>6, RunOwes, OweEffect, RestUnchanged DEF Effect
<1>4. CASE NoWrite /\ OweNothing
  BY <1>1, <1>2, <1>4, NoWriteEffect, SummaryUnchanged, RestUnchanged DEF Effect, OweNothing
<1>5. QED
  BY <1>3, <1>4 DEF BlockStep

LEMMA DispatchStepEffect ==
    ASSUME IInv, NEW s \in Schedulers, NEW t \in Tasks, DispatchStep(s, t)
    PROVE  Effect
<1> DEFINE e == run[s][t].exec
           i == Next1(run[s][t].todo)
           new == StepDispatched(task[t], e, i)
<1>1. TypeOK /\ UNCHANGED <<index, up, enabled, faults, stalls, ops>>
  BY DEF IInv, DispatchStep
<1>2. CASE /\ StillRunning(task[t], e) /\ Write(t, new) /\ Owe(s, t, "run", "project")
           /\ Jump(s, t, "work")
  <2>1. e \in ExecutionIDs /\ task[t] \in States /\ task[t].status = "running"
    BY <1>1, <1>2, RunFields DEF TypeOK, StillRunning
  <2> HIDE DEF e, i
  <2>2. new \in States /\ new.status = task[t].status /\ SameAttempts(task[t], new)
    BY <2>1, StepDispatchedType
  <2> HIDE DEF new
  <2>3. new.status \in Statuses \ {"ready"}
    BY <2>1, <2>2 DEF Statuses
  <2>4. TaskPart
    BY <1>1, <1>2, <2>1, <2>2, <2>3, RunningWriteEffect
  <2>5. RunPart
    BY <1>1, <1>2, JumpEffect DEF Labels
  <2>6. QED
    BY <1>1, <1>2, <2>4, <2>5, RunOwes, OweEffect, RestUnchanged DEF Effect
<1>3. CASE NoWrite /\ OweNothing /\ Skip(s, t)
  BY <1>1, <1>3, NoWriteEffect, SkipEffect, SummaryUnchanged, RestUnchanged
  DEF Effect, OweNothing
<1>4. QED
  BY <1>2, <1>3 DEF DispatchStep

LEMMA StepReturnsEffect ==
    ASSUME IInv, NEW s \in Schedulers, NEW t \in Tasks, NEW x \in {"completed", "failed"},
           NEW A \in SUBSET Outputs, StepReturns(s, t, x, A)
    PROVE  Effect
<1> DEFINE e == run[s][t].exec
           i == Next1(run[s][t].todo)
           mid == applyStepTerminal(task[t], e, {i}, x)
           new == ArtifactsAdded(mid, e, A)
<1>1. TypeOK /\ UNCHANGED <<index, up, enabled, faults, stalls, ops>> /\ Skip(s, t)
      /\ OweAfterWork(s, t, "project")
  BY DEF IInv, StepReturns
<1>2. RunPart /\ SummaryPart /\ RestPart
  BY <1>1, RunOwes, SkipEffect, OweAfterWorkEffect, RestUnchanged
<1>3. CASE StillRunning(task[t], e) /\ Write(t, new)
  <2>1. e \in ExecutionIDs /\ task[t] \in States /\ task[t].status = "running"
    BY <1>1, <1>3, RunFields DEF TypeOK, StillRunning
  <2> HIDE DEF e, i
  <2>2. mid \in States /\ mid.status = task[t].status /\ SameAttempts(task[t], mid)
    BY <2>1, StepStatusChangedType DEF applyStepTerminal, StepStatuses
  <2> HIDE DEF mid
  <2>3. new \in States /\ new.status = mid.status /\ SameAttempts(mid, new)
    BY <2>1, <2>2, ArtifactsAddedType
  <2> HIDE DEF new
  <2>4. SameAttempts(task[t], new)
    BY <2>2, <2>3, SameAttemptsTransitive
  <2>5. new.status \in Statuses \ {"ready"}
    BY <2>1, <2>2, <2>3 DEF Statuses
  <2>6. TaskPart
    BY <1>1, <1>3, <2>1, <2>3, <2>4, <2>5, RunningWriteEffect
  <2>7. QED
    BY <1>2, <2>6 DEF Effect
<1>4. CASE Diagnostic(t)
  BY <1>1, <1>2, <1>4, DiagnosticEffect DEF Effect
<1>5. QED
  BY <1>3, <1>4 DEF StepReturns

LEMMA FinalizerReturnsEffect ==
    ASSUME IInv, NEW s \in Schedulers, NEW t \in Tasks, FinalizerReturns(s, t)
    PROVE  Effect
<1> DEFINE e == run[s][t].exec
           new == ArtifactsAdded(task[t], e, run[s][t].outs)
<1>1. TypeOK /\ UNCHANGED <<index, up, enabled, faults, stalls, ops>>
  BY DEF IInv, FinalizerReturns
<1>2. RunPart /\ SummaryPart
  BY <1>1, RunOwes, JumpEffect, OweAfterWorkEffect DEF FinalizerReturns, Labels
<1>3. TaskPart
  <2>1. CASE NoWrite \/ Diagnostic(t)
    BY <1>1, <2>1, NoWriteEffect, DiagnosticEffect
  <2>2. CASE StillRunning(task[t], e) /\ Write(t, new)
    <3>1. /\ e \in ExecutionIDs /\ run[s][t].outs \in SUBSET Outputs
          /\ task[t] \in States /\ task[t].status = "running"
      BY <1>1, <2>2, RunFields DEF TypeOK, StillRunning
    <3> HIDE DEF e
    <3>2. new \in States /\ new.status = task[t].status /\ SameAttempts(task[t], new)
      BY <3>1, ArtifactsAddedType
    <3> HIDE DEF new
    <3>3. new.status \in Statuses \ {"ready"}
      BY <3>1, <3>2 DEF Statuses
    <3>4. QED
      BY <1>1, <2>2, <3>1, <3>2, <3>3, RunningWriteEffect
  <2>3. QED
    BY <2>1, <2>2 DEF FinalizerReturns
<1>4. QED
  BY <1>1, <1>2, <1>3, RestUnchanged DEF Effect

LEMMA EndExecutionEffect ==
    ASSUME IInv, NEW s \in Schedulers, NEW t \in Tasks, NEW from,
           NEW x \in {"failed", "completed"}, EndExecution(s, t, from, x)
    PROVE  Effect
<1> DEFINE e == run[s][t].exec
           new == applyExecutionTerminal(task[t], e, x)
<1>1. TypeOK /\ UNCHANGED <<index, up, enabled, faults, stalls, ops>>
      /\ Owe(s, t, "run", "project") /\ (Jump(s, t, "block") \/ Goto(s, t, Idle))
  BY DEF IInv, EndExecution
<1>2. RunPart /\ SummaryPart
  BY <1>1, RunOwes, JumpEffect, IdleEffect, OweEffect DEF Labels
<1>3. CASE StillRunning(task[t], e) /\ Write(t, new)
  <2>1. e \in ExecutionIDs /\ task[t] \in States /\ x \in Statuses \ {"ready"}
    BY <1>1, RunFields DEF TypeOK, Statuses
  <2> HIDE DEF e
  <2>2. new \in States /\ new.status = x /\ SameAttempts(task[t], new)
    BY <2>1, setExecutionStatusType DEF applyExecutionTerminal
  <2> HIDE DEF new
  <2>3. TaskPart
    BY <1>1, <1>3, <2>1, <2>2, RunningWriteEffect
  <2>4. QED
    BY <1>1, <1>2, <2>3, RestUnchanged DEF Effect
<1>4. CASE Diagnostic(t)
  BY <1>1, <1>2, <1>4, DiagnosticEffect, RestUnchanged DEF Effect
<1>5. QED
  BY <1>3, <1>4 DEF EndExecution

LEMMA BlockTaskEffect ==
    ASSUME IInv, NEW s \in Schedulers, NEW t \in Tasks, BlockTask(s, t)
    PROVE  Effect
<1> DEFINE e == run[s][t].exec
           new == StatusChanged(ExecutionInterrupted(task[t], e), "blocked")
<1>1. TypeOK /\ UNCHANGED <<index, up, enabled, faults, stalls, ops>> /\ Goto(s, t, Idle)
  BY DEF IInv, BlockTask
<1>2. RunPart
  BY <1>1, IdleEffect
<1>3. CASE StillRunning(task[t], e) /\ Write(t, new) /\ Owe(s, t, "run", "project")
  <2>1. e \in ExecutionIDs /\ task[t] \in States /\ "blocked" \in Statuses \ {"ready"}
    BY <1>1, RunFields DEF TypeOK, Statuses
  <2> HIDE DEF e
  <2>2. new \in States /\ new.status = "blocked" /\ SameAttempts(task[t], new)
    BY <2>1, InterruptedType
  <2> HIDE DEF new
  <2>3. TaskPart
    BY <1>1, <1>3, <2>1, <2>2, RunningWriteEffect
  <2>4. QED
    BY <1>1, <1>2, <1>3, <2>3, RunOwes, OweEffect, RestUnchanged DEF Effect
<1>4. CASE NoWrite /\ OweNothing
  BY <1>1, <1>2, <1>4, NoWriteEffect, SummaryUnchanged, RestUnchanged DEF Effect, OweNothing
<1>5. QED
  BY <1>3, <1>4 DEF BlockTask

-----------------------------------------------------------------------------
(* Leases, the index and faults.                                           *)

LEMMA RenewLeaseEffect ==
    ASSUME IInv, NEW s \in Schedulers, NEW t \in Tasks, RenewLease(s, t)
    PROVE  Effect
<1> DEFINE e == run[s][t].exec
           new == ExecutionLeaseRenewed(task[t], e, s)
<1>1. TypeOK /\ UNCHANGED <<index, up, enabled, faults, stalls, ops>> /\ UNCHANGED run
      /\ StillRunning(task[t], e) /\ Write(t, new) /\ Owe(s, t, "beat", "project")
  BY DEF IInv, RenewLease
<1>2. /\ e \in ExecutionIDs /\ task[t] \in States /\ task[t].status = "running"
      /\ s \in Workers \union {""}
  BY <1>1, RunFields DEF TypeOK, StillRunning, Schedulers
<1> HIDE DEF e
<1>3. new \in States /\ SameButLease(task[t], new)
  BY <1>2, setLeaseType, SameIsSame DEF ExecutionLeaseRenewed
<1> HIDE DEF new
<1>4. new.status \in Statuses \ {"ready"} /\ SameAttempts(task[t], new)
  BY <1>2, <1>3 DEF SameButLease, Statuses
<1>5. TaskPart
  BY <1>1, <1>2, <1>3, <1>4, RunningWriteEffect
<1>6. QED
  BY <1>1, <1>5, RunOwes, OweEffect, RunUnchanged, RestUnchanged DEF Effect

LEMMA LeaseExpiresEffect ==
    ASSUME IInv, NEW t \in Tasks, LeaseExpires(t)
    PROVE  Effect
<1> DEFINE e == task[t].current
           new == setLease(task[t], e, task[t].executions[e].worker, "expired")
<1>1. TypeOK /\ UNCHANGED <<latest, index, up, enabled, faults, ops>> /\ UNCHANGED run
      /\ UNCHANGED summary /\ (stalls' = stalls \/ stalls' = stalls + 1)
      /\ task' = [task EXCEPT ![t] = new]
  BY DEF IInv, LeaseExpires
<1>2. task[t] \in States /\ e \in ExecutionIDs
  BY <1>1, StateFields DEF TypeOK
<1>3. new \in States /\ SameButLease(task[t], new)
  BY <1>2, ExecutionFields, setLeaseType
<1> HIDE DEF new, e
<1>4. TaskPart
  BY <1>1, <1>3, SameIsSame DEF TypeOK, TaskPart, TaskEffect
<1>5. stalls' \in Nat
  <2>1. stalls \in Nat
    BY <1>1 DEF TypeOK
  <2>2. QED
    BY <1>1, <2>1
<1>6. RestPart
  BY <1>1, <1>5 DEF TypeOK, RestPart
<1>7. QED
  BY <1>1, <1>4, <1>6, RunUnchanged, SummaryUnchanged DEF Effect

LEMMA ReconcileExecutionEffect ==
    ASSUME IInv, NEW s \in Schedulers, NEW t \in Tasks, ReconcileExecution(s, t)
    PROVE  Effect
<1> DEFINE st == task[t]
           e == st.current
           mid == Retried(st)
           new == StatusChanged(ExecutionInterrupted(mid, e), "ready")
           end == StatusChanged(ExecutionInterrupted(st, e), "interrupted")
<1>1. TypeOK /\ UNCHANGED <<index, up, enabled, faults, stalls, ops>> /\ UNCHANGED run
      /\ StillRunning(st, e) /\ Owe(s, t, "tick", "project")
  BY DEF IInv, ReconcileExecution, recoverable
<1>2. st \in States /\ e \in ExecutionIDs /\ st.status = "running" /\ ops \in Nat
  BY <1>1, StateFields DEF TypeOK, StillRunning
<1>3. "ready" \in Statuses /\ "interrupted" \in Statuses \ {"ready"} /\ "waiting" \in StepStatuses
  BY DEF Statuses, StepStatuses
<1>4. CASE st.executions[e].attempt < MaxAttempts /\ Write(t, new)
  <2>1. mid \in States /\ SameAttempts(st, mid)
    BY <1>2, <1>3, StepStatusChangedType DEF Retried
  <2> HIDE DEF mid
  <2>2. new \in States /\ new.status = "ready" /\ new.current = e /\ SameAttempts(mid, new)
    BY <1>2, <1>3, <2>1, InterruptedType
  <2> HIDE DEF new
  <2>3. SameAttempts(st, new)
    BY <2>1, <2>2, SameAttemptsTransitive
  <2>4. new.executions[e].attempt < MaxAttempts + ops
    <3>1. new.executions[e].attempt = st.executions[e].attempt
      BY <1>2, <2>3 DEF SameAttempts
    <3>2. st.executions[e].attempt \in Nat /\ MaxAttempts \in Nat
      BY <1>2, ExecutionFields, SchedulerAssumption
    <3>3. QED
      BY <1>2, <1>4, <3>1, <3>2
  <2>5. GoodWrite(task[t], new)
    BY <1>1, <1>2, <2>2, <2>3, <2>4 DEF GoodWrite, Requeued
  <2>6. TaskPart
    BY <1>1, <1>4, <2>2, <2>5, WriteEffect
  <2>7. QED
    BY <1>1, <2>6, RunOwes, OweEffect, RunUnchanged, RestUnchanged DEF Effect
<1>5. CASE Write(t, end)
  <2>1. end \in States /\ end.status = "interrupted" /\ SameAttempts(st, end)
    BY <1>2, <1>3, InterruptedType
  <2> HIDE DEF end
  <2>2. TaskPart
    BY <1>1, <1>2, <1>3, <1>5, <2>1, RunningWriteEffect
  <2>3. QED
    BY <1>1, <2>2, RunOwes, OweEffect, RunUnchanged, RestUnchanged DEF Effect
<1>6. QED
  BY <1>4, <1>5 DEF ReconcileExecution

LEMMA FaultCounts == ASSUME TypeOK, NEW kind, Fault(kind) PROVE faults' \in Nat
<1>1. faults \in Nat
  BY DEF TypeOK
<1>2. QED
  BY <1>1 DEF Fault

LEMMA IndexEffect ==
    ASSUME IInv, NEW s \in Schedulers, NEW t \in Tasks, NEW k \in Kinds,
           IndexProject(s, t, k) \/ IndexAppend(s, t, k) \/ IndexFails(s, t, k)
    PROVE  Effect
<1>1. TypeOK /\ NoWrite /\ UNCHANGED run
  BY DEF IInv, IndexProject, IndexAppend, IndexFails, NoWrite
<1>2. "none" \in Owed /\ "notify" \in Owed /\ Rest(k) \in Owed /\ task[t].status \in Owed
  BY <1>1, StateFields DEF Owed, Rest, TypeOK
<1>3. SummaryPart
  BY <1>1, <1>2, OweEffect DEF IndexProject, IndexAppend, IndexFails
<1>4. CASE IndexProject(s, t, k)
  BY <1>1, <1>4, RestUnchanged, <1>3, NoWriteEffect, RunUnchanged DEF Effect, IndexProject
<1>5. CASE IndexAppend(s, t, k)
  <2>1. index' \in [Tasks -> Statuses \union {""}]
    BY <1>1, <1>5 DEF IndexAppend, TypeOK
  <2>2. RestPart
    BY <1>1, <1>5, <2>1 DEF IndexAppend, TypeOK, RestPart
  <2>3. QED
    BY <1>1, <1>3, <2>2, NoWriteEffect, RunUnchanged DEF Effect
<1>6. CASE IndexFails(s, t, k)
  <2>1. faults' \in Nat
    BY <1>1, <1>6, FaultCounts DEF IndexFails
  <2>2. RestPart
    BY <1>1, <1>6, <2>1 DEF IndexFails, TypeOK, RestPart
  <2>3. QED
    BY <1>1, <1>3, <2>2, NoWriteEffect, RunUnchanged DEF Effect
<1>7. QED
  BY <1>4, <1>5, <1>6

LEMMA RunFailsEffect ==
    ASSUME IInv, NEW s \in Schedulers, NEW t \in Tasks, RunFails(s, t)
    PROVE  Effect
<1>1. TypeOK /\ NoWrite /\ Goto(s, t, Idle) /\ OweAfterWork(s, t, "none")
  BY DEF IInv, RunFails, NoWrite
<1>2. faults' \in Nat
  BY <1>1, FaultCounts DEF RunFails
<1>3. RestPart
  BY <1>1, <1>2 DEF RunFails, TypeOK, RestPart
<1>4. QED
  BY <1>1, <1>3, RunOwes, NoWriteEffect, IdleEffect, OweAfterWorkEffect DEF Effect

LEMMA CrashEffect ==
    ASSUME IInv, NEW s \in Schedulers, Crash(s)
    PROVE  Effect
<1>1. TypeOK /\ NoWrite
  BY DEF IInv, Crash, NoWrite
<1>2. faults' \in Nat
  BY <1>1, FaultCounts DEF Crash
<1>3. RestPart
  BY <1>1, <1>2 DEF Crash, TypeOK, RestPart
<1>4. SummaryPart
  <2>1. [t \in Tasks |-> [k \in Kinds |-> "none"]] \in [Tasks -> [Kinds -> Owed]]
    BY DEF Owed
  <2>2. QED
    BY <1>1, <2>1 DEF Crash, TypeOK, SummaryPart, Owed
<1>5. RunPart
  <2> DEFINE f == [t \in Tasks |-> Idle]
  <2>1. Idle \in Runs /\ Idle.claimed = NoExecution
    BY NoExecutionType DEF Idle, Run, Runs, Labels
  <2>2. f \in [Tasks -> Runs] /\ \A t \in Tasks : f[t].claimed = NoExecution
    BY <2>1
  <2>3. run' = [run EXCEPT ![s] = f]
    BY DEF Crash
  <2> HIDE DEF f
  <2>4. QED
    BY <1>1, <2>2, <2>3 DEF TypeOK, RunPart, KeepsClaim
<1>6. QED
  BY <1>1, <1>3, <1>4, <1>5, NoWriteEffect DEF Effect

-----------------------------------------------------------------------------
(* Task operations.                                                        *)

LEMMA CreateTaskEffect ==
    ASSUME IInv, NEW s \in Schedulers, NEW t \in Tasks, NEW x \in {"draft", "ready"},
           NEW D \in Declarations, NEW R \in Requirements, CreateTask(s, t, x, D, R)
    PROVE  Effect
<1> DEFINE new == Created(x, D, R)
<1>1. TypeOK /\ task[t].status = "" /\ Write(t, new) /\ Owe(s, t, "user", x) /\ UNCHANGED run
      /\ UNCHANGED <<index, up, enabled, faults, stalls, ops>>
  BY DEF IInv, CreateTask
<1>2. D \in SUBSET Steps /\ R \in SUBSET Outputs /\ x \in Statuses /\ x \in Owed
  BY SchedulerAssumption DEF Statuses, Owed
<1>3. ZeroExecution \in Executions /\ ZeroExecution.attempt = 0 /\ ZeroExecution.status = ""
  BY DEF ZeroExecution, Execution, Executions, NoSteps
<1>4. /\ new \in States /\ new.status = x /\ new.current = NoExecution
      /\ new.executions = [e \in ExecutionIDs |-> ZeroExecution]
  BY <1>2, <1>3, NoExecutionType DEF Created, State, States, ZeroState
<1> HIDE DEF new
<1>5. SameAttempts(task[t], new)
  BY <1>1, <1>3, <1>4 DEF IInv, TaskInv, Untouched, SameAttempts
<1>6. GoodWrite(task[t], new)
  BY <1>1, <1>2, <1>3, <1>4, <1>5, NoExecutionType DEF GoodWrite, Requeued, Statuses
<1>7. TaskPart
  BY <1>1, <1>4, <1>6, WriteEffect
<1>8. QED
  BY <1>1, <1>2, <1>7, RunOwes, OweEffect, RunUnchanged, RestUnchanged DEF Effect

LEMMA ModifyEffect ==
    ASSUME IInv, NEW s \in Schedulers, NEW t \in Tasks, NEW op, NEW st \in States,
           st.status \in Statuses, SameAttempts(task[t], st), Modify(s, t, op, st)
    PROVE  Effect
<1>1. /\ TypeOK /\ AttemptsBounded /\ Write(t, st) /\ Owe(s, t, "user", st.status)
      /\ ops' = ops + 1 /\ UNCHANGED run /\ UNCHANGED <<index, up, enabled, faults, stalls>>
  BY DEF IInv, Modify
<1>2. TaskPart
  BY <1>1, UserWrite, WriteEffect
<1>3. RestPart
  BY <1>1 DEF TypeOK, RestPart
<1>4. SummaryPart
  BY <1>1, RunOwes, OweEffect DEF Owed
<1>5. QED
  BY <1>1, <1>2, <1>3, <1>4, RunUnchanged DEF Effect

LEMMA recordTaskRunWatcherEffect ==
    ASSUME IInv, NEW s \in Schedulers, NEW t \in Tasks, recordTaskRunWatcher(s, t)
    PROVE  Effect
<1> DEFINE new == Revised(task[t], task[t].steps, task[t].outputs)
<1>1. /\ TypeOK /\ AttemptsBounded /\ Write(t, new) /\ Owe(s, t, "task_run", task[t].status)
      /\ ops' = ops + 1 /\ UNCHANGED run /\ UNCHANGED <<index, up, enabled, faults, stalls>>
      /\ task[t].status # ""
  BY DEF IInv, recordTaskRunWatcher
<1>2. task[t] \in States /\ task[t].status \in Statuses
  BY <1>1, StateFields DEF TypeOK
<1>3. new \in States /\ new.status = task[t].status /\ SameAttempts(task[t], new)
  BY <1>2, StateFields, RevisedType
<1> HIDE DEF new
<1>4. TaskPart
  BY <1>1, <1>2, <1>3, UserWrite, WriteEffect
<1>5. RestPart
  BY <1>1 DEF TypeOK, RestPart
<1>6. SummaryPart
  <2>1. "task_run" \in Kinds /\ task[t].status \in Owed
    BY <1>2 DEF Kinds, Owed
  <2>2. QED
    BY <1>1, <2>1, OweEffect
<1>7. QED
  BY <1>1, <1>4, <1>5, <1>6, RunUnchanged DEF Effect

LEMMA SetEnabledEffect ==
    ASSUME IInv, NEW s \in Schedulers, SetEnabled(s)
    PROVE  Effect
<1>1. TypeOK /\ NoWrite /\ UNCHANGED run /\ UNCHANGED summary
  BY DEF IInv, SetEnabled, NoWrite
<1>2. RestPart
  BY <1>1 DEF SetEnabled, TypeOK, RestPart
<1>3. QED
  BY <1>1, <1>2, NoWriteEffect, RunUnchanged, SummaryUnchanged DEF Effect

LEMMA StatusOperationEffect ==
    ASSUME IInv, NEW s \in Schedulers, NEW t \in Tasks, NEW x \in SetStatuses,
           SetStatus(s, t, x) \/ Reopen(s, t, x)
    PROVE  Effect
<1> DEFINE new == StatusChanged(task[t], x)
<1>1. x \in Statuses /\ task[t] \in States
  BY SchedulerAssumption DEF IInv, TypeOK
<1>2. new \in States /\ new.status = x /\ new.executions = task[t].executions
  BY <1>1, setStatusType DEF StatusChanged
<1>3. Modify(s, t, "set_status", new) \/ Modify(s, t, "reopen", new)
  BY DEF SetStatus, Reopen
<1> HIDE DEF new
<1>4. SameAttempts(task[t], new)
  BY <1>2 DEF SameAttempts
<1>5. QED
  BY <1>1, <1>2, <1>3, <1>4, ModifyEffect

LEMMA ScopesType ==
    ASSUME NEW st \in States PROVE Scopes(st) \subseteq ExecutionIDs
<1>1. MaxExecs \in Nat
  BY ProjectionAssumption
<1>2. 1 .. Manual \subseteq ExecutionIDs
  BY <1>1 DEF Manual, ExecutionIDs, NoExecution
<1>3. QED
  BY <1>2, NoExecutionType, StateFields DEF Scopes

LEMMA StepOperationEffect ==
    ASSUME IInv, NEW s \in Schedulers, NEW t \in Tasks, NEW e \in Scopes(task[t]),
           NEW i \in Steps, NEW x \in StepStatuses,
           SetStepStatus(s, t, e, i, x) \/ ReopenStep(s, t, e, i, x)
    PROVE  Effect
<1> DEFINE new == StepStatusChanged(task[t], e, {i}, x)
<1>1. task[t] \in States /\ e \in ExecutionIDs
  BY ScopesType DEF IInv, TypeOK
<1>2. Modify(s, t, "set_step_status", new) \/ Modify(s, t, "reopen_step", new)
  BY DEF SetStepStatus, ReopenStep
<1>3. new \in States /\ new.status = task[t].status /\ SameAttempts(task[t], new)
  BY <1>1, StepStatusChangedType
<1>4. task[t].status \in Statuses
  BY <1>1, <1>2, StateFields DEF Modify
<1> HIDE DEF new
<1>5. QED
  BY <1>2, <1>3, <1>4, ModifyEffect

LEMMA RevisionEffect ==
    ASSUME IInv, NEW s \in Schedulers, NEW t \in Tasks,
           \/ \E i \in Steps : AddStep(s, t, i) \/ RemoveStep(s, t, i)
           \/ \E o \in Outputs : AddOutput(s, t, o)
    PROVE  Effect
<1>1. task[t] \in States
  BY DEF IInv, TypeOK
<1>2. task[t].steps \in SUBSET Steps /\ task[t].outputs \in SUBSET Outputs
  BY <1>1, StateFields
<1>3. PICK op \in {"add_step", "remove_step", "add_output"},
           d \in SUBSET Steps, o \in SUBSET Outputs : Modify(s, t, op, Revised(task[t], d, o))
  <2>1. ASSUME NEW i \in Steps, AddStep(s, t, i)
        PROVE  Modify(s, t, "add_step", Revised(task[t], task[t].steps \union {i}, task[t].outputs))
    BY <2>1 DEF AddStep
  <2>2. ASSUME NEW i \in Steps, RemoveStep(s, t, i)
        PROVE  Modify(s, t, "remove_step", Revised(task[t], task[t].steps \ {i}, task[t].outputs))
    BY <2>2 DEF RemoveStep
  <2>3. ASSUME NEW o \in Outputs, AddOutput(s, t, o)
        PROVE  Modify(s, t, "add_output", Revised(task[t], task[t].steps, task[t].outputs \union {o}))
    BY <2>3 DEF AddOutput
  <2>4. QED
    BY <1>2, <2>1, <2>2, <2>3
<1> DEFINE new == Revised(task[t], d, o)
<1>4. new \in States /\ new.status = task[t].status /\ SameAttempts(task[t], new)
  BY <1>1, RevisedType
<1>5. task[t].status \in Statuses
  BY <1>1, <1>3, StateFields DEF Modify
<1>6. Modify(s, t, op, new)
  BY <1>3
<1> HIDE DEF new
<1>7. QED
  BY <1>4, <1>5, <1>6, ModifyEffect

LEMMA AddArtifactEffect ==
    ASSUME IInv, NEW s \in Schedulers, NEW t \in Tasks,
           NEW e \in Scopes(task[t]) \union {NoExecution}, NEW o \in Outputs,
           AddArtifact(s, t, e, o)
    PROVE  Effect
<1> DEFINE new == ArtifactsAdded(task[t], e, {o})
<1>1. task[t] \in States /\ e \in ExecutionIDs
  BY ScopesType, NoExecutionType DEF IInv, TypeOK
<1>2. Modify(s, t, "add_artifact", new)
  BY DEF AddArtifact
<1>3. new \in States /\ new.status = task[t].status /\ SameAttempts(task[t], new)
  BY <1>1, ArtifactsAddedType
<1>4. task[t].status \in Statuses
  BY <1>1, <1>2, StateFields DEF Modify
<1> HIDE DEF new
<1>5. QED
  BY <1>2, <1>3, <1>4, ModifyEffect

LEMMA CompleteTaskEffect ==
    ASSUME IInv, NEW s \in Schedulers, NEW t \in Tasks, NEW A \in SUBSET Outputs,
           NEW force \in BOOLEAN, CompleteTask(s, t, A, force)
    PROVE  Effect
<1> DEFINE mid == ArtifactsAdded(task[t], NoExecution, A)
           new == StatusChanged(mid, "completed")
<1>1. task[t] \in States /\ "completed" \in Statuses
  BY DEF IInv, TypeOK, Statuses
<1>2. Modify(s, t, "complete", new)
  BY DEF CompleteTask
<1>3. mid \in States /\ SameAttempts(task[t], mid)
  BY <1>1, NoExecutionType, ArtifactsAddedType
<1> HIDE DEF mid
<1>4. new \in States /\ new.status = "completed" /\ new.executions = mid.executions
  BY <1>1, <1>3, setStatusType DEF StatusChanged
<1> HIDE DEF new
<1>5. SameAttempts(task[t], new)
  BY <1>3, <1>4 DEF SameAttempts
<1>6. QED
  BY <1>1, <1>2, <1>4, <1>5, ModifyEffect

-----------------------------------------------------------------------------
(* What follows from an effect, and from a claim.                          *)

(* The step formula of StoppedTaskIsFrozen.                                *)
Frozen ==
    \A t \in Tasks : task[t].status \in Statuses \ {"ready", "running"} /\ ops' = ops =>
        /\ task'[t].status = task[t].status /\ task'[t].current = task[t].current
        /\ task'[t].artifacts = task[t].artifacts
        /\ \A e \in ExecutionIDs :
              /\ task'[t].executions[e].status = task[t].executions[e].status
              /\ task'[t].executions[e].steps = task[t].executions[e].steps

LEMMA EffectFrozen == ASSUME Effect PROVE Frozen
<1> SUFFICES ASSUME NEW t \in Tasks, task[t].status \in Statuses \ {"ready", "running"},
                    ops' = ops
             PROVE  SameButLease(task[t], task'[t])
  BY DEF Frozen, SameButLease
<1>1. task[t].status \notin {"", "running"}
  BY DEF Statuses
<1>2. QED
  BY <1>1 DEF Effect, TaskPart, TaskEffect, GoodWrite

LEMMA EffectInductive == ASSUME IInv, Effect PROVE IInv'
<1>1. TypeOK /\ TaskInv /\ AttemptsBounded /\ ClaimedOnce
  BY DEF IInv
<1>2. ops \in Nat /\ ops' \in Nat /\ ops <= ops' /\ MaxAttempts \in Nat
  <2>1. ops \in Nat /\ ops' \in {ops, ops + 1}
    BY <1>1 DEF TypeOK, Effect, RestPart
  <2>2. QED
    BY <2>1, SchedulerAssumption
<1>3. TypeOK'
  BY <1>2 DEF TypeOK, Effect, TaskPart, RunPart, SummaryPart, RestPart, Owed
<1>4. \A t \in Tasks : SameAttempts(task[t], task'[t])
  BY DEF Effect, TaskPart, TaskEffect, SameButLease, GoodWrite
<1>5. \A t \in Tasks, e \in ExecutionIDs :
         /\ task[t].executions[e].attempt \in Nat
         /\ task'[t].executions[e].attempt = task[t].executions[e].attempt
  BY <1>1, <1>4, ExecutionFields DEF TypeOK, SameAttempts
<1>6. AttemptsBounded'
  BY <1>1, <1>2, <1>5 DEF AttemptsBounded
<1>7. TaskInv'
  <2> SUFFICES ASSUME NEW t \in Tasks
               PROVE  /\ Untouched(task'[t]) /\ Requeued(task'[t], ops')
                      /\ latest'[t] # {} => claimable(task'[t])
    BY DEF TaskInv
  <2>1. Untouched(task[t]) /\ Requeued(task[t], ops) /\ (latest[t] # {} => claimable(task[t]))
    BY <1>1 DEF TaskInv
  <2>2. task[t].current \in ExecutionIDs
    BY <1>1, StateFields DEF TypeOK
  <2>3. CASE SameButLease(task[t], task'[t])
             /\ (latest'[t] \subseteq latest[t] \/ claimable(task[t]))
    <3>1. Untouched(task'[t])
      BY <1>5, <2>1, <2>3 DEF Untouched, SameButLease
    <3>2. Requeued(task'[t], ops')
      BY <1>2, <1>5, <2>1, <2>2, <2>3 DEF Requeued, SameButLease
    <3>3. claimable(task[t]) => claimable(task'[t])
      BY <2>2, <2>3 DEF claimable, SameButLease
    <3>4. QED
      BY <2>1, <2>3, <3>1, <3>2, <3>3
  <2>4. CASE GoodWrite(task[t], task'[t]) /\ latest'[t] = {}
    BY <2>4 DEF GoodWrite, Untouched
  <2>5. QED
    BY <2>3, <2>4 DEF Effect, TaskPart, TaskEffect
<1>8. ClaimedOnce'
  <2> SUFFICES ASSUME NEW t \in Tasks, NEW s \in Schedulers, run'[s][t].claimed # NoExecution
               PROVE  /\ run'[s][t].attempt <= task'[t].executions[run'[s][t].claimed].attempt
                      /\ \A r \in Schedulers \ {s} :
                            ~ /\ run'[r][t].claimed = run'[s][t].claimed
                              /\ run'[r][t].attempt = run'[s][t].attempt
    BY DEF ClaimedOnce, Driving
  <2>1. \A r \in Schedulers : KeepsClaim(run[r][t], run'[r][t])
    BY DEF Effect, RunPart
  <2>2. run'[s][t].claimed = run[s][t].claimed /\ run'[s][t].attempt = run[s][t].attempt
    BY <2>1 DEF KeepsClaim
  <2>3. run[s][t].claimed \in ExecutionIDs
    BY <1>1, RunFields
  <2>4. run'[s][t].attempt <= task'[t].executions[run'[s][t].claimed].attempt
    BY <1>1, <1>5, <2>2, <2>3 DEF ClaimedOnce, Driving
  <2>5. ASSUME NEW r \in Schedulers \ {s}, run'[r][t].claimed = run'[s][t].claimed,
               run'[r][t].attempt = run'[s][t].attempt
        PROVE  FALSE
    <3>1. run'[r][t].claimed = run[r][t].claimed /\ run'[r][t].attempt = run[r][t].attempt
      BY <2>1, <2>5 DEF KeepsClaim
    <3>2. QED
      BY <1>1, <2>2, <2>5, <3>1 DEF ClaimedOnce, Driving
  <2>6. QED
    BY <2>4, <2>5
<1>9. QED
  BY <1>3, <1>6, <1>7, <1>8 DEF IInv

LEMMA ExecutionStartedType ==
    ASSUME NEW st \in States, NEW e \in ExecutionIDs, NEW w \in Workers
    PROVE  LET new == ExecutionStarted(st, e, w)
           IN  /\ new \in States /\ new.status = "running" /\ new.current = e
               /\ new.executions[e].attempt = st.executions[e].attempt + 1
               /\ \A f \in ExecutionIDs \ {e} : new.executions[f] = st.executions[f]
<1> DEFINE exec == st.executions[e]
           p == ensureExecutionSteps(st.steps, exec.steps)
           x == Execution("running", exec.attempt + 1, w, "held", p)
           mid == setExecution(st, e, x)
           new == setStatus(mid, "running")
<1>1. exec.attempt \in Nat /\ exec.steps \in [Steps -> StepStatuses \union {""}]
  BY ExecutionFields
<1>2. p \in [Steps -> StepStatuses \union {""}]
  BY <1>1, ensureExecutionStepsType
<1> HIDE DEF p
<1>3. exec.attempt + 1 \in Nat
  <2>1. exec.attempt \in Nat
    BY <1>1
  <2> HIDE DEF exec
  <2>2. QED
    BY <2>1
<1>4. x \in Executions /\ x.attempt = exec.attempt + 1
  BY <1>2, <1>3 DEF Execution, Executions, Statuses
<1> HIDE DEF x
<1>5. mid \in States /\ mid.current = e /\ mid.executions = [st.executions EXCEPT ![e] = x]
  BY <1>4, setExecutionType
<1> HIDE DEF mid
<1>6. /\ new \in States /\ new.status = "running" /\ new.current = mid.current
      /\ new.executions = mid.executions
  BY <1>5, setStatusType DEF Statuses
<1>7. ExecutionStarted(st, e, w) = new
  BY DEF ExecutionStarted, mid, x, p
<1> HIDE DEF new
<1>8. QED
  BY <1>4, <1>5, <1>6, <1>7, StateFields, ZenonT(30)

LEMMA FreshType ==
    ASSUME NEW st \in States, NEW e \in ClaimTargets(st)
    PROVE  /\ e \in ExecutionIDs
           /\ \/ e = st.current /\ st.executions[e].status = "interrupted"
              \/ st.executions[e].attempt = 0
<1>1. MaxExecs \in Nat
  BY ProjectionAssumption
<1>2. 1 .. MaxExecs \subseteq ExecutionIDs
  BY <1>1 DEF ExecutionIDs, NoExecution, Manual
<1>3. QED
  BY <1>2, StateFields DEF ClaimTargets, FreshExecutions

LEMMA ClaimAppendInductive ==
    ASSUME IInv, NEW s \in Schedulers, NEW t \in Tasks, ClaimAppend(s, t)
    PROVE  IInv' /\ Frozen
<1>1. TypeOK /\ TaskInv /\ AttemptsBounded /\ ClaimedOnce
      /\ UNCHANGED <<index, up, enabled, faults, stalls, ops>>
  BY DEF IInv, ClaimAppend
<1>2. CASE Goto(s, t, Idle) /\ NoWrite /\ OweNothing
  <2>1. Effect
    BY <1>1, <1>2, NoWriteEffect, IdleEffect, SummaryUnchanged, RestUnchanged
    DEF Effect, OweNothing
  <2>2. QED
    BY <2>1, EffectInductive, EffectFrozen
<1>3. CASE s \in latest[t] /\ \E e \in ClaimTargets(task[t]) :
                /\ Write(t, ExecutionStarted(task[t], e, s))
                /\ Owe(s, t, "run", "project")
                /\ Goto(s, t, Run("open", NoExecution, {}, {}, e,
                                  task[t].executions[e].attempt + 1))
  <2>1. PICK e \in ClaimTargets(task[t]) :
                /\ Write(t, ExecutionStarted(task[t], e, s))
                /\ Owe(s, t, "run", "project")
                /\ Goto(s, t, Run("open", NoExecution, {}, {}, e,
                                  task[t].executions[e].attempt + 1))
    BY <1>3
  <2> DEFINE n == task[t].executions[e].attempt
             new == ExecutionStarted(task[t], e, s)
             r == Run("open", NoExecution, {}, {}, e, n + 1)
  <2>2. task[t] \in States /\ s \in Workers /\ ops \in Nat
    BY <1>1 DEF TypeOK, Schedulers
  <2>3. /\ e \in ExecutionIDs
        /\ \/ e = task[t].current /\ task[t].executions[e].status = "interrupted"
           \/ n = 0
    BY <2>2, FreshType
  <2>4. n \in Nat /\ MaxAttempts \in Nat \ {0}
    BY <2>2, <2>3, ExecutionFields, SchedulerAssumption
  <2>5. claimable(task[t]) /\ Requeued(task[t], ops)
    BY <1>1, <1>3 DEF TaskInv
  <2>6. n < MaxAttempts + ops
    <3>1. CASE n = 0
      BY <2>2, <2>4, <3>1
    <3>2. CASE e = task[t].current /\ task[t].executions[e].status = "interrupted"
      BY <2>5, <3>2 DEF claimable, Requeued
    <3>3. QED
      BY <2>3, <3>1, <3>2
  <2>7. /\ new \in States /\ new.status = "running" /\ new.current = e
        /\ new.executions[e].attempt = n + 1
        /\ \A f \in ExecutionIDs \ {e} : new.executions[f] = task[t].executions[f]
    BY <2>2, <2>3, ExecutionStartedType
  <2>8. Write(t, new) /\ Owe(s, t, "run", "project") /\ Goto(s, t, r)
    BY <2>1
  <2> HIDE DEF new, n
  <2>9. r \in Runs /\ r.claimed = e /\ r.attempt = n + 1
    BY <2>3, <2>4, NoExecutionType DEF Run, Runs, Labels
  <2> HIDE DEF r
  <2>10. /\ task' \in [Tasks -> States] /\ latest' \in [Tasks -> SUBSET Schedulers]
         /\ run' \in [Schedulers -> [Tasks -> Runs]]
    BY <1>1, <2>7, <2>8, <2>9 DEF TypeOK, Write, Goto
  <2>11. /\ task'[t] = new /\ latest'[t] = {} /\ run'[s][t] = r
         /\ \A u \in Tasks \ {t} : task'[u] = task[u] /\ latest'[u] = latest[u]
         /\ \A q \in Schedulers, u \in Tasks : q # s \/ u # t => run'[q][u] = run[q][u]
    BY <1>1, <2>8 DEF TypeOK, Write, Goto
  <2>12. TypeOK'
    <3>1. SummaryPart
      BY <1>1, <2>8, RunOwes, OweEffect
    <3>2. QED
      BY <1>1, <2>10, <3>1 DEF TypeOK, SummaryPart, Owed
  <2>13. TaskInv'
    <3> SUFFICES ASSUME NEW u \in Tasks
                 PROVE  /\ Untouched(task'[u]) /\ Requeued(task'[u], ops')
                        /\ latest'[u] # {} => claimable(task'[u])
      BY DEF TaskInv
    <3>1. CASE u = t
      BY <2>7, <2>11, <3>1 DEF Untouched, Requeued
    <3>2. CASE u # t
      BY <1>1, <2>11, <3>2 DEF TaskInv
    <3>3. QED
      BY <3>1, <3>2
  <2>14. AttemptsBounded'
    <3> SUFFICES ASSUME NEW u \in Tasks, NEW f \in ExecutionIDs
                 PROVE  task'[u].executions[f].attempt <= MaxAttempts + ops'
      BY DEF AttemptsBounded
    <3>1. CASE u = t /\ f = e
      BY <1>1, <2>2, <2>4, <2>6, <2>7, <2>11, <3>1
    <3>2. CASE u # t \/ f # e
      BY <1>1, <2>7, <2>11, <3>2 DEF AttemptsBounded
    <3>3. QED
      BY <3>1, <3>2
  <2>15. ClaimedOnce'
    <3> SUFFICES ASSUME NEW u \in Tasks, NEW q \in Schedulers, run'[q][u].claimed # NoExecution
                 PROVE  /\ run'[q][u].attempt <= task'[u].executions[run'[q][u].claimed].attempt
                        /\ \A p \in Schedulers \ {q} :
                              ~ /\ run'[p][u].claimed = run'[q][u].claimed
                                /\ run'[p][u].attempt = run'[q][u].attempt
      BY DEF ClaimedOnce, Driving
    <3>1. ASSUME NEW p \in Schedulers, run[p][t].claimed = e, e # NoExecution
          PROVE  run[p][t].attempt \in Nat /\ run[p][t].attempt <= n
      BY <1>1, <3>1, RunFields DEF ClaimedOnce, Driving, n
    <3>2. CASE u # t
      BY <1>1, <2>11, <3>2 DEF ClaimedOnce, Driving
    <3>3. CASE u = t /\ q = s
      <4>1. run'[q][u].attempt <= task'[u].executions[run'[q][u].claimed].attempt
        BY <2>4, <2>7, <2>9, <2>11, <3>3
      <4>2. ASSUME NEW p \in Schedulers \ {q}, run'[p][u].claimed = run'[q][u].claimed,
                   run'[p][u].attempt = run'[q][u].attempt
            PROVE  FALSE
        <5>1. run[p][t].claimed = e /\ run[p][t].attempt = n + 1 /\ e # NoExecution
          BY <2>9, <2>11, <3>3, <4>2
        <5>2. QED
          BY <2>4, <3>1, <5>1
      <4>3. QED
        BY <4>1, <4>2
    <3>4. CASE u = t /\ q # s
      <4>1. run'[q][u] = run[q][t] /\ run[q][t].claimed \in ExecutionIDs
            /\ run[q][t].attempt \in Nat
        BY <1>1, <2>11, <3>4, RunFields
      <4>2. run'[q][u].attempt <= task'[u].executions[run'[q][u].claimed].attempt
        <5>1. CASE run[q][t].claimed = e
          <6>1. run[q][t].attempt <= n
            BY <3>1, <4>1, <5>1
          <6>2. run[q][t].attempt <= n + 1
            BY <2>4, <4>1, <6>1
          <6>3. QED
            BY <2>7, <2>11, <3>4, <4>1, <5>1, <6>2
        <5>2. CASE run[q][t].claimed # e
          BY <1>1, <2>7, <2>11, <3>4, <4>1, <5>2 DEF ClaimedOnce, Driving
        <5>3. QED
          BY <5>1, <5>2
      <4>3. ASSUME NEW p \in Schedulers \ {q}, run'[p][u].claimed = run'[q][u].claimed,
                   run'[p][u].attempt = run'[q][u].attempt
            PROVE  FALSE
        <5>1. CASE p = s
          <6>1. run[q][t].claimed = e /\ run[q][t].attempt = n + 1 /\ e # NoExecution
            BY <2>9, <2>11, <3>4, <4>1, <4>3, <5>1
          <6>2. QED
            BY <2>4, <3>1, <6>1
        <5>2. CASE p # s
          BY <1>1, <2>11, <3>4, <4>1, <4>3, <5>2 DEF ClaimedOnce, Driving
        <5>3. QED
          BY <5>1, <5>2
      <4>4. QED
        BY <4>2, <4>3
    <3>5. QED
      BY <3>2, <3>3, <3>4
  <2>16. Frozen
    BY <2>5, <2>11 DEF Frozen, claimable
  <2>17. QED
    BY <2>12, <2>13, <2>14, <2>15, <2>16 DEF IInv
<1>4. QED
  BY <1>2, <1>3 DEF ClaimAppend

-----------------------------------------------------------------------------
(* The theorems.                                                           *)

LEMMA InitInductive == Init => IInv
<1> SUFFICES ASSUME Init PROVE IInv
  OBVIOUS
<1>1. ZeroExecution \in Executions /\ ZeroExecution.attempt = 0
  BY DEF ZeroExecution, Execution, Executions, NoSteps
<1>2. /\ ZeroState \in States /\ ZeroState.status = ""
      /\ ZeroState.executions = [e \in ExecutionIDs |-> ZeroExecution]
  BY <1>1, NoExecutionType DEF ZeroState, State, States
<1>3. Idle \in Runs /\ Idle.claimed = NoExecution
  BY NoExecutionType DEF Idle, Run, Runs, Labels
<1>4. TypeOK
  BY <1>2, <1>3 DEF Init, TypeOK
<1>5. TaskInv
  BY <1>1, <1>2 DEF Init, TaskInv, Untouched, Requeued
<1>6. AttemptsBounded
  <2>1. MaxAttempts \in Nat
    BY SchedulerAssumption
  <2>2. ops = 0 /\ \A t \in Tasks, e \in ExecutionIDs : task[t].executions[e].attempt = 0
    BY <1>1, <1>2 DEF Init
  <2>3. QED
    BY <2>1, <2>2 DEF AttemptsBounded
<1>7. ClaimedOnce
  BY <1>3 DEF Init, ClaimedOnce, Driving
<1>8. QED
  BY <1>4, <1>5, <1>6, <1>7 DEF IInv

LEMMA StutterEffect == ASSUME IInv, UNCHANGED vars PROVE Effect
BY NoWriteEffect, RunUnchanged, SummaryUnchanged, RestUnchanged DEF Effect, IInv, vars, NoWrite

LEMMA NextInductive == ASSUME IInv, [Next]_vars PROVE IInv' /\ Frozen
<1>1. ASSUME Effect PROVE IInv' /\ Frozen
  BY <1>1, EffectInductive, EffectFrozen
<1>2. ASSUME NEW s \in Schedulers, NEW t \in Tasks, Drive(s, t) PROVE IInv' /\ Frozen
  <2>1. CASE ClaimRead(s, t)
    BY <1>1, <2>1, ClaimReadEffect
  <2>2. CASE ClaimAppend(s, t)
    BY <2>2, ClaimAppendInductive
  <2>3. CASE \E A \in SUBSET Outputs : WholeTaskReturns(s, t, A)
    BY <1>1, <2>3, WholeTaskReturnsEffect
  <2>4. CASE OpenTask(s, t) \/ ValidateWholeTask(s, t) \/ Loop(s, t) \/ PassEnds(s, t)
    BY <1>1, <2>4, ReadEffect
  <2>5. CASE Finalize(s, t)
    BY <1>1, <2>5, FinalizeEffect
  <2>6. CASE CancelDependents(s, t)
    BY <1>1, <2>6, CancelDependentsEffect
  <2>7. CASE BlockStep(s, t)
    BY <1>1, <2>7, BlockStepEffect
  <2>8. CASE DispatchStep(s, t)
    BY <1>1, <2>8, DispatchStepEffect
  <2>9. CASE \E A \in SUBSET Outputs, x \in {"completed", "failed"} : StepReturns(s, t, x, A)
    BY <1>1, <2>9, StepReturnsEffect
  <2>10. CASE FinalizerReturns(s, t)
    BY <1>1, <2>10, FinalizerReturnsEffect
  <2>11. CASE \/ EndExecution(s, t, "fail", "failed")
              \/ EndExecution(s, t, "finalizeFail", "failed")
              \/ EndExecution(s, t, "complete", "completed")
    BY <1>1, <2>11, EndExecutionEffect
  <2>12. CASE BlockTask(s, t)
    BY <1>1, <2>12, BlockTaskEffect
  <2>13. QED
    BY <1>2, <2>1, <2>2, <2>3, <2>4, <2>5, <2>6, <2>7, <2>8, <2>9, <2>10, <2>11, <2>12 DEF Drive
<1>3. ASSUME NEW s \in Schedulers, NEW t \in Tasks, Operate(s, t) PROVE IInv' /\ Frozen
  <2>1. CASE \E x \in {"draft", "ready"}, D \in Declarations, R \in Requirements :
                CreateTask(s, t, x, D, R)
    BY <1>1, <2>1, CreateTaskEffect
  <2>2. CASE \E x \in SetStatuses : SetStatus(s, t, x) \/ Reopen(s, t, x)
    BY <1>1, <2>2, StatusOperationEffect
  <2>3. CASE \E e \in Scopes(task[t]), i \in Steps, x \in StepStatuses :
                SetStepStatus(s, t, e, i, x) \/ ReopenStep(s, t, e, i, x)
    BY <1>1, <2>3, StepOperationEffect
  <2>4. CASE \/ \E i \in Steps : AddStep(s, t, i) \/ RemoveStep(s, t, i)
             \/ \E o \in Outputs : AddOutput(s, t, o)
    BY <1>1, <2>4, RevisionEffect
  <2>5. CASE \E o \in Outputs, e \in Scopes(task[t]) \union {NoExecution} :
                AddArtifact(s, t, e, o)
    BY <1>1, <2>5, AddArtifactEffect
  <2>6. CASE \E A \in SUBSET Outputs, force \in BOOLEAN : CompleteTask(s, t, A, force)
    BY <1>1, <2>6, CompleteTaskEffect
  <2>7. CASE recordTaskRunWatcher(s, t) \/ SubmitTask(s, t)
    BY <1>1, <2>7, recordTaskRunWatcherEffect, SubmitTaskEffect
  <2>8. CASE \E k \in {"user", "task_run"} : NotifyTaskReady(s, t, k)
    BY <1>1, <2>8, NotifyEffect
  <2>9. QED
    BY <1>3, <2>1, <2>2, <2>3, <2>4, <2>5, <2>6, <2>7, <2>8 DEF Operate
<1>4. ASSUME NEW s \in Schedulers, NEW t \in Tasks,
             \/ TickReady(s, t) \/ ReconcileExecution(s, t) \/ RenewLease(s, t) \/ RunFails(s, t)
             \/ \E k \in Kinds : IndexProject(s, t, k) \/ IndexAppend(s, t, k) \/ IndexFails(s, t, k)
      PROVE  IInv' /\ Frozen
  BY <1>1, <1>4, TickReadyEffect, ReconcileExecutionEffect, RenewLeaseEffect, RunFailsEffect,
     IndexEffect
<1>5. ASSUME \/ \E t \in Tasks : LeaseExpires(t)
             \/ \E s \in Schedulers : Crash(s) \/ SetEnabled(s)
      PROVE  IInv' /\ Frozen
  BY <1>1, <1>5, LeaseExpiresEffect, CrashEffect, SetEnabledEffect
<1>6. CASE Next
  BY <1>2, <1>3, <1>4, <1>5, <1>6 DEF Next
<1>7. CASE UNCHANGED vars
  BY <1>1, <1>7, StutterEffect
<1>8. QED
  BY <1>6, <1>7

(* The inductive invariant holds in every reachable state: whatever the    *)
(* interleaving of claims, worker results, lease expiries, reconciliation, *)
(* task operations, crashes and store errors.                              *)
THEOREM Invariance == Spec => []IInv
<1>1. Init => IInv
  BY InitInductive
<1>2. IInv /\ [Next]_vars => IInv'
  BY NextInductive
<1>3. QED
  BY <1>1, <1>2, PTL DEF Spec

(* Types: the projection of a task, its executions and the goroutine       *)
(* records stay well formed.                                               *)
THEOREM TypeCorrect == Spec => []TypeOK
<1>1. IInv => TypeOK
  BY DEF IInv
<1>2. QED
  BY <1>1, Invariance, PTL

(* Two scheduler instances never hold the same claim: the append of claim  *)
(* with the expected sequence gives each attempt to one goroutine.         *)
THEOREM ClaimsAreExclusive == Spec => []ClaimedOnce
<1>1. IInv => ClaimedOnce
  BY DEF IInv
<1>2. QED
  BY <1>1, Invariance, PTL

(* Reconciliation never takes an execution beyond MaxAttempts; each        *)
(* further attempt was asked for by a task operation.                      *)
THEOREM RetriesAreBounded == Spec => []AttemptsBounded
<1>1. IInv => AttemptsBounded
  BY DEF IInv
<1>2. QED
  BY <1>1, Invariance, PTL

(* No step of a scheduler changes the lifecycle of a task that a session   *)
(* cancelled, blocked, completed or put back to draft: the re-check of     *)
(* every append of a driving goroutine suffices.                           *)
THEOREM StoppedTasksStayFrozen == Spec => StoppedTaskIsFrozen
<1>1. IInv /\ [Next]_vars => [Frozen]_vars
  BY NextInductive
<1>2. QED
  BY <1>1, Invariance, PTL DEF Spec, StoppedTaskIsFrozen, Frozen

-----------------------------------------------------------------------------
(* The limits of a scheduler, for any number of processes, tasks and       *)
(* roles: what reserve checks once, before a goroutine is started, holds   *)
(* for as long as the goroutine, its worker or its last index append is    *)
(* under way.  A step either starts one run that reserve let through or    *)
(* starts none.                                                            *)

(* A step leaves the goroutines, and the index appends they owe, of every  *)
(* task but t of s alone.                                                  *)
OtherRuns(s, t) ==
    \A r \in Schedulers, u \in Tasks : r # s \/ u # t => run'[r][u] = run[r][u]
OtherDebts(s, t) ==
    \A r \in Schedulers, u \in Tasks :
        r # s \/ u # t => summary'[r][u]["run"] = summary[r][u]["run"]

StartsNone == \A r \in Schedulers : Running(r)' \subseteq Running(r)
Starts(s, t) ==
    /\ reserve(s, t)
    /\ Running(s)' \subseteq Running(s) \cup {t}
    /\ \A r \in Schedulers \ {s} : Running(r)' \subseteq Running(r)

LEMMA GotoLocal ==
    ASSUME TypeOK, NEW s \in Schedulers, NEW t \in Tasks, NEW r, Goto(s, t, r)
    PROVE  OtherRuns(s, t)
BY DEF TypeOK, Goto, OtherRuns

LEMMA OweLocal ==
    ASSUME TypeOK, NEW s \in Schedulers, NEW t \in Tasks, NEW k \in Kinds, NEW x, Owe(s, t, k, x)
    PROVE  /\ OtherDebts(s, t)
           /\ k # "run" => summary'[s][t]["run"] = summary[s][t]["run"]
<1>1. summary \in [Schedulers -> [Tasks -> [Kinds -> Owed]]]
  BY DEF TypeOK, Owed
<1>2. /\ summary' = [summary EXCEPT ![s] = summary'[s]]
      /\ summary'[s] = [summary[s] EXCEPT ![t] = summary'[s][t]]
      /\ summary'[s][t] = [summary[s][t] EXCEPT ![k] = x]
  BY <1>1 DEF Owe
<1>3. \A r \in Schedulers, u \in Tasks : r # s \/ u # t => summary'[r][u] = summary[r][u]
  BY <1>1, <1>2
<1>4. k # "run" => summary'[s][t]["run"] = summary[s][t]["run"]
  BY <1>1, <1>2, RunOwes
<1> QED BY <1>3, <1>4 DEF OtherDebts

LEMMA OweAfterWorkLocal ==
    ASSUME TypeOK, NEW s \in Schedulers, NEW t \in Tasks, NEW x, OweAfterWork(s, t, x)
    PROVE  OtherDebts(s, t)
BY DEF TypeOK, OweAfterWork, OtherDebts

LEMMA OweNothingLocal ==
    ASSUME NEW s \in Schedulers, NEW t \in Tasks, UNCHANGED summary
    PROVE  OtherDebts(s, t)
BY DEF OtherDebts

(* A step of a goroutine that is already counted starts none.              *)
LEMMA CountedStep ==
    ASSUME NEW s \in Schedulers, NEW t \in Tasks, isRunning(s, t), OtherRuns(s, t), OtherDebts(s, t)
    PROVE  StartsNone
BY DEF StartsNone, Running, isRunning, OtherRuns, OtherDebts

(* Nor does a step that touches no goroutine and no debt of one.           *)
LEMMA OutsideStep ==
    ASSUME \A r \in Schedulers, u \in Tasks :
              run'[r][u] = run[r][u] /\ summary'[r][u]["run"] = summary[r][u]["run"]
    PROVE  StartsNone
BY DEF StartsNone, Running, isRunning

LEMMA OweOutside ==
    ASSUME TypeOK, NEW s \in Schedulers, NEW t \in Tasks, NEW k \in Kinds \ {"run"}, NEW x,
           Owe(s, t, k, x), UNCHANGED run
    PROVE  StartsNone
<1>1. OtherDebts(s, t) /\ summary'[s][t]["run"] = summary[s][t]["run"]
  BY OweLocal
<1>2. \A r \in Schedulers, u \in Tasks :
         run'[r][u] = run[r][u] /\ summary'[r][u]["run"] = summary[r][u]["run"]
  BY <1>1 DEF OtherDebts
<1> QED BY <1>2, OutsideStep

(* A run starts at its claim, of a task reserve let through.               *)
LEMMA StartStep ==
    ASSUME TypeOK, NEW s \in Schedulers, NEW t \in Tasks, reserve(s, t), Goto(s, t, AtClaim),
           OtherDebts(s, t)
    PROVE  Starts(s, t)
<1>1. OtherRuns(s, t)
  BY GotoLocal
<1> QED BY <1>1 DEF Starts, Running, isRunning, OtherRuns, OtherDebts

-----------------------------------------------------------------------------
(* The steps of a driving goroutine.                                       *)
LEMMA DriveLocal ==
    ASSUME TypeOK, NEW s \in Schedulers, NEW t \in Tasks, Drive(s, t)
    PROVE  isRunning(s, t) /\ OtherRuns(s, t) /\ OtherDebts(s, t)
<1> USE DEF At, isRunning, Jump, Sees, Skip, NoWrite, OweNothing
<1>0. "run" \in Kinds
  BY RunOwes
<1>1. CASE ClaimRead(s, t) \/ OpenTask(s, t) \/ ValidateWholeTask(s, t) \/ PassEnds(s, t)
  <2>1. run[s][t].pc # "idle" /\ UNCHANGED summary /\ \E r : Goto(s, t, r)
    BY <1>1 DEF ClaimRead, OpenTask, ValidateWholeTask, PassEnds
  <2> QED BY <2>1, GotoLocal, OweNothingLocal
<1>2. CASE Loop(s, t)
  <2>1. run[s][t].pc # "idle" /\ UNCHANGED summary /\ \E r : Goto(s, t, r)
    BY <1>2 DEF Loop
  <2> QED BY <2>1, GotoLocal, OweNothingLocal
<1>3. CASE \/ ClaimAppend(s, t) \/ Finalize(s, t) \/ CancelDependents(s, t) \/ BlockStep(s, t)
           \/ DispatchStep(s, t) \/ BlockTask(s, t)
  <2>1. run[s][t].pc # "idle" /\ \E r : Goto(s, t, r)
    BY <1>3 DEF ClaimAppend, Finalize, CancelDependents, BlockStep, DispatchStep, BlockTask
  <2>2. UNCHANGED summary \/ \E x : Owe(s, t, "run", x)
    BY <1>3 DEF ClaimAppend, Finalize, CancelDependents, BlockStep, DispatchStep, BlockTask
  <2> QED BY <1>0, <2>1, <2>2, GotoLocal, OweNothingLocal, OweLocal
<1>4. CASE \/ \E A \in SUBSET Outputs : WholeTaskReturns(s, t, A)
           \/ \E A \in SUBSET Outputs, x \in {"completed", "failed"} : StepReturns(s, t, x, A)
           \/ FinalizerReturns(s, t)
  <2>1. run[s][t].pc # "idle" /\ \E r : Goto(s, t, r)
    BY <1>4 DEF WholeTaskReturns, StepReturns, FinalizerReturns
  <2>2. \E x : OweAfterWork(s, t, x)
    BY <1>4 DEF WholeTaskReturns, StepReturns, FinalizerReturns
  <2> QED BY <2>1, <2>2, GotoLocal, OweAfterWorkLocal
<1>5. CASE \E from \in {"fail", "finalizeFail", "complete"}, x \in {"failed", "completed"} :
              EndExecution(s, t, from, x)
  <2>1. run[s][t].pc # "idle" /\ (\E r : Goto(s, t, r)) /\ \E x : Owe(s, t, "run", x)
    BY <1>5 DEF EndExecution
  <2> QED BY <1>0, <2>1, GotoLocal, OweLocal
<1> QED BY <1>1, <1>2, <1>3, <1>4, <1>5 DEF Drive

(* The task operations, and the notification of a ready task.              *)
LEMMA OperateStarts ==
    ASSUME TypeOK, NEW s \in Schedulers, NEW t \in Tasks, Operate(s, t)
    PROVE  StartsNone \/ Starts(s, t)
<1>0. {"user", "task_run", "note"} \subseteq Kinds \ {"run"}
  BY DEF Kinds
<1>1. ASSUME NEW op, NEW st, Modify(s, t, op, st) PROVE StartsNone
  BY <1>0, <1>1, OweOutside DEF Modify
<1>2. CASE \E x \in {"draft", "ready"}, D \in Declarations, R \in Requirements :
              CreateTask(s, t, x, D, R)
  BY <1>0, <1>2, OweOutside DEF CreateTask
<1>3. CASE \/ \E x \in SetStatuses : SetStatus(s, t, x) \/ Reopen(s, t, x)
           \/ \E e \in Scopes(task[t]), i \in Steps, x \in StepStatuses :
                 SetStepStatus(s, t, e, i, x) \/ ReopenStep(s, t, e, i, x)
  BY <1>1, <1>3 DEF SetStatus, Reopen, SetStepStatus, ReopenStep
<1>4. CASE \/ \E i \in Steps : AddStep(s, t, i) \/ RemoveStep(s, t, i)
           \/ \E o \in Outputs : \/ AddOutput(s, t, o)
                                 \/ \E e \in Scopes(task[t]) \union {NoExecution} :
                                       AddArtifact(s, t, e, o)
           \/ \E A \in SUBSET Outputs, force \in BOOLEAN : CompleteTask(s, t, A, force)
  BY <1>1, <1>4 DEF AddStep, RemoveStep, AddOutput, AddArtifact, CompleteTask
<1>5. CASE recordTaskRunWatcher(s, t)
  BY <1>0, <1>5, OweOutside DEF recordTaskRunWatcher
<1>6. CASE SubmitTask(s, t)
  <2>1. Owe(s, t, "task_run", "none") /\ OtherDebts(s, t)
    BY <1>0, <1>6, OweLocal DEF SubmitTask
  <2>2. UNCHANGED run \/ (reserve(s, t) /\ Goto(s, t, AtClaim))
    BY <1>6 DEF SubmitTask
  <2> QED BY <1>0, <2>1, <2>2, OweOutside, StartStep
<1>7. ASSUME NEW k \in {"user", "task_run"}, NotifyTaskReady(s, t, k)
      PROVE  StartsNone \/ Starts(s, t)
  <2>1. CASE Owe(s, t, k, Rest(k))
    <3>1. OtherDebts(s, t)
      BY <1>0, <2>1, OweLocal
    <3>2. UNCHANGED run \/ (reserve(s, t) /\ Goto(s, t, AtClaim))
      BY <1>7 DEF NotifyTaskReady
    <3> QED BY <1>0, <2>1, <3>1, <3>2, OweOutside, StartStep
  <2>2. CASE /\ UNCHANGED run
             /\ summary' = [summary EXCEPT ![s][t][k] = Rest(k), ![s][t]["note"] = "project"]
    <3>1. \A r \in Schedulers, u \in Tasks : summary'[r][u]["run"] = summary[r][u]["run"]
      <4> DEFINE D == [summary EXCEPT ![s][t][k] = Rest(k)]
      <4>1. summary \in [Schedulers -> [Tasks -> [Kinds -> Owed]]]
        BY DEF TypeOK, Owed
      <4>2. k \in Kinds /\ "note" \in Kinds /\ "run" \in Kinds /\ k # "run"
        BY <1>0 DEF Kinds
      <4>3. summary' = [D EXCEPT ![s][t]["note"] = "project"]
        BY <2>2
      <4>4. /\ D = [summary EXCEPT ![s] = D[s]] /\ D[s] = [summary[s] EXCEPT ![t] = D[s][t]]
            /\ D[s][t] = [summary[s][t] EXCEPT ![k] = Rest(k)]
        BY <4>1
      <4>5. \A r \in Schedulers, u \in Tasks : D[r][u]["run"] = summary[r][u]["run"]
        BY <4>1, <4>2, <4>4
      <4>6. /\ summary' = [D EXCEPT ![s] = summary'[s]]
            /\ summary'[s] = [D[s] EXCEPT ![t] = summary'[s][t]]
            /\ summary'[s][t] = [D[s][t] EXCEPT !["note"] = "project"]
        BY <4>1, <4>3
      <4>7. \A r \in Schedulers, u \in Tasks : summary'[r][u]["run"] = D[r][u]["run"]
        BY <4>1, <4>2, <4>6
      <4> QED BY <4>5, <4>7
    <3> QED BY <2>2, <3>1, OutsideStep
  <2> QED BY <1>7, <2>1, <2>2 DEF NotifyTaskReady
<1> QED BY <1>2, <1>3, <1>4, <1>5, <1>6, <1>7 DEF Operate

(* Every step starts at most one run, and only one reserve let through.    *)
LEMMA NextStarts ==
    ASSUME TypeOK, [Next]_vars
    PROVE  StartsNone \/ \E s \in Schedulers, t \in Tasks : Starts(s, t)
<1>0. "run" \in Kinds /\ {"tick", "beat"} \subseteq Kinds \ {"run"}
  BY DEF Kinds
<1>1. ASSUME NEW s \in Schedulers, NEW t \in Tasks, Drive(s, t) PROVE StartsNone
  BY <1>1, DriveLocal, CountedStep
<1>2. ASSUME NEW s \in Schedulers, NEW t \in Tasks, TickReady(s, t) PROVE Starts(s, t)
  BY <1>2, OweNothingLocal, StartStep DEF TickReady
<1>3. ASSUME NEW s \in Schedulers, NEW t \in Tasks, ReconcileExecution(s, t) \/ RenewLease(s, t)
      PROVE  StartsNone
  <2>1. UNCHANGED run /\ \E k \in {"tick", "beat"} : \E x : Owe(s, t, k, x)
    BY <1>3 DEF ReconcileExecution, RenewLease
  <2> QED BY <1>0, <2>1, OweOutside
<1>4. ASSUME NEW s \in Schedulers, NEW t \in Tasks, NEW k \in Kinds,
             IndexProject(s, t, k) \/ IndexAppend(s, t, k) \/ IndexFails(s, t, k)
      PROVE  StartsNone
  <2>1. UNCHANGED run /\ (\E x : Owe(s, t, k, x)) /\ summary[s][t][k] # "none"
    BY <1>4 DEF IndexProject, IndexAppend, IndexFails, Statuses
  <2>2. CASE k = "run"
    <3>1. isRunning(s, t) /\ OtherRuns(s, t) /\ OtherDebts(s, t)
      BY <2>1, <2>2, OweLocal DEF isRunning, OtherRuns
    <3> QED BY <3>1, CountedStep
  <2> QED BY <2>1, <2>2, OweOutside
<1>5. ASSUME NEW s \in Schedulers, NEW t \in Tasks, RunFails(s, t) PROVE StartsNone
  BY <1>5, GotoLocal, OweAfterWorkLocal, CountedStep DEF RunFails
<1>6. ASSUME NEW s \in Schedulers, Crash(s) PROVE StartsNone
  <2>1. ASSUME NEW r \in Schedulers, r # s PROVE run'[r] = run[r] /\ summary'[r] = summary[r]
    BY <1>6, <2>1 DEF Crash, TypeOK
  <2>2. ASSUME NEW u \in Tasks PROVE run'[s][u] = Idle /\ summary'[s][u]["run"] = "none"
    <3>1. /\ run' = [run EXCEPT ![s] = [t \in Tasks |-> Idle]]
          /\ summary' = [summary EXCEPT ![s] = [t \in Tasks |-> [k \in Kinds |-> "none"]]]
      BY <1>6 DEF Crash
    <3>2. run'[s] = [t \in Tasks |-> Idle]
      BY <3>1 DEF TypeOK
    <3>3. summary'[s] = [t \in Tasks |-> [k \in Kinds |-> "none"]]
      BY <3>1 DEF TypeOK
    <3> QED BY <1>0, <3>2, <3>3
  <2>3. Idle.pc = "idle"
    BY DEF Idle, Run
  <2>4. ASSUME NEW r \in Schedulers PROVE Running(r)' \subseteq Running(r)
    BY <2>1, <2>2, <2>3 DEF Running, isRunning
  <2> QED BY <2>4 DEF StartsNone
<1>7. ASSUME \/ \E t \in Tasks : LeaseExpires(t)
             \/ \E s \in Schedulers : SetEnabled(s)
             \/ UNCHANGED vars
      PROVE  StartsNone
  <2>1. UNCHANGED <<run, summary>>
    BY <1>7 DEF LeaseExpires, SetEnabled, vars
  <2> QED BY <2>1, OutsideStep
<1> QED BY <1>1, <1>2, <1>3, <1>4, <1>5, <1>6, <1>7, OperateStarts DEF Next

-----------------------------------------------------------------------------
(* The counts.                                                             *)
LEMMA AddOne ==
    ASSUME NEW A, IsFiniteSet(A), NEW B, NEW x, B \subseteq A \cup {x}
    PROVE  /\ IsFiniteSet(B)
           /\ Cardinality(A) \in Nat /\ Cardinality(B) \in Nat
           /\ Cardinality(B) <= Cardinality(A) + 1
<1>1. /\ IsFiniteSet(A \cup {x}) /\ Cardinality(A) \in Nat
      /\ Cardinality(A \cup {x}) = Cardinality(A) \/ Cardinality(A \cup {x}) = Cardinality(A) + 1
  BY FS_AddElement, FS_CardinalityType
<1>2. IsFiniteSet(B) /\ Cardinality(B) <= Cardinality(A \cup {x})
  BY <1>1, FS_Subset
<1> QED BY <1>1, <1>2, FS_CardinalityType

OfRole(s, t) == {u \in Running(s) : RoleOf[u] = RoleOf[t]}

LEMMA RunningFinite ==
    ASSUME NEW s, NEW t PROVE IsFiniteSet(Running(s)) /\ IsFiniteSet(OfRole(s, t))
<1>1. Running(s) \subseteq Tasks /\ OfRole(s, t) \subseteq Tasks
  BY DEF Running, OfRole
<1> QED BY <1>1, SchedulerAssumption, FS_Subset

LEMMA Fewer ==
    ASSUME NEW A, IsFiniteSet(A), NEW B, B \subseteq A, NEW n \in Nat, Cardinality(A) <= n
    PROVE  Cardinality(B) <= n
<1>1. IsFiniteSet(B) /\ Cardinality(B) <= Cardinality(A)
  BY FS_Subset
<1> QED BY <1>1, FS_CardinalityType

LEMMA OneMore ==
    ASSUME NEW A, IsFiniteSet(A), NEW x, NEW B, B \subseteq A \cup {x}, NEW n \in Nat,
           Cardinality(A) < n
    PROVE  Cardinality(B) <= n
<1>1. /\ Cardinality(A) \in Nat /\ Cardinality(B) \in Nat
      /\ Cardinality(B) <= Cardinality(A) + 1
  BY AddOne
<1> QED BY <1>1

LEMMA CapacityStep ==
    ASSUME TypeOK, [Next]_vars, CapacityRespected
    PROVE  CapacityRespected'
<1> DEFINE Fits(r, w) == /\ Cardinality(Running(r)) <= MaxParallel
                         /\ PoolLimit[RoleOf[w]] > 0 =>
                               Cardinality(OfRole(r, w)) <= PoolLimit[RoleOf[w]]
<1>1. \A r \in Schedulers, w \in Tasks : Fits(r, w)
  BY DEF CapacityRespected, OfRole
<1>2. MaxParallel \in Nat /\ \A w \in Tasks : PoolLimit[RoleOf[w]] \in Nat
  BY SchedulerAssumption
<1>3. ASSUME NEW r \in Schedulers, NEW w \in Tasks, Running(r)' \subseteq Running(r)
      PROVE  Fits(r, w)'
  <2>1. OfRole(r, w)' \subseteq OfRole(r, w)
    BY <1>3 DEF OfRole
  <2>2. Cardinality(Running(r)') <= MaxParallel
    BY <1>1, <1>2, <1>3, RunningFinite, Fewer
  <2>3. PoolLimit[RoleOf[w]] > 0 => Cardinality(OfRole(r, w)') <= PoolLimit[RoleOf[w]]
    BY <1>1, <1>2, <2>1, RunningFinite, Fewer
  <2> QED BY <2>2, <2>3
<1>4. ASSUME NEW s \in Schedulers, NEW t \in Tasks, Starts(s, t), NEW w \in Tasks
      PROVE  Fits(s, w)'
  <2>1. /\ Running(s)' \subseteq Running(s) \cup {t}
        /\ Cardinality(Running(s)) < MaxParallel
        /\ PoolLimit[RoleOf[t]] > 0 => Cardinality(OfRole(s, t)) < PoolLimit[RoleOf[t]]
    BY <1>4 DEF Starts, reserve, capacity, OfRole
  <2>2. Cardinality(Running(s)') <= MaxParallel
    BY <1>2, <2>1, RunningFinite, OneMore
  <2>3. CASE RoleOf[w] = RoleOf[t]
    <3>1. OfRole(s, w)' \subseteq OfRole(s, t) \cup {t}
      BY <2>1, <2>3 DEF OfRole
    <3>2. PoolLimit[RoleOf[w]] > 0 => Cardinality(OfRole(s, w)') <= PoolLimit[RoleOf[w]]
      BY <1>2, <2>1, <2>3, <3>1, RunningFinite, OneMore
    <3> QED BY <2>2, <3>2
  <2>4. CASE RoleOf[w] # RoleOf[t]
    <3>1. OfRole(s, w)' \subseteq OfRole(s, w)
      BY <2>1, <2>4 DEF OfRole
    <3>2. PoolLimit[RoleOf[w]] > 0 => Cardinality(OfRole(s, w)') <= PoolLimit[RoleOf[w]]
      BY <1>1, <1>2, <3>1, RunningFinite, Fewer
    <3> QED BY <2>2, <3>2
  <2> QED BY <2>3, <2>4
<1>5. \A r \in Schedulers, w \in Tasks : Fits(r, w)'
  <2> SUFFICES ASSUME NEW r \in Schedulers, NEW w \in Tasks PROVE Fits(r, w)'
    OBVIOUS
  <2> HIDE DEF Fits
  <2>1. CASE StartsNone
    BY <1>3, <2>1 DEF StartsNone
  <2>2. ASSUME NEW s \in Schedulers, NEW t \in Tasks, Starts(s, t) PROVE Fits(r, w)'
    <3>1. CASE r = s
      BY <1>4, <2>2, <3>1
    <3>2. CASE r # s
      BY <1>3, <2>2, <3>2 DEF Starts
    <3> QED BY <3>1, <3>2
  <2> QED BY <2>1, <2>2, NextStarts
<1>6. ASSUME NEW r \in Schedulers PROVE Cardinality(Running(r)') <= MaxParallel
  <2>1. CASE Tasks = {}
    <3>1. Running(r)' = {} /\ Cardinality({}) = 0
      BY <2>1, FS_EmptySet DEF Running
    <3> QED BY <1>2, <3>1
  <2>2. ASSUME NEW w \in Tasks PROVE Cardinality(Running(r)') <= MaxParallel
    BY <1>5
  <2> QED BY <2>1, <2>2
<1> QED BY <1>5, <1>6 DEF CapacityRespected, OfRole

(***************************************************************************)
(* No scheduler drives more tasks than Config.MaxParallel, nor more of a   *)
(* role than the worker pool of the role allows: although submissions, the *)
(* tick loop and the notifications of sessions start runs independently,   *)
(* and a run is counted until its last index append, reserve suffices.     *)
(***************************************************************************)
THEOREM LimitsAreKept == Spec => []CapacityRespected
<1>1. Init => CapacityRespected
  <2> SUFFICES ASSUME Init PROVE CapacityRespected
    OBVIOUS
  <2>1. ASSUME NEW s \in Schedulers PROVE Running(s) = {}
    BY RunOwes DEF Init, Running, isRunning, Idle, Run
  <2>2. MaxParallel \in Nat /\ \A w \in Tasks : PoolLimit[RoleOf[w]] \in Nat
    BY SchedulerAssumption
  <2>3. Cardinality({}) = 0
    BY FS_EmptySet
  <2> QED BY <2>1, <2>2, <2>3 DEF CapacityRespected
<1>2. TypeOK /\ [Next]_vars /\ CapacityRespected => CapacityRespected'
  BY CapacityStep
<1> QED BY TypeCorrect, <1>1, <1>2, PTL DEF Spec

-----------------------------------------------------------------------------
(* The work of a task.  A goroutine decides on a state it read and writes  *)
(* later, when the state may have moved on; what it decided still holds,   *)
(* because the status of a step moves in one direction only, as long as no *)
(* session sets it.                                                        *)

(* Sessions do not set the status of a step by hand.                       *)
Stepwise == Operations \intersect {"set_step_status", "reopen_step"} = {}

(* Sessions do not add steps or required outputs to a task.                *)
Declared == Operations \intersect {"add_step", "add_output"} = {}

(* How the status of step i may change to y, when p are the statuses.      *)
StepChange(p, i, y) ==
    \/ y = p[i]
    \/ p[i] \in {"", "running", "blocked"} /\ y = "waiting"
    \/ p[i] = "waiting" /\ y = "running" /\ dependenciesCompleted(i, p) /\ i \notin HumanSteps
    \/ p[i] = "running" /\ y \in {"completed", "failed"}
    \/ p[i] \in {"", "waiting"} /\ y = "cancelled" /\ ~dependenciesCompleted(i, p)

(* A step is blocked when its execution, then in status x, is interrupted. *)
StepBlock(p, i, y, x) ==
    p[i] = "waiting" /\ y = "blocked" /\ dependenciesCompleted(i, p) /\ x = "interrupted"

Shrinks(old, new) ==
    /\ new.steps \subseteq old.steps /\ new.outputs = old.outputs
    /\ old.artifacts \subseteq new.artifacts

Advance(old, new) ==
    /\ \A e \in ExecutionIDs, i \in Steps :
          StepChange(old.executions[e].steps, i, new.executions[e].steps[i])
    /\ old.status # "" => new.status # "" /\ (Declared => Shrinks(old, new))
    /\ new.status = "" =>
          \A e \in ExecutionIDs : new.executions[e].steps = old.executions[e].steps
TaskMove(old, new) ==
    /\ \A e \in ExecutionIDs, i \in Steps :
          LET p == old.executions[e].steps
              y == new.executions[e].steps[i]
          IN  StepChange(p, i, y) \/ StepBlock(p, i, y, new.executions[e].status)
    /\ old.status # "" => new.status # "" /\ (Declared => Shrinks(old, new))
    /\ new.status = "" =>
          \A e \in ExecutionIDs : new.executions[e].steps = old.executions[e].steps
TasksMove == \A t \in Tasks : TaskMove(task[t], task'[t])

(* What a goroutine decided, on the state of the task: the steps it        *)
(* dispatches have their dependencies done, those it cancels cannot be     *)
(* dispatched, a task run whole has no steps, one it completes is done.    *)
ReadyTodo(r, st) ==
    r.pc \in {"steps", "work"} =>
        \A i \in r.todo : dependenciesCompleted(i, st.executions[r.exec].steps)
DoomedTodo(r, st) ==
    r.pc = "cancel" => \A i \in r.todo :
        /\ st.executions[r.exec].steps[i] \in {"", "waiting", "cancelled"}
        /\ \E d \in DependsOn[i] : d \in r.todo \/ st.executions[r.exec].steps[d] = "failed"
Settled(i, p) == StepTerminal(p[i]) \/ (Waiting(p[i]) /\ hasBlockedDependency(i, p))
Decided(r, st) ==
    /\ r.pc \in {"whole", "validate"} => st.steps = {}
    /\ r.pc = "complete" => /\ missingRequiredOutputs(st) = {}
                            /\ st.steps # {} => r.exec # NoExecution
                            /\ \A i \in st.steps : Settled(i, st.executions[r.exec].steps)
Fits(r, st) == ReadyTodo(r, st) /\ DoomedTodo(r, st) /\ (Declared => Decided(r, st))

Begun == Labels \ {"idle", "claim", "append"}

WorkInv ==
    \A t \in Tasks :
        /\ task[t].status = "" => \A e \in ExecutionIDs : task[t].executions[e].steps = NoSteps
        /\ \A s \in Schedulers : /\ run[s][t].pc \in Begun => task[t].status # ""
                                 /\ Fits(run[s][t], task[t])

(* A step moves goroutines only to decisions that fit the state it read.   *)
RunsFit ==
    \A s \in Schedulers, t \in Tasks :
        /\ run'[s][t].pc \in Begun =>
              run[s][t].pc \in Begun \/ (run'[s][t].pc = "open" /\ task'[t].status # "")
        /\ Fits(run'[s][t], task[t])

(* The step formula of CompletionIsValid.                                  *)
Completions ==
    \A t \in Tasks : (/\ task'[t].status = "completed" /\ task[t].status = "running"
                      /\ ops' = ops)
                     => Completable(task[t])

WorkStep == TasksMove /\ RunsFit /\ (Declared => Completions)

-----------------------------------------------------------------------------
(* What a step that moves tasks this way keeps.                            *)

LEMMA LeastNumber ==
    ASSUME NEW S \in SUBSET Nat, S # {}
    PROVE  \E m \in S : \A k \in S : m <= k
<1>1. PICK R : R = OpToRel(<, Nat)
  OBVIOUS
<1>2. IsWellFoundedOn(R, Nat)
  BY <1>1, NatLessThanWellFounded
<1>3. PICK m \in S : \A k \in S : ~(<<k, m>> \in R)
  BY <1>2, WFMin
<1>4. ASSUME NEW k \in S PROVE m <= k
  <2>1. <<k, m>> \in R <=> k < m
    BY <1>1 DEF OpToRel
  <2>2. m \in Nat /\ k \in Nat
    OBVIOUS
  <2> QED BY <1>3, <2>1, <2>2
<1> QED BY <1>4

LEMMA NextOfPass ==
    ASSUME NEW todo \in SUBSET Steps, todo # {}
    PROVE  Next1(todo) \in todo
<1>1. todo \in SUBSET Nat
  BY ProjectionAssumption
<1>2. \E m \in todo : \A k \in todo : m <= k
  BY <1>1, LeastNumber
<1> QED BY <1>2 DEF Next1

LEMMA FinalStatus ==
    ASSUME NEW p, NEW i, NEW y, NEW x, StepChange(p, i, y) \/ StepBlock(p, i, y, x),
           p[i] \in {"completed", "failed", "cancelled", "skipped"}
    PROVE  y = p[i]
BY DEF StepChange, StepBlock

LEMMA ReadyKept ==
    ASSUME NEW r \in Runs, NEW old \in States, NEW new \in States, TaskMove(old, new),
           ReadyTodo(r, old)
    PROVE  ReadyTodo(r, new)
<1> SUFFICES ASSUME r.pc \in {"steps", "work"}, NEW i \in r.todo, NEW d \in DependsOn[i]
             PROVE  new.executions[r.exec].steps[d] = "completed"
  BY DEF ReadyTodo, dependenciesCompleted
<1>1. r.exec \in ExecutionIDs /\ i \in Steps
  BY DEF Runs
<1>2. d \in Steps
  BY <1>1, ProjectionAssumption
<1>3. old.executions[r.exec].steps[d] = "completed"
  BY DEF ReadyTodo, dependenciesCompleted
<1>4. \/ StepChange(old.executions[r.exec].steps, d, new.executions[r.exec].steps[d])
      \/ StepBlock(old.executions[r.exec].steps, d, new.executions[r.exec].steps[d],
                   new.executions[r.exec].status)
  BY <1>1, <1>2 DEF TaskMove
<1> QED BY <1>3, <1>4, FinalStatus

LEMMA DoomedKept ==
    ASSUME NEW r \in Runs, NEW old \in States, NEW new \in States, TaskMove(old, new),
           DoomedTodo(r, old)
    PROVE  DoomedTodo(r, new)
<1> DEFINE p == old.executions[r.exec].steps
           q == new.executions[r.exec].steps
<1> SUFFICES ASSUME r.pc = "cancel", NEW i \in r.todo
             PROVE  /\ q[i] \in {"", "waiting", "cancelled"}
                    /\ \E d \in DependsOn[i] : d \in r.todo \/ q[d] = "failed"
  BY DEF DoomedTodo
<1>1. r.exec \in ExecutionIDs /\ r.todo \in SUBSET Steps
  BY DEF Runs
<1>2. \A j \in Steps : StepChange(p, j, q[j]) \/ StepBlock(p, j, q[j], new.executions[r.exec].status)
  BY <1>1 DEF TaskMove
<1>3. \A j \in r.todo : p[j] \in {"", "waiting", "cancelled"}
  BY DEF DoomedTodo
<1>4. PICK d \in DependsOn[i] : d \in r.todo \/ p[d] = "failed"
  BY DEF DoomedTodo
<1> HIDE DEF p, q
<1>5. d \in Steps
  BY <1>1, ProjectionAssumption
<1>6. p[d] # "completed"
  BY <1>3, <1>4
<1>7. d \in r.todo \/ q[d] = "failed"
  BY <1>2, <1>4, <1>5, FinalStatus
<1>8. ~dependenciesCompleted(i, p)
  BY <1>6 DEF dependenciesCompleted
<1>9. q[i] \in {"", "waiting", "cancelled"}
  BY <1>1, <1>2, <1>3, <1>8 DEF StepChange, StepBlock
<1> QED BY <1>7, <1>9

LEMMA SettledKept ==
    ASSUME NEW p, NEW q, NEW x, NEW i \in Steps, Settled(i, p),
           \A j \in Steps : StepChange(p, j, q[j]) \/ StepBlock(p, j, q[j], x)
    PROVE  Settled(i, q)
<1>1. CASE StepTerminal(p[i])
  BY <1>1, FinalStatus DEF StepTerminal, Settled
<1>2. CASE Waiting(p[i]) /\ hasBlockedDependency(i, p)
  <2>1. PICK d \in DependsOn[i] : p[d] \in {"failed", "cancelled", "skipped"}
    BY <1>2 DEF hasBlockedDependency
  <2>2. d \in Steps
    BY ProjectionAssumption
  <2>3. q[d] = p[d]
    BY <2>1, <2>2, FinalStatus
  <2>4. hasBlockedDependency(i, q) /\ ~dependenciesCompleted(i, p)
    BY <2>1, <2>3 DEF hasBlockedDependency, dependenciesCompleted
  <2>5. q[i] \in {"", "waiting", "cancelled"}
    BY <1>2, <2>4 DEF StepChange, StepBlock, Waiting
  <2> QED BY <2>4, <2>5 DEF Settled, Waiting, StepTerminal
<1> QED BY <1>1, <1>2 DEF Settled

LEMMA DecidedKept ==
    ASSUME NEW r \in Runs, NEW old \in States, NEW new \in States, TaskMove(old, new),
           Shrinks(old, new), Decided(r, old)
    PROVE  Decided(r, new)
<1>1. r.pc \in {"whole", "validate"} => new.steps = {}
  BY DEF Decided, Shrinks
<1>2. ASSUME r.pc = "complete"
      PROVE  /\ missingRequiredOutputs(new) = {} /\ (new.steps # {} => r.exec # NoExecution)
             /\ \A i \in new.steps : Settled(i, new.executions[r.exec].steps)
  <2>1. missingRequiredOutputs(new) = {} /\ (new.steps # {} => r.exec # NoExecution)
    BY <1>2 DEF Decided, Shrinks, missingRequiredOutputs
  <2>2. ASSUME NEW i \in new.steps PROVE Settled(i, new.executions[r.exec].steps)
    <3>1. i \in old.steps /\ i \in Steps /\ r.exec \in ExecutionIDs
      BY StateFields DEF Shrinks, Runs
    <3>2. Settled(i, old.executions[r.exec].steps)
      BY <1>2, <3>1 DEF Decided
    <3>3. \A j \in Steps :
             \/ StepChange(old.executions[r.exec].steps, j, new.executions[r.exec].steps[j])
             \/ StepBlock(old.executions[r.exec].steps, j, new.executions[r.exec].steps[j],
                          new.executions[r.exec].status)
      BY <3>1 DEF TaskMove
    <3> QED BY <3>1, <3>2, <3>3, SettledKept
  <2> QED BY <2>1, <2>2
<1> QED BY <1>1, <1>2 DEF Decided

LEMMA NoDecision ==
    ASSUME NEW r, NEW st,
           r.pc \notin {"steps", "work", "cancel", "whole", "validate", "complete"}
    PROVE  Fits(r, st)
BY DEF Fits, ReadyTodo, DoomedTodo, Decided

LEMMA WorkKept ==
    ASSUME TypeOK, TypeOK', WorkInv, WorkStep
    PROVE  WorkInv'
<1> SUFFICES ASSUME NEW t \in Tasks
             PROVE  /\ task'[t].status = "" =>
                          \A e \in ExecutionIDs : task'[t].executions[e].steps = NoSteps
                    /\ \A s \in Schedulers :
                          /\ run'[s][t].pc \in Begun => task'[t].status # ""
                          /\ Fits(run'[s][t], task'[t])
  BY DEF WorkInv
<1>1. TaskMove(task[t], task'[t]) /\ task[t] \in States /\ task'[t] \in States
  BY DEF WorkStep, TasksMove, TypeOK
<1>2. ASSUME task'[t].status = "" PROVE \A e \in ExecutionIDs : task'[t].executions[e].steps = NoSteps
  <2>1. task[t].status = ""
    BY <1>1, <1>2 DEF TaskMove
  <2> QED BY <1>1, <1>2, <2>1 DEF TaskMove, WorkInv
<1>3. ASSUME NEW s \in Schedulers PROVE run'[s][t].pc \in Begun => task'[t].status # ""
  BY <1>1 DEF WorkStep, RunsFit, WorkInv, TaskMove
<1>4. ASSUME NEW s \in Schedulers PROVE Fits(run'[s][t], task'[t])
  <2>1. run'[s][t] \in Runs /\ run[s][t] \in Runs /\ Fits(run'[s][t], task[t])
    BY DEF TypeOK, WorkStep, RunsFit
  <2>2. ReadyTodo(run'[s][t], task'[t]) /\ DoomedTodo(run'[s][t], task'[t])
    BY <1>1, <2>1, ReadyKept, DoomedKept DEF Fits
  <2>3. ASSUME Declared PROVE Decided(run'[s][t], task'[t])
    <3>1. CASE run'[s][t].pc \notin {"steps", "work", "cancel", "whole", "validate", "complete"}
      BY <3>1 DEF Decided
    <3>2. CASE run'[s][t].pc \in Begun /\ run[s][t].pc \in Begun
      <4>1. task[t].status # ""
        BY <3>2 DEF WorkInv
      <4>2. Shrinks(task[t], task'[t])
        BY <1>1, <2>3, <4>1 DEF TaskMove
      <4> QED BY <1>1, <2>1, <2>3, <4>2, DecidedKept DEF Fits
    <3>3. run'[s][t].pc \in Begun => run[s][t].pc \in Begun \/ run'[s][t].pc = "open"
      BY DEF WorkStep, RunsFit
    <3> QED BY <2>1, <3>1, <3>2, <3>3 DEF Begun, Labels
  <2> QED BY <2>2, <2>3 DEF Fits
<1> QED BY <1>2, <1>3, <1>4

-----------------------------------------------------------------------------
(* What the operators of the projector do to the steps.                    *)

(* No step changes its status, nothing is declared or withdrawn.           *)
Kept(old, new) ==
    /\ new.steps = old.steps /\ new.outputs = old.outputs
    /\ old.artifacts \subseteq new.artifacts
    /\ \A e \in ExecutionIDs : new.executions[e].steps = old.executions[e].steps

LEMMA KeptTransitive ==
    ASSUME NEW a, NEW b, NEW c, Kept(a, b), Kept(b, c) PROVE Kept(a, c)
BY DEF Kept

LEMMA KeptMove ==
    ASSUME NEW a, NEW b, NEW c, Advance(a, b), Kept(b, c), c.status # ""
    PROVE  Advance(a, c)
BY DEF Kept, Advance, Shrinks

LEMMA SameMove ==
    ASSUME NEW old, NEW new, Kept(old, new), old.status # "" => new.status # ""
    PROVE  Advance(old, new)
BY DEF Kept, Advance, Shrinks, StepChange

LEMMA setStatusKept == ASSUME NEW st, NEW x PROVE Kept(st, setStatus(st, x))
BY DEF Kept, setStatus, State

LEMMA ArtifactsAddedKept ==
    ASSUME NEW st \in States, NEW e, NEW A PROVE Kept(st, ArtifactsAdded(st, e, A))
BY DEF Kept, ArtifactsAdded, State

LEMMA setExecutionKept ==
    ASSUME NEW st \in States, NEW e \in ExecutionIDs, NEW exec,
           exec.steps = st.executions[e].steps
    PROVE  Kept(st, setExecution(st, e, exec))
<1>1. st.executions \in [ExecutionIDs -> Executions]
  BY StateFields
<1> QED BY <1>1 DEF Kept, setExecution, State

LEMMA setExecutionStatusKept ==
    ASSUME NEW st \in States, NEW e \in ExecutionIDs, NEW x \in Statuses
    PROVE  Kept(st, setExecutionStatus(st, e, x))
<1> DEFINE exec == st.executions[e]
           new == Execution(x, exec.attempt, exec.worker, exec.lease, exec.steps)
           mid == setExecution(st, e, new)
<1>1. new.steps = st.executions[e].steps
  BY DEF Execution
<1>2. setExecutionStatus(st, e, x) = setStatus(mid, x)
  BY DEF setExecutionStatus
<1> HIDE DEF new
<1>3. Kept(st, mid)
  BY <1>1, setExecutionKept
<1> HIDE DEF mid
<1> QED BY <1>2, <1>3, setStatusKept, KeptTransitive

LEMMA setLeaseKept ==
    ASSUME NEW st \in States, NEW e \in ExecutionIDs, NEW w, NEW l
    PROVE  Kept(st, setLease(st, e, w, l))
<1> DEFINE exec == st.executions[e]
           new == Execution(exec.status, exec.attempt, w, l, exec.steps)
<1>1. new.steps = st.executions[e].steps
  BY DEF Execution
<1>2. setLease(st, e, w, l) = State(st.status, st.current, [st.executions EXCEPT ![e] = new],
                                    st.steps, st.outputs, st.artifacts)
  BY DEF setLease
<1>3. st.executions \in [ExecutionIDs -> Executions]
  BY StateFields
<1> HIDE DEF new
<1> QED BY <1>1, <1>2, <1>3 DEF Kept, State

LEMMA InterruptedKept ==
    ASSUME NEW st \in States, NEW e \in ExecutionIDs, NEW x \in Statuses
    PROVE  Kept(st, StatusChanged(ExecutionInterrupted(st, e), x))
<1>1. Kept(st, ExecutionInterrupted(st, e))
  BY setExecutionStatusKept DEF ExecutionInterrupted, Statuses
<1> QED BY <1>1, setStatusKept, KeptTransitive DEF StatusChanged

(* An execution gets new step statuses.                                    *)
LEMMA setExecutionMoves ==
    ASSUME NEW st \in States, NEW e \in ExecutionIDs, NEW exec, st.status # "",
           \A i \in Steps : StepChange(st.executions[e].steps, i, exec.steps[i])
    PROVE  Advance(st, setExecution(st, e, exec))
<1> DEFINE new == setExecution(st, e, exec)
<1>1. st.executions \in [ExecutionIDs -> Executions]
  BY StateFields
<1>2. /\ new.executions = [st.executions EXCEPT ![e] = exec] /\ new.status = st.status
      /\ new.steps = st.steps /\ new.outputs = st.outputs /\ new.artifacts = st.artifacts
  BY DEF setExecution, State
<1> HIDE DEF new
<1>3. ASSUME NEW f \in ExecutionIDs, NEW i \in Steps
      PROVE  StepChange(st.executions[f].steps, i, new.executions[f].steps[i])
  <2>1. CASE f = e
    BY <1>1, <1>2, <2>1
  <2>2. CASE f # e
    BY <1>1, <1>2, <2>2 DEF StepChange
  <2> QED BY <2>1, <2>2
<1>4. Shrinks(st, new)
  BY <1>2 DEF Shrinks
<1>5. Advance(st, new)
  BY <1>2, <1>3, <1>4 DEF Advance
<1> QED BY <1>5 DEF new

LEMMA StepStatusChangedMoves ==
    ASSUME NEW st \in States, NEW e \in ExecutionIDs, NEW I, NEW x, st.status # "",
           \A i \in I \intersect Steps : StepChange(st.executions[e].steps, i, x)
    PROVE  Advance(st, StepStatusChanged(st, e, I, x))
<1> DEFINE p == st.executions[e].steps
           q == [i \in Steps |-> IF i \in I THEN x ELSE p[i]]
           exec == setSteps(st.executions[e], q)
<1>1. StepStatusChanged(st, e, I, x) = setExecution(st, e, exec)
  BY DEF StepStatusChanged
<1>2. exec.steps = q
  BY DEF setSteps, Execution
<1>3. \A i \in Steps : StepChange(p, i, q[i])
  BY DEF StepChange
<1> HIDE DEF exec
<1> QED BY <1>1, <1>2, <1>3, setExecutionMoves

LEMMA StepDispatchedMoves ==
    ASSUME NEW st \in States, NEW e \in ExecutionIDs, NEW i, st.status # "",
           i \in Steps => StepChange(st.executions[e].steps, i, "running")
    PROVE  Advance(st, StepDispatched(st, e, i))
<1> DEFINE exec == st.executions[e]
           p == exec.steps
           q == [p EXCEPT ![i] = "running"]
           new == Execution("running", exec.attempt, exec.worker, exec.lease, q)
<1>1. StepDispatched(st, e, i) = setExecution(st, e, new)
  BY DEF StepDispatched
<1>2. new.steps = q
  BY DEF Execution
<1>3. p \in [Steps -> StepStatuses \union {""}]
  BY ExecutionFields
<1> HIDE DEF new
<1>4. ASSUME NEW j \in Steps PROVE StepChange(p, j, q[j])
  <2>1. CASE j = i
    BY <1>3, <2>1
  <2>2. CASE j # i
    BY <1>3, <2>2 DEF StepChange
  <2> QED BY <2>1, <2>2
<1> HIDE DEF q
<1> QED BY <1>1, <1>2, <1>4, setExecutionMoves

LEMMA InterruptedStatus ==
    ASSUME NEW st \in States, NEW e \in ExecutionIDs
    PROVE  ExecutionInterrupted(st, e).executions[e].status = "interrupted"
<1> DEFINE exec == st.executions[e]
           new == Execution("interrupted", exec.attempt, exec.worker, exec.lease, exec.steps)
<1>1. ExecutionInterrupted(st, e).executions = [st.executions EXCEPT ![e] = new]
  BY DEF ExecutionInterrupted, setExecutionStatus, setStatus, setExecution, State
<1>2. new.status = "interrupted"
  BY DEF Execution
<1>3. st.executions \in [ExecutionIDs -> Executions]
  BY StateFields
<1> HIDE DEF new
<1> QED BY <1>1, <1>2, <1>3

LEMMA StepBlockedMoves ==
    ASSUME NEW st \in States, NEW e \in ExecutionIDs, NEW i, st.status # "",
           st.executions[e].steps[i] = "waiting",
           dependenciesCompleted(i, st.executions[e].steps)
    PROVE  LET new == StatusChanged(ExecutionInterrupted(
                          StepStatusChanged(st, e, {i}, "blocked"), e), "blocked")
           IN  TaskMove(st, new) /\ new.status = "blocked"
<1> DEFINE p == st.executions[e].steps
           q == [j \in Steps |-> IF j \in {i} THEN "blocked" ELSE p[j]]
           exec == setSteps(st.executions[e], q)
           mid == StepStatusChanged(st, e, {i}, "blocked")
           new == StatusChanged(ExecutionInterrupted(mid, e), "blocked")
<1>1. mid = setExecution(st, e, exec)
  BY DEF StepStatusChanged
<1>2. mid \in States
  BY StepStatusChangedType DEF StepStatuses
<1>5. exec.steps = q
  BY DEF setSteps, Execution
<1> HIDE DEF exec, mid
<1>3. st.executions \in [ExecutionIDs -> Executions]
  BY StateFields
<1>4. /\ mid.executions = [st.executions EXCEPT ![e] = exec]
      /\ mid.steps = st.steps /\ mid.outputs = st.outputs /\ mid.artifacts = st.artifacts
  BY <1>1 DEF setExecution, State
<1>10. "blocked" \in Statuses
  BY DEF Statuses
<1>6. new.status = "blocked" /\ Kept(mid, new) /\ new.executions[e].status = "interrupted"
  <2>1. Kept(mid, new)
    BY <1>2, <1>10, InterruptedKept
  <2>2. new.status = "blocked" /\ new.executions = ExecutionInterrupted(mid, e).executions
    BY DEF StatusChanged, setStatus, State
  <2>3. ExecutionInterrupted(mid, e).executions[e].status = "interrupted"
    BY <1>2, InterruptedStatus
  <2> QED BY <2>1, <2>2, <2>3
<1> HIDE DEF new
<1>7. ASSUME NEW f \in ExecutionIDs, NEW j \in Steps
      PROVE  LET y == new.executions[f].steps[j]
             IN  \/ StepChange(st.executions[f].steps, j, y)
                 \/ StepBlock(st.executions[f].steps, j, y, new.executions[f].status)
  <2>1. new.executions[f].steps[j] = mid.executions[f].steps[j]
    BY <1>6 DEF Kept
  <2>2. CASE f # e
    BY <1>3, <1>4, <2>1, <2>2 DEF StepChange
  <2>0. mid.executions[e].steps = q
    BY <1>3, <1>4, <1>5
  <2>3. CASE f = e /\ j # i
    <3>1. new.executions[f].steps[j] = p[j]
      BY <2>0, <2>1, <2>3
    <3> QED BY <2>3, <3>1 DEF StepChange
  <2>4. CASE f = e /\ j = i
    <3>1. new.executions[f].steps[j] = "blocked"
      BY <2>0, <2>1, <2>4
    <3> QED BY <1>6, <2>4, <3>1 DEF StepBlock
  <2> QED BY <2>2, <2>3, <2>4
<1>8. Shrinks(st, new)
  BY <1>4, <1>6 DEF Shrinks, Kept
<1>9. TaskMove(st, new)
  BY <1>6, <1>7, <1>8 DEF TaskMove
<1> QED BY <1>6, <1>9 DEF new, mid

LEMMA EnsuredChange ==
    ASSUME NEW p, NEW D, NEW i \in Steps
    PROVE  StepChange(p, i, ensureExecutionSteps(D, p)[i])
BY DEF StepChange, ensureExecutionSteps

LEMMA setStepsSteps == ASSUME NEW exec, NEW p PROVE setSteps(exec, p).steps = p
BY DEF setSteps, Execution

LEMMA RevisedMoves ==
    ASSUME NEW st \in States, NEW D, NEW o, st.status # "",
           Declared => D \subseteq st.steps /\ o = st.outputs
    PROVE  Advance(st, Revised(st, D, o))
<1> DEFINE new == Revised(st, D, o)
<1>1. /\ new.status = st.status /\ new.steps = D /\ new.outputs = o
      /\ new.artifacts = st.artifacts
  BY DEF Revised, State
<1>2. ASSUME NEW e \in ExecutionIDs
      PROVE  \/ new.executions[e] = st.executions[e]
             \/ new.executions[e] = setSteps(st.executions[e],
                                             ensureExecutionSteps(D, st.executions[e].steps))
  BY DEF Revised, State
<1> HIDE DEF new
<1>3. ASSUME NEW e \in ExecutionIDs, NEW i \in Steps
      PROVE  StepChange(st.executions[e].steps, i, new.executions[e].steps[i])
  <2>1. CASE new.executions[e] = st.executions[e]
    BY <2>1 DEF StepChange
  <2>2. CASE new.executions[e] = setSteps(st.executions[e],
                                          ensureExecutionSteps(D, st.executions[e].steps))
    <3>1. setSteps(st.executions[e], ensureExecutionSteps(D, st.executions[e].steps)).steps
            = ensureExecutionSteps(D, st.executions[e].steps)
      BY setStepsSteps
    <3>2. new.executions[e].steps = ensureExecutionSteps(D, st.executions[e].steps)
      BY <2>2, <3>1
    <3> QED BY <3>2, EnsuredChange
  <2> QED BY <1>2, <2>1, <2>2
<1>4. Advance(st, new)
  BY <1>1, <1>3 DEF Advance, Shrinks
<1> QED BY <1>4 DEF new

LEMMA ExecutionStartedMoves ==
    ASSUME NEW st \in States, NEW e \in ExecutionIDs, NEW w, st.status # ""
    PROVE  Advance(st, ExecutionStarted(st, e, w))
<1> DEFINE exec == st.executions[e]
           q == ensureExecutionSteps(st.steps, exec.steps)
           new == Execution("running", exec.attempt + 1, w, "held", q)
           mid == setExecution(st, e, new)
<1>1. ExecutionStarted(st, e, w) = setStatus(mid, "running")
  BY DEF ExecutionStarted
<1>2. new.steps = q
  BY DEF Execution
<1>3. \A i \in Steps : StepChange(exec.steps, i, q[i])
  BY EnsuredChange
<1> HIDE DEF new, q
<1>4. Advance(st, mid)
  BY <1>2, <1>3, setExecutionMoves
<1> HIDE DEF mid
<1>5. setStatus(mid, "running").status # ""
  BY DEF setStatus, State
<1> QED BY <1>1, <1>4, <1>5, setStatusKept, KeptMove

LEMMA CreatedMoves ==
    ASSUME NEW st \in States, st.status = "", NEW x \in Statuses, NEW D, NEW o,
           \A e \in ExecutionIDs : st.executions[e].steps = NoSteps
    PROVE  Advance(st, Created(x, D, o))
<1>1. /\ Created(x, D, o).status = x
      /\ \A e \in ExecutionIDs : Created(x, D, o).executions[e].steps = NoSteps
  BY DEF Created, State, ZeroState, ZeroExecution, Execution
<1>2. x # ""
  BY DEF Statuses
<1> QED BY <1>1, <1>2 DEF Advance, StepChange

LEMMA RetriedMoves ==
    ASSUME NEW st \in States, st.status # "" PROVE Advance(st, Retried(st))
<1>1. st.current \in ExecutionIDs
  BY StateFields
<1> QED BY <1>1, StepStatusChangedMoves DEF Retried, StepChange

-----------------------------------------------------------------------------
(* The parts of an action.                                                 *)

LEMMA AdvanceMoves == ASSUME NEW old, NEW new, Advance(old, new) PROVE TaskMove(old, new)
BY DEF Advance, TaskMove

LEMMA WriteMoves ==
    ASSUME TypeOK, NEW t \in Tasks, NEW st, Advance(task[t], st) \/ TaskMove(task[t], st),
           Write(t, st)
    PROVE  TasksMove
<1>1. task'[t] = st /\ \A u \in Tasks : u # t => task'[u] = task[u]
  BY DEF TypeOK, Write
<1>2. \A u \in Tasks : TaskMove(task[u], task[u])
  BY SameMove, AdvanceMoves DEF Kept
<1> QED BY <1>1, <1>2, AdvanceMoves DEF TasksMove

LEMMA NoWriteMoves == ASSUME UNCHANGED task PROVE TasksMove /\ Completions
BY SameMove, AdvanceMoves DEF Kept, TasksMove, Completions

LEMMA WriteCompletes ==
    ASSUME TypeOK, NEW t \in Tasks, NEW st, Write(t, st),
           st.status # "completed" \/ task[t].status = "completed" \/ ops' # ops
    PROVE  Completions
<1>1. task'[t] = st /\ \A u \in Tasks : u # t => task'[u] = task[u]
  BY DEF TypeOK, Write
<1> QED BY <1>1 DEF Completions

LEMMA SameRuns == ASSUME WorkInv, UNCHANGED run PROVE RunsFit
BY DEF WorkInv, RunsFit

LEMMA GotoFits ==
    ASSUME TypeOK, WorkInv, NEW s \in Schedulers, NEW t \in Tasks, NEW r,
           Goto(s, t, r), Fits(r, task[t]),
           r.pc \in Begun => run[s][t].pc \in Begun \/ (r.pc = "open" /\ task'[t].status # "")
    PROVE  RunsFit
<1>1. /\ run'[s][t] = r
      /\ \A q \in Schedulers, u \in Tasks : q # s \/ u # t => run'[q][u] = run[q][u]
  BY DEF TypeOK, Goto
<1> QED BY <1>1 DEF WorkInv, RunsFit

LEMMA StartsFit ==
    ASSUME TypeOK, WorkInv, NEW s \in Schedulers, NEW t \in Tasks,
           Goto(s, t, Idle) \/ Goto(s, t, AtClaim)
    PROVE  RunsFit
<1>1. Idle.pc = "idle" /\ AtClaim.pc = "claim"
  BY DEF Idle, AtClaim, Run
<1>2. Fits(Idle, task[t]) /\ Fits(AtClaim, task[t]) /\ Idle.pc \notin Begun /\ AtClaim.pc \notin Begun
  BY <1>1, NoDecision DEF Begun
<1> QED BY <1>2, GotoFits

Plain == {"append", "open", "loop", "finalize", "finalizeFail", "fail", "block"}

LEMMA JumpsFit ==
    ASSUME TypeOK, WorkInv, NEW s \in Schedulers, NEW t \in Tasks, NEW pc \in Plain,
           pc # "append" => run[s][t].pc \in Begun,
           Jump(s, t, pc) \/ \E todo, outs : Sees(s, t, pc, todo, outs)
    PROVE  RunsFit
<1>0. \A exec, todo, outs, claimed, n : Run(pc, exec, todo, outs, claimed, n).pc = pc
  BY DEF Run
<1>1. PICK r : Goto(s, t, r) /\ r.pc = pc
  <2>1. \E exec, todo, outs, claimed, n : Goto(s, t, Run(pc, exec, todo, outs, claimed, n))
    BY DEF Jump, Sees
  <2> QED BY <1>0, <2>1
<1>2. Fits(r, task[t])
  BY <1>1, NoDecision DEF Plain
<1>3. r.pc \in Begun => run[s][t].pc \in Begun
  BY <1>1 DEF Begun
<1> QED BY <1>1, <1>2, <1>3, GotoFits

(* A pass goes on with the same execution and no other step.               *)
LEMMA PassFits ==
    ASSUME TypeOK, WorkInv, NEW s \in Schedulers, NEW t \in Tasks,
           run[s][t].pc \in {"steps", "work"}, Jump(s, t, "work") \/ Skip(s, t)
    PROVE  RunsFit
<1> DEFINE old == run[s][t]
<1>1. PICK r : /\ Goto(s, t, r) /\ r.pc \in {"steps", "work"} /\ r.exec = old.exec
               /\ r.todo \subseteq old.todo
  <2>1. CASE Jump(s, t, "work")
    BY <2>1 DEF Jump, Run
  <2>2. CASE Skip(s, t)
    <3> DEFINE n == Run("steps", old.exec, old.todo \ {Next1(old.todo)}, old.outs,
                        old.claimed, old.attempt)
    <3>1. Goto(s, t, n)
      BY <2>2 DEF Skip
    <3>2. n.pc = "steps" /\ n.exec = old.exec /\ n.todo \subseteq old.todo
      BY DEF Run
    <3> QED BY <3>1, <3>2
  <2> QED BY <2>1, <2>2
<1>2. Fits(old, task[t])
  BY DEF WorkInv
<1>3. Fits(r, task[t])
  BY <1>1, <1>2 DEF Fits, ReadyTodo, DoomedTodo, Decided
<1>4. run[s][t].pc \in Begun
  BY DEF Begun, Labels
<1> QED BY <1>1, <1>3, <1>4, GotoFits

-----------------------------------------------------------------------------
(* The steps of a driving goroutine.                                       *)

LEMMA ClaimReadWork ==
    ASSUME TypeOK, WorkInv, NEW s \in Schedulers, NEW t \in Tasks, ClaimRead(s, t)
    PROVE  WorkStep
<1>1. TasksMove /\ Completions
  BY NoWriteMoves DEF ClaimRead
<1>2. RunsFit
  BY JumpsFit, StartsFit DEF ClaimRead, Plain
<1> QED BY <1>1, <1>2 DEF WorkStep

LEMMA ClaimAppendWork ==
    ASSUME IInv, WorkInv, NEW s \in Schedulers, NEW t \in Tasks, ClaimAppend(s, t)
    PROVE  WorkStep
<1>1. TypeOK /\ task[t] \in States
  BY DEF IInv, TypeOK
<1>2. CASE Goto(s, t, Idle) /\ NoWrite
  BY <1>1, <1>2, NoWriteMoves, StartsFit DEF WorkStep, NoWrite
<1>3. CASE s \in latest[t] /\ \E e \in ClaimTargets(task[t]) :
                /\ Write(t, ExecutionStarted(task[t], e, s))
                /\ Goto(s, t, Run("open", NoExecution, {}, {}, e,
                                  task[t].executions[e].attempt + 1))
  <2>1. PICK e \in ClaimTargets(task[t]) :
                /\ Write(t, ExecutionStarted(task[t], e, s))
                /\ Goto(s, t, Run("open", NoExecution, {}, {}, e,
                                  task[t].executions[e].attempt + 1))
    BY <1>3
  <2>2. e \in ExecutionIDs
    BY <1>1, FreshType
  <2>3. task[t].status = "ready"
    BY <1>3 DEF IInv, TaskInv, claimable
  <2> DEFINE new == ExecutionStarted(task[t], e, s)
             r == Run("open", NoExecution, {}, {}, e, task[t].executions[e].attempt + 1)
  <2>4. Advance(task[t], new)
    BY <1>1, <2>2, <2>3, ExecutionStartedMoves
  <2>5. new.status = "running"
    BY DEF ExecutionStarted, setStatus, State
  <2>6. Write(t, new) /\ Goto(s, t, r)
    BY <2>1
  <2>7. r.pc = "open"
    BY DEF Run
  <2> HIDE DEF new, r
  <2>8. TasksMove /\ Completions
    BY <1>1, <2>4, <2>5, <2>6, WriteMoves, WriteCompletes
  <2>9. task'[t].status # ""
    BY <1>1, <2>5, <2>6 DEF TypeOK, Write
  <2>10. Fits(r, task[t])
    BY <2>7, NoDecision
  <2>11. RunsFit
    BY <1>1, <2>6, <2>7, <2>9, <2>10, GotoFits
  <2> QED BY <2>8, <2>11 DEF WorkStep
<1> QED BY <1>2, <1>3 DEF ClaimAppend

LEMMA OpenTaskWork ==
    ASSUME TypeOK, WorkInv, NEW s \in Schedulers, NEW t \in Tasks, OpenTask(s, t)
    PROVE  WorkStep
<1>1. TasksMove /\ Completions
  BY NoWriteMoves DEF OpenTask
<1>2. run[s][t].pc \in Begun
  BY DEF OpenTask, At, Begun, Labels
<1>3. CASE Sees(s, t, "loop", {}, {}) \/ Sees(s, t, "block", {}, {})
  BY <1>1, <1>2, <1>3, JumpsFit DEF WorkStep, Plain
<1>4. CASE task[t].steps = {} /\ Sees(s, t, "whole", {}, task[t].outputs)
  <2>1. PICK r : Goto(s, t, r) /\ r.pc = "whole"
    BY <1>4 DEF Sees, Run
  <2>2. Fits(r, task[t])
    BY <1>4, <2>1 DEF Fits, ReadyTodo, DoomedTodo, Decided
  <2>3. RunsFit
    BY <1>2, <2>1, <2>2, GotoFits
  <2> QED BY <1>1, <2>3 DEF WorkStep
<1> QED BY <1>3, <1>4 DEF OpenTask

LEMMA WholeTaskReturnsWork ==
    ASSUME IInv, WorkInv, NEW s \in Schedulers, NEW t \in Tasks, NEW A \in SUBSET Outputs,
           WholeTaskReturns(s, t, A)
    PROVE  WorkStep
<1> DEFINE e == run[s][t].exec
           all == A \union run[s][t].outs
<1>1. TypeOK /\ task[t] \in States /\ run[s][t].pc = "whole" /\ run[s][t].pc \in Begun
  BY DEF IInv, TypeOK, WholeTaskReturns, At, Begun, Labels
<1>2. RunsFit
  <2>1. CASE Jump(s, t, "fail") \/ Goto(s, t, Idle)
    BY <1>1, <2>1, JumpsFit, StartsFit DEF Plain
  <2>2. CASE Jump(s, t, "validate")
    <3>1. PICK r : Goto(s, t, r) /\ r.pc = "validate"
      BY <2>2 DEF Jump, Run
    <3>2. Declared => task[t].steps = {}
      BY <1>1 DEF WorkInv, Fits, Decided
    <3>3. Fits(r, task[t])
      BY <3>1, <3>2 DEF Fits, ReadyTodo, DoomedTodo, Decided
    <3> QED BY <1>1, <3>1, <3>3, GotoFits
  <2> QED BY <2>1, <2>2 DEF WholeTaskReturns
<1>3. TasksMove /\ Completions
  <2>1. CASE NoWrite \/ Diagnostic(t)
    BY <2>1, NoWriteMoves DEF NoWrite, Diagnostic
  <2>2. CASE StillRunning(task[t], e) /\ Write(t, ArtifactsAdded(task[t], e, all))
    <3>1. ArtifactsAdded(task[t], e, all).status = task[t].status /\ task[t].status = "running"
      BY <2>2 DEF ArtifactsAdded, State, StillRunning
    <3>2. Advance(task[t], ArtifactsAdded(task[t], e, all))
      BY <1>1, <3>1, ArtifactsAddedKept, SameMove
    <3> QED BY <1>1, <2>2, <3>1, <3>2, WriteMoves, WriteCompletes
  <2> QED BY <2>1, <2>2 DEF WholeTaskReturns
<1> QED BY <1>2, <1>3 DEF WorkStep

LEMMA ValidateWholeTaskWork ==
    ASSUME TypeOK, WorkInv, NEW s \in Schedulers, NEW t \in Tasks, ValidateWholeTask(s, t)
    PROVE  WorkStep
<1>1. TasksMove /\ Completions
  BY NoWriteMoves DEF ValidateWholeTask
<1>2. run[s][t].pc = "validate" /\ run[s][t].pc \in Begun
  BY DEF ValidateWholeTask, At, Begun, Labels
<1>3. CASE Jump(s, t, "block")
  BY <1>1, <1>2, <1>3, JumpsFit DEF WorkStep, Plain
<1>4. CASE Completable(task[t]) /\ Jump(s, t, "complete")
  <2>1. PICK r : Goto(s, t, r) /\ r.pc = "complete"
    BY <1>4 DEF Jump, Run
  <2>2. Declared => task[t].steps = {}
    BY <1>2 DEF WorkInv, Fits, Decided
  <2>3. Fits(r, task[t])
    BY <1>4, <2>1, <2>2 DEF Fits, ReadyTodo, DoomedTodo, Decided, Completable
  <2>4. RunsFit
    BY <1>2, <2>1, <2>3, GotoFits
  <2> QED BY <1>1, <2>4 DEF WorkStep
<1> QED BY <1>3, <1>4 DEF ValidateWholeTask

(* A step that is to be cancelled waits, and for a step that failed or is  *)
(* to be cancelled as well: the least set has no member without a reason.  *)
LEMMA DependentsAreDoomed ==
    ASSUME NEW st \in States, NEW i \in WaitingDependents(st)
    PROVE  /\ CurrentSteps(st)[i] \in {"", "waiting"}
           /\ \E d \in DependsOn[i] : d \in WaitingDependents(st) \/ CurrentSteps(st)[d] = "failed"
<1> DEFINE W == WaitingDependents(st)
           waiting == {j \in st.steps : Waiting(CurrentSteps(st)[j])}
           failed == {j \in Steps : CurrentSteps(st)[j] = "failed"}
           Closed(C) == \A j \in waiting : DependsOn[j] \intersect (failed \union C) # {} => j \in C
           C == {j \in W : DependsOn[j] \intersect (failed \union W) # {}}
<1>1. W = {j \in waiting : \A X \in SUBSET waiting : Closed(X) => j \in X}
  BY DEF WaitingDependents
<1>2. C \in SUBSET waiting
  BY <1>1
<1>3. ASSUME NEW j \in waiting, DependsOn[j] \intersect (failed \union C) # {} PROVE j \in C
  <2>1. PICK d \in DependsOn[j] : d \in failed \/ d \in C
    BY <1>3
  <2>2. j \in W
    <3> SUFFICES ASSUME NEW X \in SUBSET waiting, Closed(X) PROVE j \in X
      BY <1>1
    <3>1. d \in failed \/ d \in X
      BY <1>1, <2>1
    <3> QED BY <2>1, <3>1
  <2> QED BY <2>1, <2>2
<1>4. Closed(C)
  BY <1>3
<1>5. i \in C
  BY <1>1, <1>2, <1>4
<1>6. i \in waiting
  BY <1>1
<1> QED BY <1>5, <1>6 DEF Waiting

LEMMA LoopWork ==
    ASSUME TypeOK, WorkInv, NEW s \in Schedulers, NEW t \in Tasks, Loop(s, t)
    PROVE  WorkStep
<1> DEFINE st == task[t]
           old == run[s][t]
           r(pc, todo) == Run(pc, st.current, todo, {}, old.claimed, old.attempt)
<1>1. TasksMove /\ Completions
  BY NoWriteMoves DEF Loop
<1>2. run[s][t].pc \in Begun /\ st \in States
  BY DEF Loop, At, Begun, Labels, TypeOK
<1>3. ASSUME NEW pc, NEW todo
      PROVE  r(pc, todo).pc = pc /\ r(pc, todo).exec = st.current /\ r(pc, todo).todo = todo
  BY DEF Run
<1>4. ASSUME NEW pc, NEW todo, Sees(s, t, pc, todo, {}), Fits(r(pc, todo), st) PROVE WorkStep
  <2>1. Goto(s, t, r(pc, todo))
    BY <1>4 DEF Sees
  <2> HIDE DEF r
  <2>2. RunsFit
    BY <1>2, <1>4, <2>1, GotoFits
  <2> QED BY <1>1, <2>2 DEF WorkStep
<1> HIDE DEF r
<1>5. CASE \E pc \in {"fail", "block"} : Sees(s, t, pc, {}, {})
  BY <1>3, <1>4, <1>5, NoDecision
<1>6. CASE Sees(s, t, "cancel", WaitingDependents(st), {})
  <2> DEFINE n == r("cancel", WaitingDependents(st))
  <2>1. n.pc = "cancel" /\ n.exec = st.current /\ n.todo = WaitingDependents(st)
    BY <1>3
  <2> HIDE DEF n
  <2>2. DoomedTodo(n, st)
    <3>1. ASSUME NEW i \in WaitingDependents(st)
          PROVE  /\ st.executions[st.current].steps[i] \in {"", "waiting"}
                 /\ \E d \in DependsOn[i] : \/ d \in WaitingDependents(st)
                                            \/ st.executions[st.current].steps[d] = "failed"
      BY <1>2, DependentsAreDoomed DEF CurrentSteps
    <3> QED BY <2>1, <3>1 DEF DoomedTodo
  <2>3. Fits(n, st)
    BY <2>1, <2>2 DEF Fits, ReadyTodo, Decided
  <2> QED BY <1>4, <1>6, <2>3 DEF n
<1>7. CASE AllStepsTerminal(st) /\ Completable(st) /\ Sees(s, t, "complete", {}, {})
  <2> DEFINE n == r("complete", {})
  <2>1. n.pc = "complete" /\ n.exec = st.current
    BY <1>3
  <2> HIDE DEF n
  <2>2. Decided(n, st)
    BY <1>7, <2>1 DEF Decided, Completable, AllStepsTerminal, Settled, CurrentSteps
  <2>3. Fits(n, st)
    BY <2>1, <2>2 DEF Fits, ReadyTodo, DoomedTodo
  <2> QED BY <1>4, <1>7, <2>3 DEF n
<1>8. CASE Sees(s, t, "steps", ReadySteps(st), {})
  <2> DEFINE n == r("steps", ReadySteps(st))
  <2>1. n.pc = "steps" /\ n.exec = st.current /\ n.todo = ReadySteps(st)
    BY <1>3
  <2> HIDE DEF n
  <2>2. ReadyTodo(n, st)
    BY <2>1 DEF ReadyTodo, ReadySteps, CurrentSteps
  <2>3. Fits(n, st)
    BY <2>1, <2>2 DEF Fits, DoomedTodo, Decided
  <2> QED BY <1>4, <1>8, <2>3 DEF n
<1> QED BY <1>5, <1>6, <1>7, <1>8 DEF Loop

LEMMA FinalizeWork ==
    ASSUME TypeOK, WorkInv, NEW s \in Schedulers, NEW t \in Tasks, Finalize(s, t)
    PROVE  WorkStep
<1>1. TasksMove /\ Completions
  BY NoWriteMoves DEF Finalize, Diagnostic
<1>2. run[s][t].pc \in Begun /\ \E todo, outs : Sees(s, t, "finalize", todo, outs)
  BY DEF Finalize, At, Begun, Labels
<1>3. RunsFit
  BY <1>2, JumpsFit DEF Plain
<1> QED BY <1>1, <1>3 DEF WorkStep

LEMMA CancelDependentsWork ==
    ASSUME TypeOK, WorkInv, NEW s \in Schedulers, NEW t \in Tasks, CancelDependents(s, t)
    PROVE  WorkStep
<1> DEFINE e == run[s][t].exec
           todo == run[s][t].todo
           new == applyStepTerminal(task[t], e, todo, "cancelled")
<1>1. run[s][t].pc = "cancel" /\ run[s][t].pc \in Begun /\ task[t] \in States
  BY DEF CancelDependents, At, Begun, Labels, TypeOK
<1>2. RunsFit
  BY <1>1, JumpsFit DEF CancelDependents, Plain
<1>3. CASE NoWrite
  BY <1>2, <1>3, NoWriteMoves DEF WorkStep, NoWrite
<1>4. CASE StillRunning(task[t], e) /\ Write(t, new)
  <2>1. e \in ExecutionIDs /\ task[t].status = "running"
    BY <1>4, RunFields DEF StillRunning
  <2>2. \A i \in todo : /\ task[t].executions[e].steps[i] \in {"", "waiting", "cancelled"}
                        /\ ~dependenciesCompleted(i, task[t].executions[e].steps)
    BY <1>1 DEF WorkInv, Fits, DoomedTodo, dependenciesCompleted
  <2>3. \A i \in todo \intersect Steps : StepChange(task[t].executions[e].steps, i, "cancelled")
    BY <2>2 DEF StepChange
  <2>4. Advance(task[t], new)
    BY <1>1, <2>1, <2>3, StepStatusChangedMoves DEF applyStepTerminal
  <2>5. new.status = task[t].status
    BY DEF applyStepTerminal, StepStatusChanged, setExecution, State
  <2> HIDE DEF new
  <2> QED BY <1>2, <1>4, <2>1, <2>4, <2>5, WriteMoves, WriteCompletes DEF WorkStep
<1> QED BY <1>3, <1>4 DEF CancelDependents

LEMMA PassEndsWork ==
    ASSUME TypeOK, WorkInv, NEW s \in Schedulers, NEW t \in Tasks, PassEnds(s, t)
    PROVE  WorkStep
<1>1. TasksMove /\ Completions
  BY NoWriteMoves DEF PassEnds
<1>2. run[s][t].pc \in Begun /\ Jump(s, t, "loop")
  BY DEF PassEnds, At, Begun, Labels
<1>3. RunsFit
  BY <1>2, JumpsFit DEF Plain
<1> QED BY <1>1, <1>3 DEF WorkStep

(* The next step of a pass has its dependencies done.                      *)
LEMMA NextIsReady ==
    ASSUME TypeOK, WorkInv, NEW s \in Schedulers, NEW t \in Tasks,
           run[s][t].pc = "steps", run[s][t].todo # {}
    PROVE  dependenciesCompleted(Next1(run[s][t].todo),
                                 task[t].executions[run[s][t].exec].steps)
<1>1. Next1(run[s][t].todo) \in run[s][t].todo
  BY RunFields, NextOfPass
<1> QED BY <1>1 DEF WorkInv, Fits, ReadyTodo

LEMMA BlockStepWork ==
    ASSUME TypeOK, WorkInv, NEW s \in Schedulers, NEW t \in Tasks, BlockStep(s, t)
    PROVE  WorkStep
<1> DEFINE e == run[s][t].exec
           i == Next1(run[s][t].todo)
           mid == StepStatusChanged(task[t], e, {i}, "blocked")
           new == StatusChanged(ExecutionInterrupted(mid, e), "blocked")
<1>1. run[s][t].pc = "steps" /\ run[s][t].todo # {} /\ task[t] \in States
  BY DEF BlockStep, At, TypeOK
<1>2. RunsFit
  BY StartsFit DEF BlockStep
<1>3. CASE NoWrite
  BY <1>2, <1>3, NoWriteMoves DEF WorkStep, NoWrite
<1>4. CASE /\ StillRunning(task[t], e) /\ task[t].executions[e].steps[i] = "waiting"
           /\ Write(t, new)
  <2>1. e \in ExecutionIDs /\ task[t].status = "running"
    BY <1>4, RunFields DEF StillRunning
  <2>2. dependenciesCompleted(i, task[t].executions[e].steps)
    BY <1>1, NextIsReady
  <2> HIDE DEF i, e
  <2>3. TaskMove(task[t], new) /\ new.status = "blocked"
    BY <1>1, <1>4, <2>1, <2>2, StepBlockedMoves
  <2> HIDE DEF new
  <2> QED BY <1>2, <1>4, <2>3, WriteMoves, WriteCompletes DEF WorkStep
<1> QED BY <1>3, <1>4 DEF BlockStep

LEMMA DispatchStepWork ==
    ASSUME TypeOK, WorkInv, NEW s \in Schedulers, NEW t \in Tasks, DispatchStep(s, t)
    PROVE  WorkStep
<1> DEFINE e == run[s][t].exec
           i == Next1(run[s][t].todo)
           new == StepDispatched(task[t], e, i)
<1>1. run[s][t].pc = "steps" /\ run[s][t].todo # {} /\ task[t] \in States
  BY DEF DispatchStep, At, TypeOK
<1>2. RunsFit
  BY <1>1, PassFits DEF DispatchStep
<1>3. CASE NoWrite
  BY <1>2, <1>3, NoWriteMoves DEF WorkStep, NoWrite
<1>4. CASE /\ StillRunning(task[t], e) /\ task[t].executions[e].steps[i] = "waiting"
           /\ Write(t, new)
  <2>1. e \in ExecutionIDs /\ task[t].status = "running"
    BY <1>4, RunFields DEF StillRunning
  <2>2. StepChange(task[t].executions[e].steps, i, "running")
    BY <1>1, <1>4, NextIsReady DEF StepChange, DispatchStep
  <2> HIDE DEF i, e
  <2>3. Advance(task[t], new)
    BY <1>1, <2>1, <2>2, StepDispatchedMoves
  <2>4. new.status = task[t].status
    BY DEF StepDispatched, setExecution, State
  <2> HIDE DEF new
  <2> QED BY <1>2, <1>4, <2>1, <2>3, <2>4, WriteMoves, WriteCompletes DEF WorkStep
<1> QED BY <1>3, <1>4 DEF DispatchStep

LEMMA StepReturnsWork ==
    ASSUME TypeOK, WorkInv, NEW s \in Schedulers, NEW t \in Tasks, NEW A \in SUBSET Outputs,
           NEW x \in {"completed", "failed"}, StepReturns(s, t, x, A)
    PROVE  WorkStep
<1> DEFINE e == run[s][t].exec
           i == Next1(run[s][t].todo)
           mid == applyStepTerminal(task[t], e, {i}, x)
           new == ArtifactsAdded(mid, e, A)
<1>1. run[s][t].pc = "work" /\ task[t] \in States
  BY DEF StepReturns, At, TypeOK
<1>2. RunsFit
  BY <1>1, PassFits DEF StepReturns
<1>3. CASE Diagnostic(t)
  BY <1>2, <1>3, NoWriteMoves DEF WorkStep, Diagnostic
<1>4. CASE /\ StillRunning(task[t], e) /\ task[t].executions[e].steps[i] = "running"
           /\ Write(t, new)
  <2>1. e \in ExecutionIDs /\ task[t].status = "running"
    BY <1>4, RunFields DEF StillRunning
  <2>2. \A j \in {i} \intersect Steps : StepChange(task[t].executions[e].steps, j, x)
    BY <1>4 DEF StepChange
  <2> HIDE DEF i, e
  <2>0. x \in StepStatuses
    BY DEF StepStatuses
  <2>3. Advance(task[t], mid) /\ mid \in States /\ mid.status = task[t].status
    <3>1. mid = StepStatusChanged(task[t], e, {i}, x)
      BY DEF applyStepTerminal
    <3> HIDE DEF mid
    <3>2. Advance(task[t], mid)
      BY <1>1, <2>1, <2>2, <3>1, StepStatusChangedMoves
    <3>3. mid \in States /\ mid.status = task[t].status
      BY <1>1, <2>0, <2>1, <3>1, StepStatusChangedType
    <3> QED BY <3>2, <3>3
  <2> HIDE DEF mid
  <2>4. Kept(mid, new) /\ new.status = mid.status
    BY <2>3, ArtifactsAddedKept DEF ArtifactsAdded, State
  <2> HIDE DEF new
  <2>5. Advance(task[t], new)
    BY <2>1, <2>3, <2>4, KeptMove
  <2> QED BY <1>2, <1>4, <2>1, <2>3, <2>4, <2>5, WriteMoves, WriteCompletes DEF WorkStep
<1> QED BY <1>3, <1>4 DEF StepReturns

LEMMA FinalizerReturnsWork ==
    ASSUME TypeOK, WorkInv, NEW s \in Schedulers, NEW t \in Tasks, FinalizerReturns(s, t)
    PROVE  WorkStep
<1> DEFINE e == run[s][t].exec
           new == ArtifactsAdded(task[t], e, run[s][t].outs)
<1>1. run[s][t].pc \in Begun /\ task[t] \in States
  BY DEF FinalizerReturns, At, Begun, Labels, TypeOK
<1>2. RunsFit
  BY <1>1, JumpsFit DEF FinalizerReturns, Plain
<1>3. CASE NoWrite \/ Diagnostic(t)
  BY <1>2, <1>3, NoWriteMoves DEF WorkStep, NoWrite, Diagnostic
<1>4. CASE StillRunning(task[t], e) /\ Write(t, new)
  <2>1. new.status = task[t].status /\ task[t].status = "running"
    BY <1>4 DEF ArtifactsAdded, State, StillRunning
  <2>2. Advance(task[t], new)
    BY <1>1, <2>1, ArtifactsAddedKept, SameMove
  <2> QED BY <1>2, <1>4, <2>1, <2>2, WriteMoves, WriteCompletes DEF WorkStep
<1> QED BY <1>3, <1>4 DEF FinalizerReturns

LEMMA EndExecutionWork ==
    ASSUME TypeOK, WorkInv, NEW s \in Schedulers, NEW t \in Tasks,
           NEW from \in {"fail", "finalizeFail", "complete"}, NEW x \in {"failed", "completed"},
           x = "completed" => from = "complete", EndExecution(s, t, from, x)
    PROVE  WorkStep
<1> DEFINE e == run[s][t].exec
           new == applyExecutionTerminal(task[t], e, x)
<1>1. run[s][t].pc = from /\ run[s][t].pc \in Begun /\ task[t] \in States
  BY DEF EndExecution, At, Begun, Labels, TypeOK
<1>2. RunsFit
  BY <1>1, JumpsFit, StartsFit DEF EndExecution, Plain
<1>3. CASE Diagnostic(t)
  BY <1>2, <1>3, NoWriteMoves DEF WorkStep, Diagnostic
<1>4. CASE StillRunning(task[t], e) /\ Write(t, new)
  <2>1. e \in ExecutionIDs /\ task[t].status = "running" /\ task[t].current = e
    BY <1>4, RunFields DEF StillRunning
  <2> HIDE DEF e
  <2>0. x \in Statuses
    BY DEF Statuses
  <2>2. new.status = x /\ Kept(task[t], new)
    BY <1>1, <2>0, <2>1, setExecutionStatusType, setExecutionStatusKept DEF applyExecutionTerminal
  <2> HIDE DEF new
  <2>3. Advance(task[t], new)
    BY <2>2, SameMove
  <2>4. ASSUME Declared, x = "completed" PROVE Completable(task[t])
    <3>1. Decided(run[s][t], task[t]) /\ run[s][t].pc = "complete"
      BY <1>1, <2>4 DEF WorkInv, Fits
    <3> QED BY <2>1, <3>1 DEF e, Decided, Completable, AllStepsTerminal, Settled, CurrentSteps
  <2>5. task'[t] = new /\ \A u \in Tasks : u # t => task'[u] = task[u]
    BY <1>4 DEF TypeOK, Write
  <2>6. Declared => Completions
    BY <2>2, <2>4, <2>5 DEF Completions
  <2> QED BY <1>2, <1>4, <2>3, <2>6, WriteMoves DEF WorkStep
<1> QED BY <1>3, <1>4 DEF EndExecution

LEMMA BlockTaskWork ==
    ASSUME TypeOK, WorkInv, NEW s \in Schedulers, NEW t \in Tasks, BlockTask(s, t)
    PROVE  WorkStep
<1> DEFINE e == run[s][t].exec
           new == StatusChanged(ExecutionInterrupted(task[t], e), "blocked")
<1>1. task[t] \in States /\ e \in ExecutionIDs
  BY RunFields DEF TypeOK
<1>2. RunsFit
  BY StartsFit DEF BlockTask
<1>3. CASE NoWrite
  BY <1>2, <1>3, NoWriteMoves DEF WorkStep, NoWrite
<1>4. CASE Write(t, new)
  <2> HIDE DEF e
  <2>1. Kept(task[t], new) /\ new.status = "blocked"
    BY <1>1, InterruptedKept, InterruptedType, ZenonT(30) DEF Statuses
  <2> HIDE DEF new
  <2>2. Advance(task[t], new)
    BY <2>1, SameMove
  <2> QED BY <1>2, <1>4, <2>1, <2>2, WriteMoves, WriteCompletes DEF WorkStep
<1> QED BY <1>3, <1>4 DEF BlockTask

-----------------------------------------------------------------------------
(* The other steps.                                                        *)

LEMMA ReconcileExecutionWork ==
    ASSUME TypeOK, WorkInv, NEW s \in Schedulers, NEW t \in Tasks, ReconcileExecution(s, t)
    PROVE  WorkStep
<1> DEFINE st == task[t]
           e == st.current
<1>1. st \in States /\ e \in ExecutionIDs /\ st.status = "running"
  BY StateFields DEF ReconcileExecution, recoverable, StillRunning, TypeOK
<1>2. RunsFit
  BY SameRuns DEF ReconcileExecution
<1>3. PICK mid \in {st, Retried(st)}, x \in {"ready", "interrupted"} :
         Write(t, StatusChanged(ExecutionInterrupted(mid, e), x))
  BY DEF ReconcileExecution
<1>4. Advance(st, mid) /\ mid \in States
  <2>1. Advance(st, st)
    BY SameMove DEF Kept
  <2>2. Advance(st, Retried(st))
    BY <1>1, RetriedMoves
  <2>3. Retried(st) \in States
    BY <1>1, StepStatusChangedType DEF Retried, StepStatuses
  <2> QED BY <1>1, <2>1, <2>2, <2>3
<1> DEFINE new == StatusChanged(ExecutionInterrupted(mid, e), x)
<1>5. x \in Statuses
  BY DEF Statuses
<1>6. Kept(mid, new) /\ new.status = x
  BY <1>1, <1>4, <1>5, InterruptedKept, InterruptedType
<1>7. Write(t, new)
  BY <1>3
<1> HIDE DEF new
<1>8. Advance(st, new)
  BY <1>4, <1>6, KeptMove
<1> QED BY <1>2, <1>6, <1>7, <1>8, WriteMoves, WriteCompletes DEF WorkStep

LEMMA LeaseWork ==
    ASSUME TypeOK, WorkInv, NEW t \in Tasks,
           LeaseExpires(t) \/ \E s \in Schedulers : RenewLease(s, t)
    PROVE  WorkStep
<1>1. task[t] \in States /\ task[t].current \in ExecutionIDs
  BY StateFields DEF TypeOK
<1>2. RunsFit
  BY SameRuns DEF LeaseExpires, RenewLease
<1>3. PICK new : /\ Kept(task[t], new) /\ new.status = task[t].status
                 /\ task' = [task EXCEPT ![t] = new]
  <2>1. ASSUME NEW e \in ExecutionIDs, NEW w, NEW l
        PROVE  LET new == setLease(task[t], e, w, l)
               IN  Kept(task[t], new) /\ new.status = task[t].status
    BY <1>1, setLeaseKept DEF setLease, State
  <2>2. CASE LeaseExpires(t)
    <3>1. \E w : task' = [task EXCEPT ![t] = setLease(task[t], task[t].current, w, "expired")]
      BY <2>2 DEF LeaseExpires
    <3> QED BY <1>1, <2>1, <3>1
  <2>3. CASE \E s \in Schedulers : RenewLease(s, t)
    <3>1. PICK s \in Schedulers : RenewLease(s, t)
      BY <2>3
    <3> DEFINE e == run[s][t].exec
    <3>2. e \in ExecutionIDs /\ task' = [task EXCEPT ![t] = ExecutionLeaseRenewed(task[t], e, s)]
      BY <3>1, RunFields DEF RenewLease, Write
    <3>3. task[t].executions[e].status = "running"
      BY <3>1 DEF RenewLease, StillRunning
    <3>4. ExecutionLeaseRenewed(task[t], e, s) = setLease(task[t], e, s, "held")
      BY <3>3 DEF ExecutionLeaseRenewed
    <3> QED BY <2>1, <3>2, <3>4
  <2> QED BY <2>2, <2>3
<1>4. TaskMove(task[t], new)
  BY <1>3, SameMove, AdvanceMoves
<1>5. task'[t] = new /\ \A u \in Tasks : u # t => task'[u] = task[u]
  BY <1>3 DEF TypeOK
<1>6. \A u \in Tasks : TaskMove(task[u], task[u])
  BY SameMove, AdvanceMoves DEF Kept
<1>7. TasksMove
  BY <1>4, <1>5, <1>6 DEF TasksMove
<1>8. Completions
  BY <1>3, <1>5 DEF Completions
<1> QED BY <1>2, <1>7, <1>8 DEF WorkStep

(* Nothing but the start or the end of runs.                               *)
LEMMA OutsideWork ==
    ASSUME TypeOK, WorkInv, UNCHANGED task,
           UNCHANGED run \/ \E s \in Schedulers, t \in Tasks : Goto(s, t, Idle) \/ Goto(s, t, AtClaim)
    PROVE  WorkStep
BY NoWriteMoves, SameRuns, StartsFit DEF WorkStep

LEMMA CrashWork ==
    ASSUME TypeOK, WorkInv, NEW s \in Schedulers, Crash(s)
    PROVE  WorkStep
<1>1. TasksMove /\ Completions
  BY NoWriteMoves DEF Crash
<1>2. \A q \in Schedulers, u \in Tasks : run'[q][u] = run[q][u] \/ run'[q][u] = Idle
  BY DEF Crash, TypeOK
<1>3. Idle.pc = "idle"
  BY DEF Idle, Run
<1>4. \A st : Fits(Idle, st)
  BY <1>3, NoDecision
<1>5. Idle.pc \notin Begun
  BY <1>3 DEF Begun
<1>6. RunsFit
  BY <1>2, <1>4, <1>5 DEF WorkInv, RunsFit
<1> QED BY <1>1, <1>6 DEF WorkStep

LEMMA CreateTaskWork ==
    ASSUME TypeOK, WorkInv, NEW s \in Schedulers, NEW t \in Tasks, NEW x \in {"draft", "ready"},
           NEW D, NEW R, CreateTask(s, t, x, D, R)
    PROVE  WorkStep
<1>1. task[t] \in States /\ task[t].status = "" /\ Write(t, Created(x, D, R)) /\ UNCHANGED run
  BY DEF CreateTask, TypeOK
<1>2. \A e \in ExecutionIDs : task[t].executions[e].steps = NoSteps
  BY <1>1 DEF WorkInv
<1>3. x \in Statuses /\ x # "completed"
  BY DEF Statuses
<1>4. Advance(task[t], Created(x, D, R))
  BY <1>1, <1>2, <1>3, CreatedMoves
<1>5. Created(x, D, R).status = x
  BY DEF Created, State
<1> QED BY <1>1, <1>3, <1>4, <1>5, SameRuns, WriteMoves, WriteCompletes DEF WorkStep

(* A session writes to a task.                                             *)
LEMMA SessionWork ==
    ASSUME TypeOK, WorkInv, NEW t \in Tasks, NEW new, Advance(task[t], new), Write(t, new),
           UNCHANGED run, ops' = ops + 1
    PROVE  WorkStep
<1>0. ops \in Nat
  BY DEF TypeOK
<1>1. ops' # ops
  BY <1>0
<1> QED BY <1>1, SameRuns, WriteMoves, WriteCompletes DEF WorkStep

LEMMA ModifyWork ==
    ASSUME TypeOK, WorkInv, NEW s \in Schedulers, NEW t \in Tasks, NEW op, NEW new,
           op \in Operations /\ task[t].status # "" => Advance(task[t], new),
           Modify(s, t, op, new)
    PROVE  WorkStep
<1>1. /\ op \in Operations /\ task[t].status # "" /\ Write(t, new)
      /\ UNCHANGED run /\ ops' = ops + 1
  BY DEF Modify
<1> QED BY <1>1, SessionWork

LEMMA StatusOperationWork ==
    ASSUME TypeOK, WorkInv, NEW s \in Schedulers, NEW t \in Tasks, NEW x \in SetStatuses,
           SetStatus(s, t, x) \/ Reopen(s, t, x)
    PROVE  WorkStep
<1>1. x \in Statuses /\ x # ""
  BY SchedulerAssumption DEF Statuses
<1>2. Advance(task[t], StatusChanged(task[t], x))
  BY <1>1, setStatusKept, SameMove DEF StatusChanged, setStatus, State
<1>3. \E op : Modify(s, t, op, StatusChanged(task[t], x))
  BY DEF SetStatus, Reopen
<1> QED BY <1>2, <1>3, ModifyWork

LEMMA StepOperationWork ==
    ASSUME Stepwise, NEW s \in Schedulers, NEW t \in Tasks, NEW e, NEW i, NEW x,
           SetStepStatus(s, t, e, i, x) \/ ReopenStep(s, t, e, i, x)
    PROVE  FALSE
<1>1. "set_step_status" \in Operations \/ "reopen_step" \in Operations
  BY DEF SetStepStatus, ReopenStep, Modify
<1> QED BY <1>1 DEF Stepwise

LEMMA RevisionWork ==
    ASSUME TypeOK, WorkInv, NEW s \in Schedulers, NEW t \in Tasks,
           \/ \E i \in Steps : AddStep(s, t, i) \/ RemoveStep(s, t, i)
           \/ \E o \in Outputs : AddOutput(s, t, o)
    PROVE  WorkStep
<1>1. task[t] \in States
  BY DEF TypeOK
<1>2. PICK op, D, R : /\ Modify(s, t, op, Revised(task[t], D, R))
                      /\ \/ op \in {"add_step", "add_output"}
                         \/ D \subseteq task[t].steps /\ R = task[t].outputs
  <2>1. CASE \E i \in Steps : AddStep(s, t, i)
    BY <2>1 DEF AddStep
  <2>2. CASE \E i \in Steps : RemoveStep(s, t, i)
    <3>1. PICK i \in Steps : RemoveStep(s, t, i)
      BY <2>2
    <3>2. Modify(s, t, "remove_step", Revised(task[t], task[t].steps \ {i}, task[t].outputs))
      BY <3>1 DEF RemoveStep
    <3> QED BY <3>2
  <2>3. CASE \E o \in Outputs : AddOutput(s, t, o)
    BY <2>3 DEF AddOutput
  <2> QED BY <2>1, <2>2, <2>3
<1>3. op \in Operations /\ Declared => D \subseteq task[t].steps /\ R = task[t].outputs
  BY <1>2 DEF Declared
<1>4. op \in Operations /\ task[t].status # "" => Advance(task[t], Revised(task[t], D, R))
  BY <1>1, <1>3, RevisedMoves
<1> QED BY <1>2, <1>4, ModifyWork

LEMMA ArtifactOperationWork ==
    ASSUME TypeOK, WorkInv, NEW s \in Schedulers, NEW t \in Tasks,
           \/ \E o \in Outputs, e \in Scopes(task[t]) \union {NoExecution} : AddArtifact(s, t, e, o)
           \/ \E A \in SUBSET Outputs, force \in BOOLEAN : CompleteTask(s, t, A, force)
    PROVE  WorkStep
<1>1. task[t] \in States
  BY DEF TypeOK
<1>2. ASSUME NEW e, NEW A
      PROVE  LET mid == ArtifactsAdded(task[t], e, A)
             IN  Kept(task[t], mid) /\ mid.status = task[t].status
  BY <1>1, ArtifactsAddedKept DEF ArtifactsAdded, State
<1>3. CASE \E o \in Outputs, e \in Scopes(task[t]) \union {NoExecution} : AddArtifact(s, t, e, o)
  <2>1. PICK e, o : Modify(s, t, "add_artifact", ArtifactsAdded(task[t], e, {o}))
    BY <1>3 DEF AddArtifact
  <2>2. Advance(task[t], ArtifactsAdded(task[t], e, {o}))
    BY <1>2, SameMove
  <2> QED BY <2>1, <2>2, ModifyWork
<1>4. CASE \E A \in SUBSET Outputs, force \in BOOLEAN : CompleteTask(s, t, A, force)
  <2>1. PICK A : Modify(s, t, "complete",
                        StatusChanged(ArtifactsAdded(task[t], NoExecution, A), "completed"))
    BY <1>4 DEF CompleteTask
  <2> DEFINE mid == ArtifactsAdded(task[t], NoExecution, A)
             new == StatusChanged(mid, "completed")
  <2>2. Kept(task[t], mid)
    BY <1>2
  <2>3. Kept(mid, new) /\ new.status = "completed"
    BY setStatusKept DEF StatusChanged, setStatus, State
  <2>4. Modify(s, t, "complete", new)
    BY <2>1
  <2> HIDE DEF mid, new
  <2>5. Advance(task[t], new)
    BY <2>2, <2>3, KeptTransitive, SameMove
  <2> QED BY <2>4, <2>5, ModifyWork
<1> QED BY <1>3, <1>4

LEMMA RunOperationWork ==
    ASSUME TypeOK, WorkInv, NEW s \in Schedulers, NEW t \in Tasks,
           \/ recordTaskRunWatcher(s, t) \/ SubmitTask(s, t)
           \/ \E k \in {"user", "task_run"} : NotifyTaskReady(s, t, k)
    PROVE  WorkStep
<1>1. CASE recordTaskRunWatcher(s, t)
  <2>1. /\ task[t] \in States /\ task[t].status # "" /\ UNCHANGED run /\ ops' = ops + 1
        /\ Write(t, Revised(task[t], task[t].steps, task[t].outputs))
    BY <1>1 DEF recordTaskRunWatcher, TypeOK
  <2>2. Advance(task[t], Revised(task[t], task[t].steps, task[t].outputs))
    BY <2>1, RevisedMoves
  <2> QED BY <2>1, <2>2, SessionWork
<1>2. CASE SubmitTask(s, t) \/ \E k \in {"user", "task_run"} : NotifyTaskReady(s, t, k)
  <2>1. UNCHANGED task /\ (UNCHANGED run \/ Goto(s, t, AtClaim))
    BY <1>2 DEF SubmitTask, NotifyTaskReady, NoWrite, Diagnostic
  <2> QED BY <2>1, OutsideWork
<1> QED BY <1>1, <1>2

LEMMA NextWork ==
    ASSUME Stepwise, IInv, WorkInv, [Next]_vars
    PROVE  WorkStep
<1>0. TypeOK
  BY DEF IInv
<1>1. ASSUME NEW s \in Schedulers, NEW t \in Tasks, Drive(s, t) PROVE WorkStep
  BY <1>0, <1>1, ClaimReadWork, ClaimAppendWork, OpenTaskWork, WholeTaskReturnsWork,
     ValidateWholeTaskWork, LoopWork, FinalizeWork, CancelDependentsWork, PassEndsWork,
     BlockStepWork, DispatchStepWork, StepReturnsWork, FinalizerReturnsWork, EndExecutionWork,
     BlockTaskWork
  DEF Drive
<1>2. ASSUME NEW s \in Schedulers, NEW t \in Tasks, Operate(s, t) PROVE WorkStep
  <2>1. CASE \E x \in {"draft", "ready"}, D \in Declarations, R \in Requirements :
                CreateTask(s, t, x, D, R)
    BY <1>0, <2>1, CreateTaskWork
  <2>2. CASE \E x \in SetStatuses : SetStatus(s, t, x) \/ Reopen(s, t, x)
    BY <1>0, <2>2, StatusOperationWork
  <2>3. CASE \E e \in Scopes(task[t]), i \in Steps, x \in StepStatuses :
                SetStepStatus(s, t, e, i, x) \/ ReopenStep(s, t, e, i, x)
    BY <2>3, StepOperationWork
  <2>4. CASE \/ \E i \in Steps : AddStep(s, t, i) \/ RemoveStep(s, t, i)
             \/ \E o \in Outputs : AddOutput(s, t, o)
    BY <1>0, <2>4, RevisionWork
  <2>5. CASE \/ \E o \in Outputs, e \in Scopes(task[t]) \union {NoExecution} :
                   AddArtifact(s, t, e, o)
             \/ \E A \in SUBSET Outputs, force \in BOOLEAN : CompleteTask(s, t, A, force)
    BY <1>0, <2>5, ArtifactOperationWork
  <2>6. CASE \/ recordTaskRunWatcher(s, t) \/ SubmitTask(s, t)
             \/ \E k \in {"user", "task_run"} : NotifyTaskReady(s, t, k)
    BY <1>0, <2>6, RunOperationWork
  <2> QED BY <1>2, <2>1, <2>2, <2>3, <2>4, <2>5, <2>6 DEF Operate
<1>3. ASSUME NEW s \in Schedulers, NEW t \in Tasks,
             \/ TickReady(s, t) \/ RunFails(s, t)
             \/ \E k \in Kinds : IndexProject(s, t, k) \/ IndexAppend(s, t, k) \/ IndexFails(s, t, k)
      PROVE  WorkStep
  <2>1. /\ UNCHANGED task
        /\ UNCHANGED run \/ Goto(s, t, Idle) \/ Goto(s, t, AtClaim)
    BY <1>3 DEF TickReady, RunFails, IndexProject, IndexAppend, IndexFails
  <2> QED BY <1>0, <2>1, OutsideWork
<1>4. ASSUME NEW s \in Schedulers, SetEnabled(s) PROVE WorkStep
  BY <1>0, <1>4, OutsideWork DEF SetEnabled
<1>5. CASE UNCHANGED vars
  BY <1>0, <1>5, OutsideWork DEF vars
<1>6. CASE Next
  BY <1>0, <1>1, <1>2, <1>3, <1>4, <1>6, ReconcileExecutionWork, LeaseWork, CrashWork DEF Next
<1> QED BY <1>5, <1>6

LEMMA InitialWork == Init => WorkInv
<1> SUFFICES ASSUME Init PROVE WorkInv
  OBVIOUS
<1>1. Idle.pc = "idle"
  BY DEF Idle, Run
<1>2. \A st : Fits(Idle, st)
  BY <1>1, NoDecision
<1>3. Idle.pc \notin Begun
  BY <1>1 DEF Begun
<1>4. \A e \in ExecutionIDs : ZeroState.executions[e].steps = NoSteps
  BY DEF ZeroState, State, ZeroExecution, Execution
<1> QED BY <1>2, <1>3, <1>4 DEF Init, WorkInv

(* The decisions of all goroutines fit the state of their task in every    *)
(* reachable state, although they were made on a state read earlier.       *)
THEOREM DecisionsStayTrue ==
    ASSUME Stepwise
    PROVE  Spec => []WorkInv
<1>1. Init => WorkInv
  BY InitialWork
<1>2. IInv /\ WorkInv /\ [Next]_vars => WorkInv'
  BY NextWork, NextInductive, WorkKept DEF IInv
<1> QED BY <1>1, <1>2, Invariance, PTL DEF Spec

(* The step formulas of WorkIsKept.                                        *)
InOrder ==
    \A t \in Tasks, e \in ExecutionIDs, i \in Steps :
        (/\ task[t].executions[e].steps[i] # "running"
         /\ task'[t].executions[e].steps[i] = "running")
        => \A d \in DependsOn[i] : task[t].executions[e].steps[d] = "completed"
StaysCompleted ==
    \A t \in Tasks, e \in ExecutionIDs, i \in Steps :
        task[t].executions[e].steps[i] = "completed"
            => task'[t].executions[e].steps[i] = "completed"

(* A step is dispatched only after its dependencies completed, and what    *)
(* completed is not run or cancelled again, whatever processes, lease      *)
(* expiries and retries there are, as long as no session sets the status   *)
(* of a step: although appendStepDispatch and cancelWaitingDependents act  *)
(* on a list that was computed from an earlier read.                       *)
THEOREM WorkStaysDone ==
    ASSUME Stepwise
    PROVE  Spec => WorkIsKept
<1>1. ASSUME IInv, WorkInv, [Next]_vars PROVE InOrder /\ StaysCompleted
  <2>1. \A t \in Tasks, e \in ExecutionIDs, i \in Steps :
           LET p == task[t].executions[e].steps
               y == task'[t].executions[e].steps[i]
           IN  StepChange(p, i, y) \/ StepBlock(p, i, y, task'[t].executions[e].status)
    BY <1>1, NextWork DEF WorkStep, TasksMove, TaskMove
  <2>2. InOrder
    BY <2>1 DEF InOrder, StepChange, StepBlock, dependenciesCompleted
  <2>3. StaysCompleted
    BY <2>1, FinalStatus DEF StaysCompleted
  <2> QED BY <2>2, <2>3
<1>2. IInv /\ WorkInv /\ [Next]_vars => [InOrder]_vars /\ [StaysCompleted]_vars
  BY <1>1
<1> QED BY <1>2, Invariance, DecisionsStayTrue, PTL
        DEF Spec, WorkIsKept, DispatchInOrder, CompletedStepStays, InOrder, StaysCompleted

(* A scheduler completes a task only when its required outputs exist and   *)
(* its steps are settled, although appendExecutionTerminal does not check  *)
(* that again: nothing but a session that adds a step or an output, or     *)
(* sets the status of a step, can come between the decision and the write. *)
THEOREM CompletionsAreValid ==
    ASSUME Stepwise, Declared
    PROVE  Spec => CompletionIsValid
<1>1. IInv /\ WorkInv /\ [Next]_vars => [Completions]_vars
  BY NextWork DEF WorkStep
<1> QED BY <1>1, Invariance, DecisionsStayTrue, PTL DEF Spec, CompletionIsValid, Completions

-----------------------------------------------------------------------------
(* The driver of a task.  A goroutine that claimed a task holds it, with   *)
(* the lease it took, until it ends its execution, even when sessions      *)
(* cancel, block, complete or reopen the task meanwhile; and a task runs   *)
(* only while the goroutine that claimed it drives it.                     *)

(* Sessions do not say that a task runs, and do not touch its executions:  *)
(* a step status, or an artifact, that names an execution makes it the     *)
(* current one.                                                            *)
Unsteered ==
    /\ Operations \intersect {"set_step_status", "reopen_step", "add_artifact"} = {}
    /\ "running" \notin SetStatuses

(* The declared steps of an execution that was started have a status.      *)
Ensured(st) ==
    \A e \in ExecutionIDs, i \in st.steps :
        st.executions[e].attempt > 0 => st.executions[e].steps[i] # ""
WellFormed(st) ==
    /\ st.executions[NoExecution].status = ""
    /\ st.current # NoExecution => st.executions[st.current].attempt > 0
    /\ Ensured(st)

(* The goroutine of s holds t: its claim is the one that counts.           *)
Holds(s, t) ==
    LET exec == task[t].executions[run[s][t].claimed]
    IN  /\ task[t].current = run[s][t].claimed /\ exec.status = "running"
        /\ exec.attempt = run[s][t].attempt /\ exec.worker = s /\ exec.lease = "held"
(* It has failed its execution and returns, through blockCompletion, which *)
(* finds nothing to block.                                                 *)
Spent(s, t) ==
    LET exec == task[t].executions[run[s][t].exec]
    IN  run[s][t].pc = "block" /\ exec.status = "failed" /\ exec.attempt > 0
HeldInv ==
    stalls = 0 => \A s \in Schedulers, t \in Tasks :
        run[s][t].pc \in Begun => Holds(s, t) \/ Spent(s, t)

(* The goroutine of s drives the attempt that runs.                        *)
Drives(s, t) ==
    LET r == run[s][t]
    IN  /\ r.pc \in Begun /\ r.claimed = task[t].current /\ r.claimed # NoExecution
        /\ r.attempt = task[t].executions[r.claimed].attempt
        /\ r.pc # "open" => r.exec = r.claimed
DrivenInv ==
    faults = 0 => \A t \in Tasks :
        StillRunning(task[t], task[t].current) => \E s \in Schedulers : Drives(s, t)

(* A human step that waits for its turn in a pass is not touched as long   *)
(* as the attempt runs.                                                    *)
HumanTodo(r, st) ==
    LET exec == st.executions[r.exec]
    IN  (/\ r.pc \in {"steps", "work"} /\ r.exec = r.claimed
         /\ exec.status = "running" /\ exec.attempt = r.attempt)
        => \A i \in r.todo \intersect HumanSteps : exec.steps[i] = "waiting"

DriveInv ==
    /\ \A t \in Tasks : WellFormed(task[t])
    /\ \A s \in Schedulers, t \in Tasks : HumanTodo(run[s][t], task[t])
    /\ HeldInv /\ DrivenInv

(* What a step does to the claim of a task.                                *)
SameHold(old, new) ==
    /\ new.status = old.status \/ new.status # "running"
    /\ new.current = old.current
    /\ new.steps = old.steps \/ Ensured(new)
    /\ \A e \in ExecutionIDs :
          LET a == old.executions[e]
              b == new.executions[e]
          IN  /\ b.status = a.status /\ b.attempt = a.attempt /\ b.worker = a.worker
              /\ b.lease \in {a.lease, "held"}

SameAround(old, new) ==
    /\ new.current = old.current /\ new.steps = old.steps
    /\ \A e \in ExecutionIDs :
          /\ new.executions[e].attempt = old.executions[e].attempt
          /\ \/ new.executions[e].status = old.executions[e].status
             \/ old.executions[e].status = "running"

(* The goroutine of s ends the execution and leaves, or has only to        *)
(* return.                                                                 *)
Stops(s, t, new) ==
    /\ run[s][t].pc \in Begun /\ StillRunning(task[t], run[s][t].exec)
    /\ new.status # "running" /\ SameAround(task[t], new)
    /\ \/ run'[s][t].pc \notin Begun
       \/ /\ run'[s][t].pc = "block" /\ run'[s][t].exec = run[s][t].exec
          /\ new.executions[run[s][t].exec].status = "failed"
(* Reconciliation ends it.                                                 *)
Recovers(old, new) == recoverable(old) /\ new.status # "running" /\ SameAround(old, new)

Expires(t, new) ==
    /\ new.status = task[t].status /\ new.current = task[t].current
    /\ new.steps = task[t].steps
    /\ \A e \in ExecutionIDs :
          LET a == task[t].executions[e]
              b == new.executions[e]
          IN  b.status = a.status /\ b.attempt = a.attempt /\ b.worker = a.worker
    /\ ~HolderDrives(t) \/ stalls' # 0

Creates(old, new) ==
    /\ old.status = "" /\ new.status # "running" /\ new.current = NoExecution
    /\ \A e \in ExecutionIDs : new.executions[e].status = "" /\ new.executions[e].attempt = 0

Claims(s, t) ==
    /\ claimable(task[t])
    /\ \E e \in ClaimTargets(task[t]) :
          /\ task'[t] = ExecutionStarted(task[t], e, s)
          /\ run'[s][t] = Run("open", NoExecution, {}, {}, e, task[t].executions[e].attempt + 1)

HoldMove(t, new) ==
    \/ SameHold(task[t], new) \/ Recovers(task[t], new) \/ Expires(t, new)
    \/ Creates(task[t], new) \/ \E s \in Schedulers : Stops(s, t, new)
HoldsMove == \A t \in Tasks : HoldMove(t, task'[t]) \/ \E s \in Schedulers : Claims(s, t)

(* What a step does to a goroutine.                                        *)
Continues(old, new, st) ==
    /\ old.pc \in Begun \ {"block"} /\ new.pc \in Begun \ {"open"}
    /\ new.claimed = old.claimed /\ new.attempt = old.attempt
    /\ new.exec = st.current \/ (old.pc # "open" /\ new.exec = old.exec)
(* It may leave the task only when the attempt it drives does not run any  *)
(* more.                                                                   *)
Leaves(s, t) ==
    \/ run[s][t].pc \notin Begun
    \/ faults' # faults
    \/ /\ run[s][t].pc # "open"
       /\ (/\ run[s][t].exec = run[s][t].claimed /\ StillRunning(task[t], run[s][t].exec)
           /\ task[t].executions[run[s][t].exec].attempt = run[s][t].attempt)
          => ~StillRunning(task'[t], task'[t].current)
RunMove(s, t, new) ==
    \/ new = run[s][t]
    \/ Continues(run[s][t], new, task[t])
    \/ new.pc \notin Begun /\ Leaves(s, t)
RunsMove ==
    \A s \in Schedulers, t \in Tasks :
        /\ RunMove(s, t, run'[s][t]) \/ Claims(s, t)
        /\ HumanTodo(run'[s][t], task[t])
Counters == stalls' \in {stalls, stalls + 1} /\ faults' \in {faults, faults + 1}

DriveStep == HoldsMove /\ RunsMove /\ Counters

-----------------------------------------------------------------------------
(* What such a step keeps.                                                 *)

LEMMA ClaimedState ==
    ASSUME NEW st \in States, NEW e \in ExecutionIDs, NEW w \in Workers
    PROVE  LET new == ExecutionStarted(st, e, w)
           IN  /\ new.status = "running" /\ new.current = e /\ new.steps = st.steps
               /\ new.executions[e] = Execution("running", st.executions[e].attempt + 1, w, "held",
                                          ensureExecutionSteps(st.steps, st.executions[e].steps))
               /\ \A f \in ExecutionIDs \ {e} : new.executions[f] = st.executions[f]
<1> DEFINE x == Execution("running", st.executions[e].attempt + 1, w, "held",
                          ensureExecutionSteps(st.steps, st.executions[e].steps))
           new == ExecutionStarted(st, e, w)
<1>1. st.executions \in [ExecutionIDs -> Executions]
  BY StateFields
<1>2. new = setStatus(setExecution(st, e, x), "running")
  BY DEF ExecutionStarted
<1> HIDE DEF x
<1>3. /\ new.status = "running" /\ new.current = e /\ new.steps = st.steps
      /\ new.executions = [st.executions EXCEPT ![e] = x]
  BY <1>2 DEF setStatus, setExecution, State
<1> HIDE DEF new
<1>4. new.executions[e] = x /\ \A f \in ExecutionIDs \ {e} : new.executions[f] = st.executions[f]
  BY <1>1, <1>3
<1> QED BY <1>3, <1>4 DEF x, new

LEMMA ExecutionParts ==
    ASSUME NEW a, NEW b, NEW c, NEW d, NEW f
    PROVE  LET x == Execution(a, b, c, d, f)
           IN  x.status = a /\ x.attempt = b /\ x.worker = c /\ x.lease = d /\ x.steps = f
BY DEF Execution

LEMMA ClaimTargetReal ==
    ASSUME NEW st \in States, WellFormed(st), NEW e \in ClaimTargets(st)
    PROVE  e \in ExecutionIDs /\ e # NoExecution
<1>1. CASE e = st.current /\ st.executions[e].status = "interrupted"
  BY <1>1, StateFields DEF WellFormed
<1>2. CASE e \in FreshExecutions(st)
  <2>1. MaxExecs \in Nat /\ e \in 1 .. MaxExecs
    BY <1>2, ProjectionAssumption DEF FreshExecutions
  <2> QED BY <2>1 DEF ExecutionIDs, NoExecution, Manual
<1> QED BY <1>1, <1>2 DEF ClaimTargets

LEMMA ClaimHolds ==
    ASSUME TypeOK, TypeOK', DriveInv, NEW s \in Schedulers, NEW t \in Tasks, Claims(s, t)
    PROVE  /\ WellFormed(task'[t]) /\ Holds(s, t)' /\ Drives(s, t)'
           /\ run'[s][t].pc = "open"
<1>1. PICK e \in ClaimTargets(task[t]) :
          /\ task'[t] = ExecutionStarted(task[t], e, s)
          /\ run'[s][t] = Run("open", NoExecution, {}, {}, e, task[t].executions[e].attempt + 1)
  BY DEF Claims
<1>2. task[t] \in States /\ WellFormed(task[t]) /\ s \in Workers
  BY DEF TypeOK, DriveInv, Schedulers
<1>3. e \in ExecutionIDs /\ e # NoExecution
  BY <1>2, ClaimTargetReal
<1> DEFINE old == task[t]
           new == task'[t]
           n == old.executions[e].attempt
           q == ensureExecutionSteps(old.steps, old.executions[e].steps)
<1>4. n \in Nat
  BY <1>2, <1>3, ExecutionFields
<1>5. /\ new.status = "running" /\ new.current = e /\ new.steps = old.steps
      /\ new.executions[e] = Execution("running", n + 1, s, "held", q)
      /\ \A f \in ExecutionIDs \ {e} : new.executions[f] = old.executions[f]
  BY <1>1, <1>2, <1>3, ClaimedState
<1>6. /\ new.executions[e].status = "running" /\ new.executions[e].attempt = n + 1
      /\ new.executions[e].worker = s /\ new.executions[e].lease = "held"
      /\ new.executions[e].steps = q
  BY <1>5, ExecutionParts
<1>7. LET r == run'[s][t]
      IN  r.pc = "open" /\ r.claimed = e /\ r.attempt = n + 1
  BY <1>1 DEF Run
<1>8. \A i \in old.steps : q[i] # ""
  BY <1>2, StateFields DEF ensureExecutionSteps
<1> HIDE DEF q, n, old, new
<1>9. WellFormed(new)
  <2>1. Ensured(new)
    <3> SUFFICES ASSUME NEW f \in ExecutionIDs, NEW i \in new.steps, new.executions[f].attempt > 0
                 PROVE  new.executions[f].steps[i] # ""
      BY DEF Ensured
    <3>1. CASE f = e
      BY <1>5, <1>6, <1>8, <3>1
    <3>2. CASE f # e
      BY <1>2, <1>5, <3>2 DEF WellFormed, Ensured, old
    <3> QED BY <3>1, <3>2
  <2>2. new.executions[NoExecution].status = ""
    BY <1>2, <1>3, <1>5, NoExecutionType DEF WellFormed, old
  <2>3. new.executions[new.current].attempt > 0
    BY <1>4, <1>5, <1>6
  <2> QED BY <2>1, <2>2, <2>3 DEF WellFormed
<1>10. Holds(s, t)'
  BY <1>5, <1>6, <1>7 DEF Holds, new
<1>11. Drives(s, t)'
  BY <1>3, <1>5, <1>6, <1>7 DEF Drives, Begun, Labels, new
<1> QED BY <1>7, <1>9, <1>10, <1>11 DEF new

LEMMA WellFormedKept ==
    ASSUME TypeOK, TypeOK', WorkStep, DriveInv, NEW t \in Tasks, HoldMove(t, task'[t])
    PROVE  WellFormed(task'[t])
<1> DEFINE old == task[t]
           new == task'[t]
<1>1. /\ old \in States /\ new \in States /\ WellFormed(old) /\ TaskMove(old, new)
      /\ HoldMove(t, new)
  BY DEF TypeOK, WorkStep, TasksMove, DriveInv
<1>2. new.current \in ExecutionIDs /\ NoExecution \in ExecutionIDs
  BY <1>1, StateFields, NoExecutionType
<1>3. old.steps \subseteq Steps /\ new.steps \subseteq Steps
  BY <1>1, StateFields
<1> SUFFICES WellFormed(new)
  OBVIOUS
<1> HIDE DEF old, new
<1>4. ASSUME new.steps = old.steps,
             \A e \in ExecutionIDs : new.executions[e].attempt = old.executions[e].attempt
      PROVE  Ensured(new)
  <2> SUFFICES ASSUME NEW e \in ExecutionIDs, NEW i \in new.steps, new.executions[e].attempt > 0
               PROVE  new.executions[e].steps[i] # ""
    BY DEF Ensured
  <2>1. old.executions[e].steps[i] # ""
    BY <1>1, <1>4 DEF WellFormed, Ensured
  <2>2. \/ StepChange(old.executions[e].steps, i, new.executions[e].steps[i])
        \/ StepBlock(old.executions[e].steps, i, new.executions[e].steps[i],
                     new.executions[e].status)
    BY <1>1, <1>3 DEF TaskMove
  <2> QED BY <2>1, <2>2 DEF StepChange, StepBlock
<1>5. CASE SameHold(old, new)
  BY <1>1, <1>2, <1>4, <1>5 DEF SameHold, WellFormed
<1>6. CASE SameAround(old, new)
  BY <1>1, <1>2, <1>4, <1>6 DEF SameAround, WellFormed
<1>7. CASE Expires(t, new)
  BY <1>1, <1>2, <1>4, <1>7 DEF Expires, WellFormed, old
<1>8. CASE Creates(old, new)
  <2>1. ~(0 > 0)
    OBVIOUS
  <2>2. Ensured(new)
    BY <1>8, <2>1 DEF Creates, Ensured
  <2> QED BY <1>2, <1>8, <2>2 DEF Creates, WellFormed
<1> QED BY <1>1, <1>5, <1>6, <1>7, <1>8 DEF HoldMove, Stops, Recovers, old

(* A claim takes an execution that is interrupted or was never started.    *)
LEMMA ClaimElsewhere ==
    ASSUME TypeOK, DriveInv, NEW s \in Schedulers, NEW t \in Tasks, Claims(s, t),
           NEW f \in ExecutionIDs
    PROVE  \/ task'[t].executions[f] = task[t].executions[f]
           \/ /\ task[t].executions[f].status = "interrupted" \/ task[t].executions[f].attempt = 0
              /\ task'[t].executions[f].attempt = task[t].executions[f].attempt + 1
<1>1. PICK e \in ClaimTargets(task[t]) : task'[t] = ExecutionStarted(task[t], e, s)
  BY DEF Claims
<1>2. task[t] \in States /\ WellFormed(task[t]) /\ s \in Workers
  BY DEF TypeOK, DriveInv, Schedulers
<1>3. e \in ExecutionIDs
  BY <1>2, ClaimTargetReal
<1>4. /\ \A g \in ExecutionIDs \ {e} : task'[t].executions[g] = task[t].executions[g]
      /\ task'[t].executions[e] =
            Execution("running", task[t].executions[e].attempt + 1, s, "held",
                      ensureExecutionSteps(task[t].steps, task[t].executions[e].steps))
  BY <1>1, <1>2, <1>3, ClaimedState
<1>5. task'[t].executions[e].attempt = task[t].executions[e].attempt + 1
  BY <1>4, ExecutionParts
<1>6. task[t].executions[e].status = "interrupted" \/ task[t].executions[e].attempt = 0
  BY DEF ClaimTargets, FreshExecutions
<1> QED BY <1>4, <1>5, <1>6

LEMMA HumansKept ==
    ASSUME IInv, TypeOK', WorkInv, WorkStep, DriveInv, DriveStep,
           NEW s \in Schedulers, NEW t \in Tasks
    PROVE  HumanTodo(run'[s][t], task'[t])
<1> DEFINE r == run'[s][t]
           old == task[t].executions[r.exec]
           new == task'[t].executions[r.exec]
<1> SUFFICES ASSUME r.pc \in {"steps", "work"}, r.exec = r.claimed,
                    new.status = "running", new.attempt = r.attempt,
                    NEW i \in r.todo \intersect HumanSteps
             PROVE  new.steps[i] = "waiting"
  BY DEF HumanTodo
<1>1. r \in Runs /\ r.exec \in ExecutionIDs /\ r.attempt \in Nat /\ i \in Steps /\ TypeOK
  <2>1. r \in Runs
    BY DEF TypeOK
  <2> QED BY <2>1 DEF Runs, IInv
<1>2. r.pc \in Begun /\ r.pc # "open"
  BY DEF Begun, Labels
<1>3. /\ run[s][t].pc \in Begun /\ r.claimed = run[s][t].claimed
      /\ r.attempt = run[s][t].attempt
  <2>1. RunMove(s, t, r)
    BY <1>1, <1>2, ClaimHolds DEF DriveStep, RunsMove
  <2> QED BY <1>2, <2>1 DEF RunMove, Continues
<1>4. task[t].status # "" /\ task[t] \in States
  BY <1>1, <1>3 DEF WorkInv, TypeOK
<1>5. old.status = "running" /\ old.attempt = r.attempt
  <2>1. CASE HoldMove(t, task'[t])
    BY <1>1, <1>4, <2>1 DEF HoldMove, SameHold, Stops, Recovers, SameAround, Expires, Creates
  <2>2. CASE \E q \in Schedulers : Claims(q, t)
    <3>1. CASE new = old
      <4>1. old.attempt = r.attempt /\ old.status = "running"
        BY <3>1
      <4> QED BY <4>1
    <3>2. CASE /\ old.status = "interrupted" \/ old.attempt = 0
               /\ new.attempt = old.attempt + 1
      <4>1. old.attempt \in Nat
        BY <1>1, <1>4, ExecutionFields
      <4>2. r.claimed # NoExecution
        <5>1. task'[t].executions[NoExecution].status = ""
          BY <1>1, <2>2, ClaimHolds DEF WellFormed
        <5> QED BY <5>1
      <4>3. r.attempt <= old.attempt
        BY <1>3, <4>2 DEF IInv, ClaimedOnce, Driving
      <4> QED BY <3>2, <4>1, <4>3
    <3> QED BY <1>1, <2>2, <3>1, <3>2, ClaimElsewhere
  <2> QED BY <2>1, <2>2 DEF DriveStep, HoldsMove
<1>6. old.steps[i] = "waiting"
  BY <1>5 DEF DriveStep, RunsMove, HumanTodo
<1>7. dependenciesCompleted(i, old.steps)
  BY DEF WorkStep, RunsFit, Fits, ReadyTodo
<1>8. \/ StepChange(old.steps, i, new.steps[i])
      \/ StepBlock(old.steps, i, new.steps[i], new.status)
  BY <1>1 DEF WorkStep, TasksMove, TaskMove
<1> QED BY <1>6, <1>7, <1>8 DEF StepChange, StepBlock

LEMMA Positive == \A n \in Nat : n > 0 => n # 0
OBVIOUS

(* What the executions that ended look like is not changed any more.       *)
LEMMA SpentKept ==
    ASSUME TypeOK, DriveInv, NEW s \in Schedulers, NEW t \in Tasks, task[t].status # "",
           HoldMove(t, task'[t]) \/ \E q \in Schedulers : Claims(q, t),
           Spent(s, t), run'[s][t] = run[s][t]
    PROVE  Spent(s, t)'
<1> DEFINE e == run[s][t].exec
<1>1. e \in ExecutionIDs /\ task[t] \in States
  BY RunFields DEF TypeOK
<1>2. /\ task'[t].executions[e].status = task[t].executions[e].status
      /\ task'[t].executions[e].attempt = task[t].executions[e].attempt
  <2>1. CASE HoldMove(t, task'[t])
    BY <1>1, <2>1 DEF HoldMove, SameHold, Stops, Recovers, SameAround, Expires, Creates, Spent
  <2>2. CASE \E q \in Schedulers : Claims(q, t)
    <3>1. task[t].executions[e].attempt \in Nat
      BY <1>1, ExecutionFields
    <3>2. task[t].executions[e].attempt > 0
      BY DEF Spent
    <3>3. task[t].executions[e].attempt # 0
      BY <3>1, <3>2, Positive, Zenon
    <3>4. task[t].executions[e].status # "interrupted"
      BY DEF Spent
    <3> QED BY <1>1, <2>2, <3>3, <3>4, ClaimElsewhere
  <2> QED BY <2>1, <2>2
<1> QED BY <1>2 DEF Spent

LEMMA HeldKept ==
    ASSUME TypeOK, TypeOK', WorkInv, DriveInv, DriveStep
    PROVE  HeldInv'
<1> SUFFICES ASSUME stalls' = 0, NEW s \in Schedulers, NEW t \in Tasks, run'[s][t].pc \in Begun
             PROVE  Holds(s, t)' \/ Spent(s, t)'
  BY DEF HeldInv
<1>1. stalls = 0
  <2>1. stalls \in Nat /\ stalls' \in {stalls, stalls + 1}
    BY DEF TypeOK, DriveStep, Counters
  <2> QED BY <2>1
<1>2. CASE Claims(s, t)
  BY <1>2, ClaimHolds
<1>3. CASE ~Claims(s, t)
  <2>1. /\ run[s][t].pc \in Begun /\ run'[s][t].claimed = run[s][t].claimed
        /\ run'[s][t].attempt = run[s][t].attempt
        /\ run[s][t].pc = "block" => run'[s][t] = run[s][t]
    BY <1>3 DEF DriveStep, RunsMove, RunMove, Continues
  <2>2. Holds(s, t) \/ Spent(s, t)
    BY <1>1, <2>1 DEF DriveInv, HeldInv
  <2>3. run[s][t].claimed \in ExecutionIDs /\ task[t].status # ""
    BY <2>1, RunFields DEF WorkInv
  <2>4. CASE Spent(s, t)
    <3>1. run'[s][t] = run[s][t]
      BY <2>1, <2>4 DEF Spent
    <3> QED BY <2>3, <2>4, <3>1, SpentKept DEF DriveStep, HoldsMove
  <2>5. CASE Holds(s, t)
    <3>1. HoldMove(t, task'[t])
      BY <2>5 DEF DriveStep, HoldsMove, Claims, claimable, Holds
    <3>2. CASE SameHold(task[t], task'[t])
      BY <2>1, <2>3, <2>5, <3>2 DEF SameHold, Holds
    <3>3. CASE Recovers(task[t], task'[t])
      BY <2>5, <3>3 DEF Recovers, recoverable, Holds
    <3>4. CASE Expires(t, task'[t])
      <4>1. HolderDrives(t)
        BY <2>5 DEF Holds, HolderDrives
      <4> QED BY <3>4, <4>1 DEF Expires
    <3>5. CASE Creates(task[t], task'[t])
      BY <2>3, <3>5 DEF Creates
    <3>6. CASE \E q \in Schedulers : Stops(q, t, task'[t])
      <4>1. PICK q \in Schedulers : Stops(q, t, task'[t])
        BY <3>6
      <4>2. /\ run[q][t].pc \in Begun /\ run[q][t].exec = task[t].current
            /\ task[t].executions[run[q][t].exec].status = "running"
        BY <4>1 DEF Stops, StillRunning
      <4>3. Holds(q, t)
        BY <1>1, <4>2 DEF DriveInv, HeldInv, Spent
      <4>4. q = s
        BY <2>5, <4>3 DEF Holds
      <4>5. /\ run'[s][t].pc = "block" /\ run'[s][t].exec = task[t].current
            /\ task'[t].executions[task[t].current].status = "failed"
        BY <4>1, <4>2, <4>4 DEF Stops
      <4>6. task[t] \in States /\ task[t].current \in ExecutionIDs /\ WellFormed(task[t])
        BY StateFields DEF TypeOK, DriveInv
      <4>7. task[t].executions[task[t].current].attempt > 0
        BY <4>2, <4>6 DEF WellFormed
      <4>8. task'[t].executions[task[t].current].attempt > 0
        BY <4>1, <4>6, <4>7 DEF Stops, SameAround
      <4> QED BY <4>5, <4>8 DEF Spent
    <3> QED BY <3>1, <3>2, <3>3, <3>4, <3>5, <3>6 DEF HoldMove
  <2> QED BY <2>2, <2>4, <2>5
<1> QED BY <1>2, <1>3

LEMMA DrivenKept ==
    ASSUME TypeOK, TypeOK', DriveInv, DriveStep
    PROVE  DrivenInv'
<1> SUFFICES ASSUME faults' = 0, NEW t \in Tasks, StillRunning(task'[t], task'[t].current)
             PROVE  \E s \in Schedulers : Drives(s, t)'
  BY DEF DrivenInv
<1>1. faults = 0 /\ faults' = faults
  <2>1. faults \in Nat /\ faults' \in {faults, faults + 1}
    BY DEF TypeOK, DriveStep, Counters
  <2> QED BY <2>1
<1>2. CASE \E s \in Schedulers : Claims(s, t)
  BY <1>2, ClaimHolds
<1>3. CASE HoldMove(t, task'[t]) /\ ~ \E s \in Schedulers : Claims(s, t)
  <2>1. task[t].current \in ExecutionIDs
    BY StateFields DEF TypeOK
  <2>2. /\ StillRunning(task[t], task[t].current) /\ task'[t].current = task[t].current
        /\ \A e \in ExecutionIDs : task'[t].executions[e].attempt = task[t].executions[e].attempt
    BY <1>3, <2>1 DEF HoldMove, SameHold, Stops, Recovers, SameAround, Expires, Creates,
                      StillRunning
  <2>3. PICK s \in Schedulers : Drives(s, t)
    BY <1>1, <2>2 DEF DriveInv, DrivenInv
  <2>4. RunMove(s, t, run'[s][t])
    BY <1>3 DEF DriveStep, RunsMove
  <2>5. CASE run'[s][t] = run[s][t]
    BY <2>1, <2>2, <2>3, <2>5 DEF Drives
  <2>6. CASE Continues(run[s][t], run'[s][t], task[t])
    BY <2>1, <2>2, <2>3, <2>6 DEF Drives, Continues
  <2>7. CASE run'[s][t].pc \notin Begun /\ Leaves(s, t)
    BY <1>1, <2>2, <2>3, <2>7 DEF Drives, Leaves
  <2> QED BY <2>4, <2>5, <2>6, <2>7 DEF RunMove
<1> QED BY <1>2, <1>3 DEF DriveStep, HoldsMove

LEMMA DriveKept ==
    ASSUME IInv, TypeOK', WorkInv, WorkStep, DriveInv, DriveStep
    PROVE  DriveInv'
<1>0. TypeOK
  BY DEF IInv
<1>1. \A t \in Tasks : WellFormed(task'[t])
  BY <1>0, WellFormedKept, ClaimHolds DEF DriveStep, HoldsMove
<1> QED BY <1>0, <1>1, HumansKept, HeldKept, DrivenKept DEF DriveInv

-----------------------------------------------------------------------------
(* What the operators of the projector do to the claim.                    *)

LEMMA HoldReflexive == ASSUME NEW st PROVE SameHold(st, st)
BY DEF SameHold

LEMMA ArtifactsAddedHold ==
    ASSUME NEW st \in States, NEW e \in {NoExecution, st.current}, NEW A
    PROVE  SameHold(st, ArtifactsAdded(st, e, A))
BY DEF SameHold, ArtifactsAdded, State

(* An execution gets new steps.                                            *)
LEMMA setExecutionHold ==
    ASSUME NEW st \in States, NEW exec,
           LET a == st.executions[st.current]
           IN  /\ exec.status = a.status /\ exec.attempt = a.attempt /\ exec.worker = a.worker
               /\ exec.lease = a.lease
    PROVE  LET new == setExecution(st, st.current, exec)
           IN  SameHold(st, new) /\ new.steps = st.steps
<1> DEFINE new == setExecution(st, st.current, exec)
<1>1. st.executions \in [ExecutionIDs -> Executions] /\ st.current \in ExecutionIDs
  BY StateFields
<1>2. /\ new.executions = [st.executions EXCEPT ![st.current] = exec] /\ new.status = st.status
      /\ new.steps = st.steps /\ new.current = st.current
  BY DEF setExecution, State
<1> HIDE DEF new
<1>3. SameHold(st, new)
  BY <1>1, <1>2 DEF SameHold
<1> QED BY <1>2, <1>3 DEF new

LEMMA StepStatusChangedHold ==
    ASSUME NEW st \in States, NEW I, NEW x
    PROVE  LET new == StepStatusChanged(st, st.current, I, x)
           IN  SameHold(st, new) /\ new.steps = st.steps
<1> DEFINE a == st.executions[st.current]
           q == [i \in Steps |-> IF i \in I THEN x ELSE a.steps[i]]
           exec == setSteps(a, q)
<1>1. StepStatusChanged(st, st.current, I, x) = setExecution(st, st.current, exec)
  BY DEF StepStatusChanged
<1>2. /\ exec.status = a.status /\ exec.attempt = a.attempt /\ exec.worker = a.worker
      /\ exec.lease = a.lease
  BY DEF setSteps, Execution
<1> HIDE DEF exec
<1> QED BY <1>1, <1>2, setExecutionHold

LEMMA StepDispatchedHold ==
    ASSUME NEW st \in States, NEW i, st.executions[st.current].status = "running"
    PROVE  SameHold(st, StepDispatched(st, st.current, i))
<1> DEFINE a == st.executions[st.current]
           exec == Execution("running", a.attempt, a.worker, a.lease,
                             [a.steps EXCEPT ![i] = "running"])
<1>1. StepDispatched(st, st.current, i) = setExecution(st, st.current, exec)
  BY DEF StepDispatched
<1>2. /\ exec.status = a.status /\ exec.attempt = a.attempt /\ exec.worker = a.worker
      /\ exec.lease = a.lease
  BY DEF Execution
<1> HIDE DEF exec
<1> QED BY <1>1, <1>2, setExecutionHold

LEMMA RevisedHold ==
    ASSUME NEW st \in States, NEW D \in SUBSET Steps, NEW o
    PROVE  SameHold(st, Revised(st, D, o))
<1> DEFINE new == Revised(st, D, o)
<1>1. new.status = st.status /\ new.current = st.current /\ new.steps = D
  BY DEF Revised, State
<1>2. ASSUME NEW e \in ExecutionIDs
      PROVE  new.executions[e] =
                IF known(st.executions[e])
                THEN setSteps(st.executions[e], ensureExecutionSteps(D, st.executions[e].steps))
                ELSE st.executions[e]
  BY DEF Revised, State
<1> HIDE DEF new
<1>3. ASSUME NEW a, NEW p
      PROVE  LET b == setSteps(a, p)
             IN  /\ b.status = a.status /\ b.attempt = a.attempt /\ b.worker = a.worker
                 /\ b.lease = a.lease /\ b.steps = p
  BY DEF setSteps, Execution
<1>4. ASSUME NEW e \in ExecutionIDs
      PROVE  LET a == st.executions[e]
                 b == new.executions[e]
             IN  /\ b.status = a.status /\ b.attempt = a.attempt /\ b.worker = a.worker
                 /\ b.lease = a.lease
  BY <1>2, <1>3
<1>5. Ensured(new)
  <2> SUFFICES ASSUME NEW e \in ExecutionIDs, NEW i \in D, new.executions[e].attempt > 0
               PROVE  new.executions[e].steps[i] # ""
    BY <1>1 DEF Ensured
  <2>1. known(st.executions[e])
    BY <1>4 DEF known
  <2>2. new.executions[e].steps = ensureExecutionSteps(D, st.executions[e].steps)
    BY <1>2, <1>3, <2>1
  <2> QED BY <2>2 DEF ensureExecutionSteps
<1>6. SameHold(st, new)
  BY <1>1, <1>4, <1>5 DEF SameHold
<1> QED BY <1>6 DEF new

LEMMA setExecutionStatusAround ==
    ASSUME NEW st \in States, st.executions[st.current].status = "running", NEW x
    PROVE  LET new == setExecutionStatus(st, st.current, x)
           IN  SameAround(st, new) /\ new.status = x /\ new.executions[st.current].status = x
<1> DEFINE a == st.executions[st.current]
           exec == Execution(x, a.attempt, a.worker, a.lease, a.steps)
           new == setExecutionStatus(st, st.current, x)
<1>1. st.executions \in [ExecutionIDs -> Executions] /\ st.current \in ExecutionIDs
  BY StateFields
<1>2. new = setStatus(setExecution(st, st.current, exec), x)
  BY DEF setExecutionStatus
<1>3. exec.attempt = a.attempt /\ exec.status = x
  BY DEF Execution
<1> HIDE DEF exec
<1>4. /\ new.executions = [st.executions EXCEPT ![st.current] = exec] /\ new.status = x
      /\ new.steps = st.steps /\ new.current = st.current
  BY <1>2 DEF setExecution, setStatus, State
<1> HIDE DEF new
<1>5. SameAround(st, new) /\ new.executions[st.current].status = x
  BY <1>1, <1>3, <1>4 DEF SameAround
<1> QED BY <1>4, <1>5 DEF new

LEMMA InterruptedAround ==
    ASSUME NEW st \in States, st.executions[st.current].status = "running", NEW x
    PROVE  LET new == StatusChanged(ExecutionInterrupted(st, st.current), x)
           IN  SameAround(st, new) /\ new.status = x
<1> DEFINE mid == ExecutionInterrupted(st, st.current)
           new == StatusChanged(mid, x)
<1>1. SameAround(st, mid)
  BY setExecutionStatusAround DEF ExecutionInterrupted
<1> HIDE DEF mid
<1>2. /\ new.status = x /\ new.current = mid.current /\ new.steps = mid.steps
      /\ new.executions = mid.executions
  BY DEF StatusChanged, setStatus, State
<1> HIDE DEF new
<1>3. SameAround(st, new)
  BY <1>1, <1>2 DEF SameAround
<1> QED BY <1>2, <1>3 DEF new, mid

LEMMA AroundAfterHold ==
    ASSUME NEW a, NEW b, NEW c, SameHold(a, b), b.steps = a.steps, SameAround(b, c)
    PROVE  SameAround(a, c)
BY DEF SameHold, SameAround

-----------------------------------------------------------------------------
(* The parts of an action.                                                 *)

LEMMA NoWriteHolds == ASSUME UNCHANGED task PROVE HoldsMove
BY HoldReflexive DEF HoldsMove, HoldMove

LEMMA WriteHolds ==
    ASSUME TypeOK, NEW t \in Tasks, NEW st, HoldMove(t, st), Write(t, st)
    PROVE  HoldsMove
<1>1. task'[t] = st /\ \A u \in Tasks : u # t => task'[u] = task[u]
  BY DEF TypeOK, Write
<1>2. \A u \in Tasks : u # t => HoldMove(u, task'[u])
  BY <1>1, HoldReflexive DEF HoldMove
<1> QED BY <1>1, <1>2 DEF HoldsMove

LEMMA SameRunsMove == ASSUME DriveInv, UNCHANGED run PROVE RunsMove
BY DEF DriveInv, RunsMove, RunMove

LEMMA GotoMoves ==
    ASSUME TypeOK, DriveInv, NEW s \in Schedulers, NEW t \in Tasks, NEW r, Goto(s, t, r),
           RunMove(s, t, r), HumanTodo(r, task[t])
    PROVE  RunsMove
<1>1. /\ run'[s][t] = r
      /\ \A q \in Schedulers, u \in Tasks : q # s \/ u # t => run'[q][u] = run[q][u]
  BY DEF TypeOK, Goto
<1>2. ASSUME NEW q \in Schedulers, NEW u \in Tasks
      PROVE  RunMove(q, u, run'[q][u]) /\ HumanTodo(run'[q][u], task[u])
  <2>1. CASE q = s /\ u = t
    BY <1>1, <2>1
  <2>2. CASE q # s \/ u # t
    BY <1>1, <2>2 DEF DriveInv, RunMove
  <2> QED BY <2>1, <2>2
<1> QED BY <1>2 DEF RunsMove

LEMMA IdleMoves ==
    ASSUME TypeOK, DriveInv, NEW s \in Schedulers, NEW t \in Tasks,
           Goto(s, t, Idle) \/ Goto(s, t, AtClaim), Leaves(s, t)
    PROVE  RunsMove
<1>1. Idle.pc = "idle" /\ AtClaim.pc = "claim"
  BY DEF Idle, AtClaim, Run
<1>2. /\ Idle.pc \notin Begun /\ AtClaim.pc \notin Begun
      /\ HumanTodo(Idle, task[t]) /\ HumanTodo(AtClaim, task[t])
  BY <1>1 DEF Begun, HumanTodo
<1> QED BY <1>2, GotoMoves DEF RunMove

(* The goroutine goes on with the execution it has read.                   *)
LEMMA JumpMoves ==
    ASSUME TypeOK, DriveInv, NEW s \in Schedulers, NEW t \in Tasks,
           NEW pc \in Begun \ {"open", "steps", "work"},
           run[s][t].pc \in Begun \ {"open", "block"}, Jump(s, t, pc)
    PROVE  RunsMove
<1> DEFINE old == run[s][t]
           r == Run(pc, old.exec, old.todo, old.outs, old.claimed, old.attempt)
<1>1. Goto(s, t, r)
  BY DEF Jump
<1>2. r.pc = pc /\ r.exec = old.exec /\ r.claimed = old.claimed /\ r.attempt = old.attempt
  BY DEF Run
<1> HIDE DEF r
<1>3. RunMove(s, t, r) /\ HumanTodo(r, task[t])
  BY <1>2 DEF RunMove, Continues, HumanTodo
<1> QED BY <1>1, <1>3, GotoMoves

(* The goroutine reads the task.                                           *)
LEMMA SeesMoves ==
    ASSUME TypeOK, DriveInv, NEW s \in Schedulers, NEW t \in Tasks, NEW pc \in Begun \ {"open"},
           NEW todo, NEW outs, run[s][t].pc \in Begun \ {"block"}, Sees(s, t, pc, todo, outs),
           pc \in {"steps", "work"} =>
               \A i \in todo : task[t].executions[task[t].current].steps[i] = "waiting"
    PROVE  RunsMove
<1> DEFINE old == run[s][t]
           r == Run(pc, task[t].current, todo, outs, old.claimed, old.attempt)
<1>1. Goto(s, t, r)
  BY DEF Sees
<1>2. /\ r.pc = pc /\ r.exec = task[t].current /\ r.todo = todo
      /\ r.claimed = old.claimed /\ r.attempt = old.attempt
  BY DEF Run
<1> HIDE DEF r
<1>3. RunMove(s, t, r)
  BY <1>2 DEF RunMove, Continues
<1>4. HumanTodo(r, task[t])
  BY <1>2 DEF HumanTodo
<1> QED BY <1>1, <1>3, <1>4, GotoMoves

LEMMA PassMoves ==
    ASSUME TypeOK, DriveInv, NEW s \in Schedulers, NEW t \in Tasks,
           run[s][t].pc \in {"steps", "work"}, Jump(s, t, "work") \/ Skip(s, t)
    PROVE  RunsMove
<1> DEFINE old == run[s][t]
<1>1. PICK r : /\ Goto(s, t, r) /\ r.pc \in {"steps", "work"} /\ r.exec = old.exec
               /\ r.todo \subseteq old.todo
               /\ r.claimed = old.claimed /\ r.attempt = old.attempt
  <2>1. CASE Jump(s, t, "work")
    <3> DEFINE n == Run("work", old.exec, old.todo, old.outs, old.claimed, old.attempt)
    <3>1. Goto(s, t, n)
      BY <2>1 DEF Jump
    <3>2. /\ n.pc = "work" /\ n.exec = old.exec /\ n.todo = old.todo
          /\ n.claimed = old.claimed /\ n.attempt = old.attempt
      BY DEF Run
    <3> HIDE DEF n
    <3> QED BY <3>1, <3>2
  <2>2. CASE Skip(s, t)
    <3> DEFINE n == Run("steps", old.exec, old.todo \ {Next1(old.todo)}, old.outs,
                        old.claimed, old.attempt)
    <3>1. Goto(s, t, n)
      BY <2>2 DEF Skip
    <3>2. /\ n.pc = "steps" /\ n.exec = old.exec /\ n.todo \subseteq old.todo
          /\ n.claimed = old.claimed /\ n.attempt = old.attempt
      BY DEF Run
    <3> HIDE DEF n
    <3> QED BY <3>1, <3>2
  <2> QED BY <2>1, <2>2
<1>2. old.pc \in Begun \ {"open", "block"} /\ r.pc \in Begun \ {"open"}
  BY <1>1 DEF Begun, Labels
<1>3. RunMove(s, t, r)
  BY <1>1, <1>2 DEF RunMove, Continues
<1>4. HumanTodo(old, task[t])
  BY DEF DriveInv
<1>5. HumanTodo(r, task[t])
  <2> SUFFICES ASSUME r.exec = r.claimed, task[t].executions[r.exec].status = "running",
                      task[t].executions[r.exec].attempt = r.attempt,
                      NEW i \in r.todo \intersect HumanSteps
               PROVE  task[t].executions[r.exec].steps[i] = "waiting"
    BY DEF HumanTodo
  <2>1. i \in old.todo \intersect HumanSteps
    BY <1>1
  <2> QED BY <1>1, <1>4, <2>1 DEF HumanTodo
<1> QED BY <1>1, <1>3, <1>5, GotoMoves

-----------------------------------------------------------------------------
(* The steps of a driving goroutine.                                       *)

LEMMA SameCounters == ASSUME UNCHANGED <<faults, stalls>> PROVE Counters
BY DEF Counters

(* A goroutine may leave a task that it finds stopped.                     *)
LEMMA StoppedLeaves ==
    ASSUME NEW s, NEW t, run[s][t].pc # "open", ~StillRunning(task[t], run[s][t].exec)
    PROVE  Leaves(s, t)
BY DEF Leaves

(* A goroutine may leave a task that it stops.                             *)
LEMMA StopperLeaves ==
    ASSUME TypeOK, NEW s, NEW t \in Tasks, NEW st, run[s][t].pc # "open", Write(t, st),
           st.status # "running"
    PROVE  Leaves(s, t)
<1>1. task'[t] = st
  BY DEF TypeOK, Write
<1> QED BY <1>1 DEF Leaves, StillRunning

(* The goroutine ends the execution and leaves.                            *)
LEMMA StopHolds ==
    ASSUME TypeOK, NEW s \in Schedulers, NEW t \in Tasks, NEW new, run[s][t].pc \in Begun,
           StillRunning(task[t], run[s][t].exec), Write(t, new), new.status # "running",
           SameAround(task[t], new), Goto(s, t, Idle)
    PROVE  HoldsMove
<1>1. run'[s][t] = Idle
  BY DEF TypeOK, Goto
<1>2. Idle.pc = "idle"
  BY DEF Idle, Run
<1>3. run'[s][t].pc \notin Begun
  BY <1>1, <1>2 DEF Begun
<1>4. Stops(s, t, new)
  BY <1>3 DEF Stops
<1> QED BY <1>4, WriteHolds DEF HoldMove

LEMMA ClaimReadDrive ==
    ASSUME TypeOK, DriveInv, NEW s \in Schedulers, NEW t \in Tasks, ClaimRead(s, t)
    PROVE  DriveStep
<1>1. HoldsMove /\ Counters
  BY NoWriteHolds, SameCounters DEF ClaimRead
<1>2. Leaves(s, t)
  BY DEF ClaimRead, At, Leaves, Begun
<1>3. CASE Goto(s, t, Idle)
  BY <1>1, <1>2, <1>3, IdleMoves DEF DriveStep
<1>4. CASE Jump(s, t, "append")
  <2>1. PICK r : Goto(s, t, r) /\ r.pc = "append"
    BY <1>4 DEF Jump, Run
  <2>2. RunMove(s, t, r) /\ HumanTodo(r, task[t])
    BY <1>2, <2>1 DEF RunMove, HumanTodo, Begun
  <2>3. RunsMove
    BY <2>1, <2>2, GotoMoves
  <2> QED BY <1>1, <2>3 DEF DriveStep
<1> QED BY <1>3, <1>4 DEF ClaimRead

LEMMA ClaimAppendDrive ==
    ASSUME IInv, DriveInv, NEW s \in Schedulers, NEW t \in Tasks, ClaimAppend(s, t)
    PROVE  DriveStep
<1>1. TypeOK /\ Counters
  BY SameCounters DEF ClaimAppend, IInv
<1>2. CASE Goto(s, t, Idle) /\ NoWrite
  <2>1. Leaves(s, t)
    BY DEF ClaimAppend, At, Leaves, Begun
  <2> QED BY <1>1, <1>2, <2>1, NoWriteHolds, IdleMoves DEF DriveStep, NoWrite
<1>3. CASE s \in latest[t] /\ \E e \in ClaimTargets(task[t]) :
                /\ Write(t, ExecutionStarted(task[t], e, s))
                /\ Goto(s, t, Run("open", NoExecution, {}, {}, e,
                                  task[t].executions[e].attempt + 1))
  <2>1. PICK e \in ClaimTargets(task[t]) :
                /\ Write(t, ExecutionStarted(task[t], e, s))
                /\ Goto(s, t, Run("open", NoExecution, {}, {}, e,
                                  task[t].executions[e].attempt + 1))
    BY <1>3
  <2> DEFINE new == ExecutionStarted(task[t], e, s)
             r == Run("open", NoExecution, {}, {}, e, task[t].executions[e].attempt + 1)
  <2>2. Write(t, new) /\ Goto(s, t, r)
    BY <2>1
  <2>3. r.pc = "open"
    BY DEF Run
  <2>4. claimable(task[t])
    BY <1>3 DEF IInv, TaskInv
  <2> HIDE DEF new, r
  <2>5. task'[t] = new /\ \A u \in Tasks : u # t => task'[u] = task[u]
    BY <1>1, <2>2 DEF TypeOK, Write
  <2>6. /\ run'[s][t] = r
        /\ \A q \in Schedulers, u \in Tasks : q # s \/ u # t => run'[q][u] = run[q][u]
    BY <1>1, <2>2 DEF TypeOK, Goto
  <2>7. Claims(s, t)
    BY <2>4, <2>5, <2>6 DEF Claims, new, r
  <2>8. HoldsMove
    BY <2>5, <2>7, HoldReflexive DEF HoldsMove, HoldMove
  <2>9. ASSUME NEW q \in Schedulers, NEW u \in Tasks
        PROVE  (RunMove(q, u, run'[q][u]) \/ Claims(q, u)) /\ HumanTodo(run'[q][u], task[u])
    <3>1. CASE q = s /\ u = t
      BY <2>3, <2>6, <2>7, <3>1 DEF HumanTodo
    <3>2. CASE q # s \/ u # t
      BY <2>6, <3>2 DEF DriveInv, RunMove
    <3> QED BY <3>1, <3>2
  <2>10. RunsMove
    BY <2>9 DEF RunsMove
  <2> QED BY <1>1, <2>8, <2>10 DEF DriveStep
<1> QED BY <1>2, <1>3 DEF ClaimAppend

LEMMA OpenTaskDrive ==
    ASSUME TypeOK, DriveInv, NEW s \in Schedulers, NEW t \in Tasks, OpenTask(s, t)
    PROVE  DriveStep
<1>1. HoldsMove /\ Counters
  BY NoWriteHolds, SameCounters DEF OpenTask
<1>2. /\ run[s][t].pc \in Begun \ {"block"}
      /\ {"loop", "block", "whole"} \subseteq Begun \ {"open", "steps", "work"}
  BY DEF OpenTask, At, Begun, Labels
<1>3. PICK pc \in {"loop", "block", "whole"} : \E outs : Sees(s, t, pc, {}, outs)
  BY DEF OpenTask
<1>4. RunsMove
  BY <1>2, <1>3, SeesMoves
<1> QED BY <1>1, <1>4 DEF DriveStep

LEMMA WholeTaskReturnsDrive ==
    ASSUME TypeOK, DriveInv, NEW s \in Schedulers, NEW t \in Tasks, NEW A,
           WholeTaskReturns(s, t, A)
    PROVE  DriveStep
<1> DEFINE e == run[s][t].exec
           all == A \union run[s][t].outs
<1>1. task[t] \in States /\ run[s][t].pc = "whole" /\ run[s][t].pc \in Begun \ {"open", "block"}
  BY DEF TypeOK, WholeTaskReturns, At, Begun, Labels
<1>2. RunsMove
  <2>1. CASE Jump(s, t, "fail") \/ Jump(s, t, "validate")
    <3>1. {"fail", "validate"} \subseteq Begun \ {"open", "steps", "work"}
      BY DEF Begun, Labels
    <3> QED BY <1>1, <2>1, <3>1, JumpMoves
  <2>2. CASE ~StillRunning(task[t], e) /\ Goto(s, t, Idle)
    BY <1>1, <2>2, StoppedLeaves, IdleMoves
  <2> QED BY <2>1, <2>2 DEF WholeTaskReturns
<1>3. HoldsMove
  <2>1. CASE NoWrite \/ Diagnostic(t)
    BY <2>1, NoWriteHolds DEF NoWrite, Diagnostic
  <2>2. CASE StillRunning(task[t], e) /\ Write(t, ArtifactsAdded(task[t], e, all))
    <3>1. e = task[t].current
      BY <2>2 DEF StillRunning
    <3>2. SameHold(task[t], ArtifactsAdded(task[t], e, all))
      BY <1>1, <3>1, ArtifactsAddedHold
    <3> QED BY <2>2, <3>2, WriteHolds DEF HoldMove
  <2> QED BY <2>1, <2>2 DEF WholeTaskReturns
<1>4. Counters
  BY SameCounters DEF WholeTaskReturns
<1> QED BY <1>2, <1>3, <1>4 DEF DriveStep

LEMMA ValidateWholeTaskDrive ==
    ASSUME TypeOK, DriveInv, NEW s \in Schedulers, NEW t \in Tasks, ValidateWholeTask(s, t)
    PROVE  DriveStep
<1>1. HoldsMove /\ Counters
  BY NoWriteHolds, SameCounters DEF ValidateWholeTask
<1>2. /\ run[s][t].pc \in Begun \ {"open", "block"}
      /\ {"complete", "block"} \subseteq Begun \ {"open", "steps", "work"}
  BY DEF ValidateWholeTask, At, Begun, Labels
<1>3. Jump(s, t, "complete") \/ Jump(s, t, "block")
  BY DEF ValidateWholeTask
<1>4. RunsMove
  BY <1>2, <1>3, JumpMoves
<1> QED BY <1>1, <1>4 DEF DriveStep

(* The steps of a pass wait: the projector gave the declared steps of the  *)
(* execution that runs a status.                                           *)
LEMMA ReadyWait ==
    ASSUME NEW st \in States, WellFormed(st), NEW i \in ReadySteps(st)
    PROVE  st.executions[st.current].steps[i] = "waiting"
<1>1. st.current # NoExecution /\ i \in st.steps /\ Waiting(CurrentSteps(st)[i])
  BY DEF ReadySteps
<1>2. st.current \in ExecutionIDs
  BY StateFields
<1>3. CurrentSteps(st)[i] # ""
  BY <1>1, <1>2 DEF WellFormed, Ensured, CurrentSteps
<1> QED BY <1>1, <1>3 DEF Waiting, CurrentSteps

LEMMA LoopDrive ==
    ASSUME TypeOK, DriveInv, NEW s \in Schedulers, NEW t \in Tasks, Loop(s, t)
    PROVE  DriveStep
<1>1. HoldsMove /\ Counters
  BY NoWriteHolds, SameCounters DEF Loop
<1>2. /\ run[s][t].pc \in Begun \ {"block"}
      /\ {"cancel", "fail", "complete", "block"} \subseteq Begun \ {"open", "steps", "work"}
      /\ "steps" \in Begun \ {"open"}
  BY DEF Loop, At, Begun, Labels
<1>3. CASE \E pc \in {"cancel", "fail", "complete", "block"} : \E todo : Sees(s, t, pc, todo, {})
  <2>1. PICK pc \in {"cancel", "fail", "complete", "block"} : \E todo : Sees(s, t, pc, todo, {})
    BY <1>3
  <2>2. RunsMove
    BY <1>2, <2>1, SeesMoves
  <2> QED BY <1>1, <2>2 DEF DriveStep
<1>4. CASE Sees(s, t, "steps", ReadySteps(task[t]), {})
  <2>1. task[t] \in States /\ WellFormed(task[t])
    BY DEF TypeOK, DriveInv
  <2>2. \A i \in ReadySteps(task[t]) : task[t].executions[task[t].current].steps[i] = "waiting"
    BY <2>1, ReadyWait
  <2>3. RunsMove
    BY <1>2, <1>4, <2>2, SeesMoves
  <2> QED BY <1>1, <2>3 DEF DriveStep
<1> QED BY <1>3, <1>4 DEF Loop

LEMMA FinalizeDrive ==
    ASSUME TypeOK, DriveInv, NEW s \in Schedulers, NEW t \in Tasks, Finalize(s, t)
    PROVE  DriveStep
<1>1. HoldsMove /\ Counters
  BY NoWriteHolds, SameCounters DEF Finalize, Diagnostic
<1>2. run[s][t].pc \in Begun \ {"block"} /\ "finalize" \in Begun \ {"open", "steps", "work"}
  BY DEF Finalize, At, Begun, Labels
<1>3. Sees(s, t, "finalize", {}, missingRequiredOutputs(task[t]))
  BY DEF Finalize
<1>4. RunsMove
  BY <1>2, <1>3, SeesMoves
<1> QED BY <1>1, <1>4 DEF DriveStep

LEMMA CancelDependentsDrive ==
    ASSUME TypeOK, DriveInv, NEW s \in Schedulers, NEW t \in Tasks, CancelDependents(s, t)
    PROVE  DriveStep
<1> DEFINE e == run[s][t].exec
           new == applyStepTerminal(task[t], e, run[s][t].todo, "cancelled")
<1>1. /\ task[t] \in States /\ run[s][t].pc \in Begun \ {"open", "block"} /\ Jump(s, t, "fail")
      /\ "fail" \in Begun \ {"open", "steps", "work"}
  BY DEF TypeOK, CancelDependents, At, Begun, Labels
<1>2. RunsMove /\ Counters
  BY <1>1, JumpMoves, SameCounters DEF CancelDependents
<1>3. CASE StillRunning(task[t], e) /\ Write(t, new)
  <2>1. e = task[t].current
    BY <1>3 DEF StillRunning
  <2>2. SameHold(task[t], new)
    BY <1>1, <2>1, StepStatusChangedHold DEF applyStepTerminal
  <2> HIDE DEF new
  <2> QED BY <1>2, <1>3, <2>2, WriteHolds DEF HoldMove, DriveStep
<1>4. CASE NoWrite
  BY <1>2, <1>4, NoWriteHolds DEF NoWrite, DriveStep
<1> QED BY <1>3, <1>4 DEF CancelDependents

LEMMA PassEndsDrive ==
    ASSUME TypeOK, DriveInv, NEW s \in Schedulers, NEW t \in Tasks, PassEnds(s, t)
    PROVE  DriveStep
<1>1. HoldsMove /\ Counters
  BY NoWriteHolds, SameCounters DEF PassEnds
<1>2. /\ run[s][t].pc \in Begun \ {"open", "block"} /\ Jump(s, t, "loop")
      /\ "loop" \in Begun \ {"open", "steps", "work"}
  BY DEF PassEnds, At, Begun, Labels
<1>3. RunsMove
  BY <1>2, JumpMoves
<1> QED BY <1>1, <1>3 DEF DriveStep

(* The human step that blockStep comes to waits when the attempt still     *)
(* runs, so the run that ends here has blocked the task.                   *)
LEMMA BlockStepDrive ==
    ASSUME TypeOK, DriveInv, NEW s \in Schedulers, NEW t \in Tasks, BlockStep(s, t)
    PROVE  DriveStep
<1> DEFINE e == run[s][t].exec
           i == Next1(run[s][t].todo)
           mid == StepStatusChanged(task[t], e, {i}, "blocked")
           new == StatusChanged(ExecutionInterrupted(mid, e), "blocked")
<1>1. /\ task[t] \in States /\ run[s][t].pc = "steps" /\ Goto(s, t, Idle) /\ i \in HumanSteps
      /\ run[s][t].todo # {}
  BY DEF TypeOK, BlockStep, At
<1>2. run[s][t].todo \in SUBSET Steps
  BY RunFields
<1>3. i \in run[s][t].todo
  BY <1>1, <1>2, NextOfPass
<1>4. (/\ e = run[s][t].claimed /\ StillRunning(task[t], e)
       /\ task[t].executions[e].attempt = run[s][t].attempt)
      => task[t].executions[e].steps[i] = "waiting"
  BY <1>1, <1>3 DEF DriveInv, HumanTodo, StillRunning
<1>5. Counters
  BY SameCounters DEF BlockStep
<1>6. CASE /\ ~(StillRunning(task[t], e) /\ task[t].executions[e].steps[i] = "waiting")
           /\ NoWrite
  <2>1. Leaves(s, t)
    BY <1>1, <1>4, <1>6 DEF Leaves
  <2>2. RunsMove
    BY <1>1, <2>1, IdleMoves
  <2> QED BY <1>5, <1>6, <2>2, NoWriteHolds DEF NoWrite, DriveStep
<1>7. CASE StillRunning(task[t], e) /\ Write(t, new)
  <2>1. e = task[t].current /\ task[t].executions[e].status = "running"
    BY <1>7 DEF StillRunning
  <2>2. SameHold(task[t], mid) /\ mid.steps = task[t].steps
    BY <1>1, <2>1, StepStatusChangedHold
  <2>3. mid \in States
    BY <1>1, <2>1, StateFields, StepStatusChangedType DEF StepStatuses
  <2> HIDE DEF mid
  <2>4. mid.current = e /\ mid.executions[e].status = "running"
    BY <1>1, <2>1, <2>2, StateFields DEF SameHold
  <2>5. SameAround(mid, new) /\ new.status = "blocked"
    BY <2>3, <2>4, InterruptedAround
  <2> HIDE DEF new
  <2>6. SameAround(task[t], new)
    BY <2>2, <2>5, AroundAfterHold
  <2>7. HoldsMove
    BY <1>1, <1>7, <2>5, <2>6, StopHolds DEF Begun, Labels
  <2>8. RunsMove
    BY <1>1, <1>7, <2>5, StopperLeaves, IdleMoves
  <2> QED BY <1>5, <2>7, <2>8 DEF DriveStep
<1> QED BY <1>6, <1>7 DEF BlockStep

LEMMA DispatchStepDrive ==
    ASSUME TypeOK, DriveInv, NEW s \in Schedulers, NEW t \in Tasks, DispatchStep(s, t)
    PROVE  DriveStep
<1> DEFINE e == run[s][t].exec
           i == Next1(run[s][t].todo)
           new == StepDispatched(task[t], e, i)
<1>1. task[t] \in States /\ run[s][t].pc = "steps"
  BY DEF TypeOK, DispatchStep, At
<1>2. RunsMove /\ Counters
  BY <1>1, PassMoves, SameCounters DEF DispatchStep
<1>3. CASE StillRunning(task[t], e) /\ Write(t, new)
  <2>1. e = task[t].current /\ task[t].executions[e].status = "running"
    BY <1>3 DEF StillRunning
  <2>2. SameHold(task[t], new)
    BY <1>1, <2>1, StepDispatchedHold
  <2> HIDE DEF new
  <2> QED BY <1>2, <1>3, <2>2, WriteHolds DEF HoldMove, DriveStep
<1>4. CASE NoWrite
  BY <1>2, <1>4, NoWriteHolds DEF NoWrite, DriveStep
<1> QED BY <1>3, <1>4 DEF DispatchStep

LEMMA HoldTransitive ==
    ASSUME NEW a, NEW b, NEW c, SameHold(a, b), b.steps = a.steps, SameHold(b, c)
    PROVE  SameHold(a, c)
BY DEF SameHold

LEMMA StepReturnsDrive ==
    ASSUME TypeOK, DriveInv, NEW s \in Schedulers, NEW t \in Tasks, NEW A,
           NEW x \in {"completed", "failed"}, StepReturns(s, t, x, A)
    PROVE  DriveStep
<1> DEFINE e == run[s][t].exec
           i == Next1(run[s][t].todo)
           mid == applyStepTerminal(task[t], e, {i}, x)
           new == ArtifactsAdded(mid, e, A)
<1>1. task[t] \in States /\ run[s][t].pc = "work"
  BY DEF TypeOK, StepReturns, At
<1>2. RunsMove /\ Counters
  BY <1>1, PassMoves, SameCounters DEF StepReturns
<1>3. CASE StillRunning(task[t], e) /\ Write(t, new)
  <2>1. e = task[t].current
    BY <1>3 DEF StillRunning
  <2>2. SameHold(task[t], mid) /\ mid.steps = task[t].steps
    BY <1>1, <2>1, StepStatusChangedHold DEF applyStepTerminal
  <2>3. mid \in States
    BY <1>1, <2>1, StateFields, StepStatusChangedType DEF StepStatuses, applyStepTerminal
  <2> HIDE DEF mid
  <2>4. mid.current = e
    BY <2>1, <2>2 DEF SameHold
  <2>5. SameHold(mid, new)
    BY <2>3, <2>4, ArtifactsAddedHold
  <2> HIDE DEF new
  <2>6. SameHold(task[t], new)
    BY <2>2, <2>5, HoldTransitive
  <2> QED BY <1>2, <1>3, <2>6, WriteHolds DEF HoldMove, DriveStep
<1>4. CASE Diagnostic(t)
  BY <1>2, <1>4, NoWriteHolds DEF Diagnostic, DriveStep
<1> QED BY <1>3, <1>4 DEF StepReturns

LEMMA FinalizerReturnsDrive ==
    ASSUME TypeOK, DriveInv, NEW s \in Schedulers, NEW t \in Tasks, FinalizerReturns(s, t)
    PROVE  DriveStep
<1> DEFINE e == run[s][t].exec
           new == ArtifactsAdded(task[t], e, run[s][t].outs)
<1>1. /\ task[t] \in States /\ run[s][t].pc \in Begun \ {"open", "block"}
      /\ {"finalizeFail", "loop", "block"} \subseteq Begun \ {"open", "steps", "work"}
  BY DEF TypeOK, FinalizerReturns, At, Begun, Labels
<1>2. Jump(s, t, "finalizeFail") \/ Jump(s, t, "loop") \/ Jump(s, t, "block")
  BY DEF FinalizerReturns
<1>3. RunsMove /\ Counters
  BY <1>1, <1>2, JumpMoves, SameCounters DEF FinalizerReturns
<1>4. CASE StillRunning(task[t], e) /\ Write(t, new)
  <2>1. e = task[t].current
    BY <1>4 DEF StillRunning
  <2>2. SameHold(task[t], new)
    BY <1>1, <2>1, ArtifactsAddedHold
  <2> HIDE DEF new
  <2> QED BY <1>3, <1>4, <2>2, WriteHolds DEF HoldMove, DriveStep
<1>5. CASE NoWrite \/ Diagnostic(t)
  BY <1>3, <1>5, NoWriteHolds DEF NoWrite, Diagnostic, DriveStep
<1> QED BY <1>4, <1>5 DEF FinalizerReturns

LEMMA EndExecutionDrive ==
    ASSUME TypeOK, DriveInv, NEW s \in Schedulers, NEW t \in Tasks,
           NEW from \in {"fail", "finalizeFail", "complete"}, NEW x \in {"failed", "completed"},
           from = "finalizeFail" => x = "failed", EndExecution(s, t, from, x)
    PROVE  DriveStep
<1> DEFINE e == run[s][t].exec
           new == applyExecutionTerminal(task[t], e, x)
<1>1. /\ task[t] \in States /\ run[s][t].pc = from /\ run[s][t].pc \in Begun \ {"open", "block"}
      /\ "block" \in Begun \ {"open", "steps", "work"}
      /\ (x = "failed" /\ Jump(s, t, "block")) \/ Goto(s, t, Idle)
  BY DEF TypeOK, EndExecution, At, Begun, Labels
<1>2. Counters
  BY SameCounters DEF EndExecution
<1>3. CASE StillRunning(task[t], e) /\ Write(t, new)
  <2>1. e = task[t].current /\ task[t].executions[e].status = "running"
    BY <1>3 DEF StillRunning
  <2>2. SameAround(task[t], new) /\ new.status = x /\ new.executions[e].status = x
    BY <1>1, <2>1, setExecutionStatusAround DEF applyExecutionTerminal
  <2> HIDE DEF new
  <2>3. CASE Goto(s, t, Idle)
    <3>1. HoldsMove
      BY <1>1, <1>3, <2>2, <2>3, StopHolds
    <3>2. RunsMove
      BY <1>1, <1>3, <2>2, <2>3, StopperLeaves, IdleMoves
    <3> QED BY <1>2, <3>1, <3>2 DEF DriveStep
  <2>4. CASE x = "failed" /\ Jump(s, t, "block")
    <3>1. run'[s][t].pc = "block" /\ run'[s][t].exec = e
      BY <2>4 DEF TypeOK, Jump, Goto, Run
    <3>2. Stops(s, t, new)
      BY <1>1, <1>3, <2>2, <2>4, <3>1 DEF Stops
    <3>3. HoldsMove
      BY <1>3, <3>2, WriteHolds DEF HoldMove
    <3>4. RunsMove
      BY <1>1, <2>4, JumpMoves
    <3> QED BY <1>2, <3>3, <3>4 DEF DriveStep
  <2> QED BY <1>1, <2>3, <2>4
<1>4. CASE ~StillRunning(task[t], e) /\ Diagnostic(t)
  <2>1. RunsMove
    BY <1>1, <1>4, StoppedLeaves, IdleMoves, JumpMoves
  <2> QED BY <1>2, <1>4, <2>1, NoWriteHolds DEF Diagnostic, DriveStep
<1> QED BY <1>3, <1>4 DEF EndExecution

LEMMA BlockTaskDrive ==
    ASSUME TypeOK, DriveInv, NEW s \in Schedulers, NEW t \in Tasks, BlockTask(s, t)
    PROVE  DriveStep
<1> DEFINE e == run[s][t].exec
           new == StatusChanged(ExecutionInterrupted(task[t], e), "blocked")
<1>1. task[t] \in States /\ run[s][t].pc = "block" /\ Goto(s, t, Idle)
  BY DEF TypeOK, BlockTask, At
<1>2. Counters
  BY SameCounters DEF BlockTask
<1>3. CASE StillRunning(task[t], e) /\ Write(t, new)
  <2>1. e = task[t].current /\ task[t].executions[e].status = "running"
    BY <1>3 DEF StillRunning
  <2>2. SameAround(task[t], new) /\ new.status = "blocked"
    BY <1>1, <2>1, InterruptedAround
  <2> HIDE DEF new
  <2>3. HoldsMove
    BY <1>1, <1>3, <2>2, StopHolds DEF Begun, Labels
  <2>4. RunsMove
    BY <1>1, <1>3, <2>2, StopperLeaves, IdleMoves
  <2> QED BY <1>2, <2>3, <2>4 DEF DriveStep
<1>4. CASE ~StillRunning(task[t], e) /\ NoWrite
  <2>1. RunsMove
    BY <1>1, <1>4, StoppedLeaves, IdleMoves
  <2> QED BY <1>2, <1>4, <2>1, NoWriteHolds DEF NoWrite, DriveStep
<1> QED BY <1>3, <1>4 DEF BlockTask

-----------------------------------------------------------------------------
(* The other steps.                                                        *)

LEMMA ReconcileExecutionDrive ==
    ASSUME TypeOK, DriveInv, NEW s \in Schedulers, NEW t \in Tasks, ReconcileExecution(s, t)
    PROVE  DriveStep
<1> DEFINE st == task[t]
           e == st.current
<1>1. st \in States /\ e \in ExecutionIDs /\ recoverable(st)
  BY StateFields DEF TypeOK, ReconcileExecution
<1>2. RunsMove /\ Counters
  BY SameRunsMove, SameCounters DEF ReconcileExecution
<1>3. st.executions[e].status = "running" /\ st.status = "running"
  BY <1>1 DEF recoverable, StillRunning
<1>4. PICK mid \in {st, Retried(st)}, x \in {"ready", "interrupted"} :
         Write(t, StatusChanged(ExecutionInterrupted(mid, e), x))
  BY DEF ReconcileExecution
<1>5. SameHold(st, mid) /\ mid.steps = st.steps /\ mid \in States
  <2>1. SameHold(st, Retried(st)) /\ Retried(st).steps = st.steps
    BY <1>1, StepStatusChangedHold DEF Retried
  <2>2. Retried(st) \in States
    BY <1>1, StepStatusChangedType DEF Retried, StepStatuses
  <2> QED BY <1>1, <2>1, <2>2, HoldReflexive
<1> DEFINE new == StatusChanged(ExecutionInterrupted(mid, e), x)
<1>6. mid.current = e /\ mid.executions[e].status = "running"
  BY <1>1, <1>3, <1>5 DEF SameHold
<1>7. SameAround(mid, new) /\ new.status = x
  BY <1>5, <1>6, InterruptedAround
<1>8. Write(t, new)
  BY <1>4
<1> HIDE DEF new
<1>9. SameAround(st, new)
  BY <1>5, <1>7, AroundAfterHold
<1>10. Recovers(st, new)
  BY <1>1, <1>7, <1>9 DEF Recovers
<1>11. HoldsMove
  BY <1>8, <1>10, WriteHolds DEF HoldMove
<1> QED BY <1>2, <1>11 DEF DriveStep

LEMMA setLeaseParts ==
    ASSUME NEW st \in States, NEW e \in ExecutionIDs, NEW l
    PROVE  LET new == setLease(st, e, st.executions[e].worker, l)
           IN  /\ new.status = st.status /\ new.current = st.current /\ new.steps = st.steps
               /\ \A f \in ExecutionIDs :
                     LET a == st.executions[f]
                         b == new.executions[f]
                     IN  /\ b.status = a.status /\ b.attempt = a.attempt /\ b.worker = a.worker
                         /\ b.lease \in {a.lease, l}
<1> DEFINE exec == st.executions[e]
           x == Execution(exec.status, exec.attempt, exec.worker, l, exec.steps)
           new == setLease(st, e, exec.worker, l)
<1>1. st.executions \in [ExecutionIDs -> Executions]
  BY StateFields
<1>2. /\ x.status = exec.status /\ x.attempt = exec.attempt /\ x.worker = exec.worker
      /\ x.lease = l
  BY DEF Execution
<1>3. /\ new.executions = [st.executions EXCEPT ![e] = x] /\ new.status = st.status
      /\ new.current = st.current /\ new.steps = st.steps
  BY DEF setLease, State
<1> HIDE DEF x, new
<1>4. ASSUME NEW f \in ExecutionIDs
      PROVE  LET a == st.executions[f]
                 b == new.executions[f]
             IN  /\ b.status = a.status /\ b.attempt = a.attempt /\ b.worker = a.worker
                 /\ b.lease \in {a.lease, l}
  BY <1>1, <1>2, <1>3
<1> QED BY <1>3, <1>4 DEF new

LEMMA RenewLeaseDrive ==
    ASSUME TypeOK, DriveInv, NEW s \in Schedulers, NEW t \in Tasks, RenewLease(s, t)
    PROVE  DriveStep
<1> DEFINE e == run[s][t].exec
           new == setLease(task[t], e, task[t].executions[e].worker, "held")
<1>1. task[t] \in States /\ e \in ExecutionIDs
  BY RunFields DEF TypeOK
<1>2. RunsMove /\ Counters
  BY SameRunsMove, SameCounters DEF RenewLease
<1>3. Write(t, new)
  BY DEF RenewLease, ExecutionLeaseRenewed, StillRunning
<1>4. /\ new.status = task[t].status /\ new.current = task[t].current /\ new.steps = task[t].steps
      /\ \A f \in ExecutionIDs :
            LET a == task[t].executions[f]
                b == new.executions[f]
            IN  /\ b.status = a.status /\ b.attempt = a.attempt /\ b.worker = a.worker
                /\ b.lease \in {a.lease, "held"}
  BY <1>1, setLeaseParts
<1> HIDE DEF new
<1>5. SameHold(task[t], new)
  BY <1>4 DEF SameHold
<1>6. HoldsMove
  BY <1>3, <1>5, WriteHolds DEF HoldMove
<1> QED BY <1>2, <1>6 DEF DriveStep

LEMMA LeaseExpiresDrive ==
    ASSUME TypeOK, DriveInv, NEW t \in Tasks, LeaseExpires(t)
    PROVE  DriveStep
<1> DEFINE e == task[t].current
           new == setLease(task[t], e, task[t].executions[e].worker, "expired")
<1>1. task[t] \in States /\ e \in ExecutionIDs
  BY StateFields DEF TypeOK
<1>2. RunsMove
  BY SameRunsMove DEF LeaseExpires
<1>3. stalls \in Nat /\ stalls' \in {stalls, stalls + 1} /\ faults' = faults
  BY DEF TypeOK, LeaseExpires
<1>4. ~HolderDrives(t) \/ stalls' = stalls + 1
  BY DEF LeaseExpires
<1>5. ~HolderDrives(t) \/ stalls' # 0
  BY <1>3, <1>4
<1>6. /\ new.status = task[t].status /\ new.current = task[t].current /\ new.steps = task[t].steps
      /\ \A f \in ExecutionIDs :
            LET a == task[t].executions[f]
                b == new.executions[f]
            IN  /\ b.status = a.status /\ b.attempt = a.attempt /\ b.worker = a.worker
                /\ b.lease \in {a.lease, "expired"}
  BY <1>1, setLeaseParts
<1>7. task' = [task EXCEPT ![t] = new]
  BY DEF LeaseExpires
<1> HIDE DEF new
<1>8. Expires(t, new)
  BY <1>5, <1>6 DEF Expires
<1>9. task'[t] = new /\ \A u \in Tasks : u # t => task'[u] = task[u]
  BY <1>7 DEF TypeOK
<1>10. HoldsMove
  BY <1>9, <1>8, HoldReflexive DEF HoldsMove, HoldMove
<1> QED BY <1>2, <1>3, <1>10 DEF DriveStep, Counters

(* A run is started when the scheduler has none of the task.               *)
LEMMA StartDrive ==
    ASSUME TypeOK, DriveInv, NEW s \in Schedulers, NEW t \in Tasks,
           UNCHANGED <<task, faults, stalls>>,
           UNCHANGED run \/ (~isRunning(s, t) /\ Goto(s, t, AtClaim))
    PROVE  DriveStep
<1>1. HoldsMove /\ Counters
  BY NoWriteHolds, SameCounters
<1>2. CASE UNCHANGED run
  BY <1>1, <1>2, SameRunsMove DEF DriveStep
<1>3. CASE ~isRunning(s, t) /\ Goto(s, t, AtClaim)
  <2>1. Leaves(s, t)
    BY <1>3 DEF isRunning, Leaves, Begun
  <2> QED BY <1>1, <1>3, <2>1, IdleMoves DEF DriveStep
<1> QED BY <1>2, <1>3

LEMMA FaultDrive ==
    ASSUME TypeOK, DriveInv, UNCHANGED <<task, stalls>>, NEW kind, Fault(kind),
           \A s \in Schedulers, t \in Tasks : run'[s][t] = run[s][t] \/ run'[s][t] = Idle
    PROVE  DriveStep
<1>1. faults \in Nat /\ faults' = faults + 1
  BY DEF TypeOK, Fault
<1>2. faults' # faults
  BY <1>1
<1>3. HoldsMove /\ Counters
  BY <1>1, NoWriteHolds DEF Counters
<1>4. Idle.pc = "idle"
  BY DEF Idle, Run
<1>5. Idle.pc \notin Begun /\ \A t \in Tasks : HumanTodo(Idle, task[t])
  BY <1>4 DEF Begun, HumanTodo
<1>6. RunsMove
  BY <1>2, <1>5 DEF DriveInv, RunsMove, RunMove, Leaves
<1> QED BY <1>3, <1>6 DEF DriveStep

LEMMA FaultsDrive ==
    ASSUME TypeOK, DriveInv,
           \/ \E s \in Schedulers, t \in Tasks, k \in Kinds : IndexFails(s, t, k)
           \/ \E s \in Schedulers, t \in Tasks : RunFails(s, t)
           \/ \E s \in Schedulers : Crash(s)
    PROVE  DriveStep
<1>1. UNCHANGED <<task, stalls>> /\ \E kind : Fault(kind)
  BY DEF IndexFails, RunFails, Crash
<1>2. \A s \in Schedulers, t \in Tasks : run'[s][t] = run[s][t] \/ run'[s][t] = Idle
  <2>1. CASE \E s \in Schedulers, t \in Tasks, k \in Kinds : IndexFails(s, t, k)
    BY <2>1 DEF IndexFails
  <2>2. CASE \E s \in Schedulers, t \in Tasks : RunFails(s, t)
    <3>1. PICK s \in Schedulers, t \in Tasks : Goto(s, t, Idle)
      BY <2>2 DEF RunFails
    <3> QED BY <3>1 DEF Goto, TypeOK
  <2>3. CASE \E s \in Schedulers : Crash(s)
    <3>1. PICK s \in Schedulers : run' = [run EXCEPT ![s] = [t \in Tasks |-> Idle]]
      BY <2>3 DEF Crash
    <3> QED BY <3>1 DEF TypeOK
  <2> QED BY <2>1, <2>2, <2>3
<1> QED BY <1>1, <1>2, FaultDrive

LEMMA CreateTaskDrive ==
    ASSUME TypeOK, DriveInv, NEW s \in Schedulers, NEW t \in Tasks, NEW x \in {"draft", "ready"},
           NEW D, NEW R, CreateTask(s, t, x, D, R)
    PROVE  DriveStep
<1> DEFINE new == Created(x, D, R)
<1>1. RunsMove /\ Counters
  BY SameRunsMove, SameCounters DEF CreateTask
<1>2. /\ new.status = x /\ new.current = NoExecution
      /\ \A e \in ExecutionIDs : new.executions[e].status = "" /\ new.executions[e].attempt = 0
  BY DEF Created, State, ZeroState, ZeroExecution, Execution
<1>3. task[t].status = "" /\ Write(t, new)
  BY DEF CreateTask
<1> HIDE DEF new
<1>4. HoldsMove
  BY <1>2, <1>3, WriteHolds DEF HoldMove, Creates
<1> QED BY <1>1, <1>4 DEF DriveStep

LEMMA ModifyDrive ==
    ASSUME TypeOK, DriveInv, NEW s \in Schedulers, NEW t \in Tasks, NEW op, NEW new,
           HoldMove(t, new), Modify(s, t, op, new)
    PROVE  DriveStep
<1>1. RunsMove /\ Counters
  BY SameRunsMove, SameCounters DEF Modify
<1>2. HoldsMove
  BY WriteHolds DEF Modify
<1> QED BY <1>1, <1>2 DEF DriveStep

LEMMA SteeringDrive ==
    ASSUME Unsteered, NEW s, NEW t, NEW op, NEW new, Modify(s, t, op, new),
           op \in {"set_step_status", "reopen_step", "add_artifact"}
    PROVE  FALSE
BY DEF Modify, Unsteered

(* A session that sets the status leaves the executions alone.             *)
LEMMA StatusOperationDrive ==
    ASSUME Unsteered, TypeOK, DriveInv, NEW s \in Schedulers, NEW t \in Tasks,
           NEW x \in SetStatuses, SetStatus(s, t, x) \/ Reopen(s, t, x)
    PROVE  DriveStep
<1> DEFINE new == StatusChanged(task[t], x)
<1>1. \E op : Modify(s, t, op, new)
  BY DEF SetStatus, Reopen
<1>2. x # "running"
  BY DEF Unsteered
<1>3. /\ new.status = x /\ new.current = task[t].current /\ new.steps = task[t].steps
      /\ new.executions = task[t].executions
  BY DEF StatusChanged, setStatus, State
<1> HIDE DEF new
<1>4. SameHold(task[t], new)
  BY <1>2, <1>3 DEF SameHold
<1> QED BY <1>1, <1>4, ModifyDrive DEF HoldMove

LEMMA RevisionDrive ==
    ASSUME TypeOK, DriveInv, NEW s \in Schedulers, NEW t \in Tasks,
           \/ \E i \in Steps : AddStep(s, t, i) \/ RemoveStep(s, t, i)
           \/ \E o \in Outputs : AddOutput(s, t, o)
    PROVE  DriveStep
<1>1. task[t] \in States /\ task[t].steps \in SUBSET Steps
  BY StateFields DEF TypeOK
<1>2. ASSUME NEW op, NEW D \in SUBSET Steps, NEW R, Modify(s, t, op, Revised(task[t], D, R))
      PROVE  DriveStep
  <2>1. HoldMove(t, Revised(task[t], D, R))
    BY <1>1, RevisedHold DEF HoldMove
  <2> QED BY <1>2, <2>1, ModifyDrive
<1>3. CASE \E i \in Steps : AddStep(s, t, i)
  <2>1. PICK i \in Steps : AddStep(s, t, i)
    BY <1>3
  <2> DEFINE D == task[t].steps \union {i}
  <2>2. D \in SUBSET Steps /\ Modify(s, t, "add_step", Revised(task[t], D, task[t].outputs))
    BY <1>1, <2>1 DEF AddStep
  <2> QED BY <1>2, <2>2
<1>4. CASE \E i \in Steps : RemoveStep(s, t, i)
  <2>1. PICK i \in Steps : RemoveStep(s, t, i)
    BY <1>4
  <2> DEFINE D == task[t].steps \ {i}
  <2>2. D \in SUBSET Steps /\ Modify(s, t, "remove_step", Revised(task[t], D, task[t].outputs))
    BY <1>1, <2>1 DEF RemoveStep
  <2> QED BY <1>2, <2>2
<1>5. CASE \E o \in Outputs : AddOutput(s, t, o)
  BY <1>1, <1>2, <1>5 DEF AddOutput
<1> QED BY <1>3, <1>4, <1>5

LEMMA CompleteTaskDrive ==
    ASSUME TypeOK, DriveInv, NEW s \in Schedulers, NEW t \in Tasks, NEW A, NEW force,
           CompleteTask(s, t, A, force)
    PROVE  DriveStep
<1> DEFINE mid == ArtifactsAdded(task[t], NoExecution, A)
           new == StatusChanged(mid, "completed")
<1>1. Modify(s, t, "complete", new)
  BY DEF CompleteTask
<1>2. /\ new.status = "completed" /\ new.current = task[t].current /\ new.steps = task[t].steps
      /\ new.executions = task[t].executions
  BY DEF ArtifactsAdded, StatusChanged, setStatus, State
<1> HIDE DEF new
<1>3. SameHold(task[t], new)
  BY <1>2 DEF SameHold
<1> QED BY <1>1, <1>3, ModifyDrive DEF HoldMove

LEMMA RunOperationDrive ==
    ASSUME TypeOK, DriveInv, NEW s \in Schedulers, NEW t \in Tasks,
           \/ recordTaskRunWatcher(s, t) \/ SubmitTask(s, t)
           \/ \E k \in {"user", "task_run"} : NotifyTaskReady(s, t, k)
    PROVE  DriveStep
<1>1. CASE recordTaskRunWatcher(s, t)
  <2>1. task[t] \in States /\ task[t].steps \in SUBSET Steps
    BY StateFields DEF TypeOK
  <2>2. HoldMove(t, Revised(task[t], task[t].steps, task[t].outputs))
    BY <2>1, RevisedHold DEF HoldMove
  <2>3. HoldsMove
    BY <1>1, <2>2, WriteHolds DEF recordTaskRunWatcher
  <2>4. RunsMove /\ Counters
    BY <1>1, SameRunsMove, SameCounters DEF recordTaskRunWatcher
  <2> QED BY <2>3, <2>4 DEF DriveStep
<1>2. CASE SubmitTask(s, t) \/ \E k \in {"user", "task_run"} : NotifyTaskReady(s, t, k)
  <2>1. /\ UNCHANGED <<task, faults, stalls>>
        /\ UNCHANGED run \/ (~isRunning(s, t) /\ Goto(s, t, AtClaim))
    BY <1>2 DEF SubmitTask, NotifyTaskReady, NoWrite, Diagnostic, reserve
  <2> QED BY <2>1, StartDrive
<1> QED BY <1>1, <1>2

LEMMA OperateDrive ==
    ASSUME Unsteered, TypeOK, DriveInv, NEW s \in Schedulers, NEW t \in Tasks, Operate(s, t)
    PROVE  DriveStep
<1>1. CASE \E x \in {"draft", "ready"}, D \in Declarations, R \in Requirements :
              CreateTask(s, t, x, D, R)
  BY <1>1, CreateTaskDrive
<1>2. CASE \E x \in SetStatuses : SetStatus(s, t, x) \/ Reopen(s, t, x)
  BY <1>2, StatusOperationDrive
<1>3. CASE \E e \in Scopes(task[t]), i \in Steps, x \in StepStatuses :
              SetStepStatus(s, t, e, i, x) \/ ReopenStep(s, t, e, i, x)
  <2>1. \E op \in {"set_step_status", "reopen_step"} : \E new : Modify(s, t, op, new)
    BY <1>3 DEF SetStepStatus, ReopenStep
  <2> QED BY <2>1, SteeringDrive
<1>4. CASE \/ \E i \in Steps : AddStep(s, t, i) \/ RemoveStep(s, t, i)
           \/ \E o \in Outputs : AddOutput(s, t, o)
  BY <1>4, RevisionDrive
<1>5. CASE \E o \in Outputs, e \in Scopes(task[t]) \union {NoExecution} : AddArtifact(s, t, e, o)
  <2>1. \E op \in {"add_artifact"} : \E new : Modify(s, t, op, new)
    BY <1>5 DEF AddArtifact
  <2> QED BY <2>1, SteeringDrive
<1>6. CASE \E A \in SUBSET Outputs, force \in BOOLEAN : CompleteTask(s, t, A, force)
  BY <1>6, CompleteTaskDrive
<1>7. CASE \/ recordTaskRunWatcher(s, t) \/ SubmitTask(s, t)
           \/ \E k \in {"user", "task_run"} : NotifyTaskReady(s, t, k)
  BY <1>7, RunOperationDrive
<1> QED BY <1>1, <1>2, <1>3, <1>4, <1>5, <1>6, <1>7 DEF Operate

LEMMA NextDrive ==
    ASSUME Unsteered, IInv, DriveInv, [Next]_vars
    PROVE  DriveStep
<1>0. TypeOK
  BY DEF IInv
<1>1. ASSUME NEW s \in Schedulers, NEW t \in Tasks, Drive(s, t) PROVE DriveStep
  BY <1>0, <1>1, ClaimReadDrive, ClaimAppendDrive, OpenTaskDrive, WholeTaskReturnsDrive,
     ValidateWholeTaskDrive, LoopDrive, FinalizeDrive, CancelDependentsDrive, PassEndsDrive,
     BlockStepDrive, DispatchStepDrive, StepReturnsDrive, FinalizerReturnsDrive,
     EndExecutionDrive, BlockTaskDrive
  DEF Drive
<1>2. ASSUME NEW s \in Schedulers, NEW t \in Tasks,
             TickReady(s, t) \/ \E k \in Kinds : IndexProject(s, t, k) \/ IndexAppend(s, t, k)
      PROVE  DriveStep
  <2>1. /\ UNCHANGED <<task, faults, stalls>>
        /\ UNCHANGED run \/ (~isRunning(s, t) /\ Goto(s, t, AtClaim))
    BY <1>2 DEF TickReady, IndexProject, IndexAppend, reserve
  <2> QED BY <1>0, <2>1, StartDrive
<1>3. CASE UNCHANGED vars \/ \E s \in Schedulers : SetEnabled(s)
  <2>1. UNCHANGED <<task, run, faults, stalls>>
    BY <1>3 DEF vars, SetEnabled
  <2> QED BY <1>0, <2>1, NoWriteHolds, SameRunsMove, SameCounters DEF DriveStep
<1>4. CASE Next
  BY <1>0, <1>1, <1>2, <1>3, <1>4, OperateDrive, ReconcileExecutionDrive, RenewLeaseDrive,
     LeaseExpiresDrive, FaultsDrive
  DEF Next
<1> QED BY <1>3, <1>4

LEMMA InitialDrive == Init => DriveInv
<1> SUFFICES ASSUME Init PROVE DriveInv
  OBVIOUS
<1>1. Idle.pc = "idle" /\ Idle.pc \notin Begun
  BY DEF Idle, Run, Begun
<1>2. /\ ZeroState.current = NoExecution /\ ZeroState.status = "" /\ ZeroState.steps = {}
      /\ ZeroState.executions = [e \in ExecutionIDs |-> ZeroExecution]
  BY DEF ZeroState, State
<1>3. ZeroExecution.status = ""
  BY DEF ZeroExecution, Execution
<1>4. WellFormed(ZeroState)
  BY <1>2, <1>3, NoExecutionType DEF WellFormed, Ensured
<1>5. \A t \in Tasks : task[t] = ZeroState /\ \A s \in Schedulers : run[s][t] = Idle
  BY DEF Init
<1> QED BY <1>1, <1>2, <1>4, <1>5
        DEF DriveInv, HumanTodo, HeldInv, DrivenInv, StillRunning

(* A goroutine that claimed a task holds its lease until the execution     *)
(* ends, and a task that runs has the goroutine that claimed it.           *)
THEOREM ClaimsAreHeld ==
    ASSUME Unsteered
    PROVE  Spec => []DriveInv
<1>1. Stepwise
  BY DEF Unsteered, Stepwise
<1>2. Init => DriveInv
  BY InitialDrive
<1>3. IInv /\ WorkInv /\ DriveInv /\ [Next]_vars => DriveInv'
  BY <1>1, NextWork, NextDrive, NextInductive, DriveKept DEF IInv
<1> QED BY <1>1, <1>2, <1>3, Invariance, DecisionsStayTrue, PTL DEF Spec

(* No two workers run on one task unless a lease expired under its holder, *)
(* and no path of a run leaves a running task without a goroutine, as long *)
(* as nothing fails, whatever tasks sessions cancel, block, complete,      *)
(* reopen or revise meanwhile: claim takes a task only when its current    *)
(* execution does not run, and every return of RunTask comes after the     *)
(* execution was ended or the task was found stopped.                      *)
THEOREM OneDrives ==
    ASSUME Unsteered
    PROVE  Spec => []DrivenByOne
<1>1. DriveInv => DrivenByOne
  <2> SUFFICES ASSUME DriveInv PROVE OneWorker /\ RunningIsDriven
    BY DEF DrivenByOne
  <2>1. OneWorker
    <3> SUFFICES ASSUME stalls = 0, NEW t \in Tasks, NEW r \in Schedulers, NEW s \in Schedulers,
                        Working(r, t), Working(s, t)
                 PROVE  r = s
      BY DEF OneWorker
    <3>1. Holds(r, t) /\ Holds(s, t)
      BY DEF DriveInv, HeldInv, Spent, Working, WorkLabels, Begun, Labels
    <3> QED BY <3>1 DEF Holds
  <2>2. RunningIsDriven
    BY DEF DriveInv, DrivenInv, Drives, RunningIsDriven, Driving
  <2> QED BY <2>1, <2>2
<1> QED BY <1>1, ClaimsAreHeld, PTL
=============================================================================
