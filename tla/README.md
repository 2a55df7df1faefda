# Verification of fluxplane-core

TLA+ specifications of the parts of fluxplane-core whose correctness depends on
the order in which things happen: the event stores and the thread store on top
of them, the task scheduler, the delivery of events to run handles in process and
over HTTP, helper sessions, a turn of the session loop, and the datasource index.
TLC checks the specifications on small instances; TLAPS proves central
properties for every size of the system.

## The system

fluxplane-core is a runtime for agents. Everything durable is an *event*: records
are appended to named streams of an `event.Store`, with an optional *expected
sequence* that makes an append conditional. State is a projection of a stream.
Several processes (a daemon, command-line sessions, a deployed service) may share
one store and know of each other only through it. A session is a thread of events;
channels submit inputs to the harness, which runs the session loop and fans events
out to subscribers.

| Part | Source | State it keeps | Operations | Works with |
| --- | --- | --- | --- | --- |
| Event stores | `runtime/eventstore`, `adapters/storage/event/sqlite`, `.../nats` | streams; the NATS store also a cached projection of the log per process | `Append`, `AppendBatch`, `Load` | everything above |
| Thread store | `runtime/thread` | a stream per thread with its branches, a shared index stream, a projected index | `Create`, `Append`, `Fork`, `Archive`, `List` | event store |
| Task domain and projector | `core/task`, `runtime/task` | a task, its steps, executions, leases, artifacts; an index stream | `Apply`, `ReadySteps`, `AppendExpected`, `Index`, `List` | event store |
| Task scheduler | `orchestration/taskexecutor` | the running map, capacity, worker pools, enabled flag | `Start`/`Tick`, `NotifyTaskReady`, `SubmitTask`, `RunTask`, heartbeats, reconciliation | task store; workers (helper sessions) |
| Task operations | `contrib/task` | none of its own | `task_create`, `task_modify`, `task_complete`, `task_run`, scheduler on/off | task store, scheduler |
| Harness | `orchestration/harness` | subscribers with their queues, bindings of conversations to threads | `HandleInbound`, `Subscribe`, `publish`, persistence of runtime events | thread store, session loop |
| Direct channel | `adapters/channels/direct` | run handles: result, `Done`, `Events` | `Submit`, `Wait`, `Events` | harness |
| HTTP/SSE channel | `adapters/channels/httpsse` | remote run handles, event streams | the same, over two connections | direct channel at the server |
| Session runs | `orchestration/sessionrun` | count of running helpers | `Run` | channel client |
| Session loop | `orchestration/session`, `runtime/agent/llmagent` | the turn in progress: pending items, step, continuation | one input: phases, reactions, context, model, operations, flush, compaction | thread store, operations, model |
| Conversation and context | `runtime/conversation`, `runtime/context` | projections of a thread | `Project`, `ValidateContinuity`, `CompactTranscript`, `Materialize` | session loop |
| Datasource index | `orchestration/datasourceindex`, `runtime/datasource` | data records, mirror, documents, chunks, queue, run records | `Build`, `Enqueue`, `Update`, `Delete`, `ProcessQueue` | data store, embedder |
| Triggers, daemon | `orchestration/trigger`, `orchestration/daemon` | tickers, channel goroutines | `Run`, `Fire`, `RunChannels` | harness |
| Workflow, goal, loop | `orchestration/workflow`, `contrib/goal`, `contrib/loop` | step results, continuation budget | `Run`, stop conditions | operations, session loop |
| Operations and policy | `runtime/operation`, `orchestration/security`, `orchestration/identity` | approval gates | validate, authorize, approve, execute | session loop |
| Rest | model adapters, workspace, plugins, configuration, deployment, terminal | connections, files | input and output | outside world |

`PROJECT.json` lists every part with its sources and whether it is modelled.

### What is hard

* Several schedulers on one store: claims race, leases expire under slow holders,
  results arrive for attempts that were superseded.
* Two streams for one fact: a thread or a task and its index. The thread store
  writes both in one batch, the scheduler one after the other.
* Decisions on a read that is stale when they are written; every append repeats
  *some* of its conditions. Answers may be lost after the store kept a record.
* Bounded queues between a publisher and subscribers that stop reading, with
  timeouts that drop events or give up on goroutines; two channels of one handle
  that are closed in different orders.
* Two connections of one remote run, each of which may fail or be overtaken.
* Inputs of one thread that are processed side by side on one transcript that must
  stay acceptable to a model provider at every moment.
* Index builds that stop half-way, skip what is fresh, and delete what they did
  not see.

The hazards, each at its line and with the properties that cover it, are listed
under `hazards` in `PROJECT.json`.

### What makes each part correct

* Event store: an acknowledged batch is stored atomically, where its expected
  sequences say, with record identifiers never used before; a load misses
  nothing stored before it started.
* Thread store: calls tell the truth also after lost answers; thread streams and
  index agree; the history of a branch only grows; lists are complete.
* Task scheduler: a claim is held once; a running task is driven by one; steps run
  in dependency order and completed ones are not run again; what a session stopped
  stays as it is; a completed task has its outputs; retries are bounded; limits are
  respected; every ready task settles.
* Run handles: nothing is sent after a close; a client that keeps up gets the whole
  run in order, with the outcome `Wait` returns; every run ends.
* Session runs: capacity is exact; the outcome is told once and truly; a child is
  held to the policy of its caller; every request returns.
* Session loop: the transcript is continuous at every moment; what is executed and
  reported is on the thread; nothing runs twice; the model sees the context that was
  rendered; every input is answered.
* Datasource index: live documents stay, complete runs are complete, nothing stale
  survives a full build, and what is recorded as indexed has its chunks.

## Modules

```
EventLog <-- implements -- NatsEventStore <-- NatsEventStoreProofs, MCNatsEventStore
         <-- implements -- SqliteEventStore <-- extends -- ThreadStore
                              <-- ThreadStoreProofs, MCThreadStore
TaskProjection <-- extends -- TaskScheduler <-- MCTaskScheduler
                              <-- TaskSchedulerProofs
RunContract <-- implements -- RunHandles (extends Subscriptions)
                              <-- RunHandlesProofs, MCRunHandles
            <-- implements -- RemoteRuns <-- RemoteRunsProofs
SessionRuns <-- SessionRunsProofs, MCSessionRuns
Transcript <-- extends -- SessionLoop <-- SessionLoopProofs, MCSessionLoop
DatasourceIndex <-- DatasourceIndexProofs, MCDatasourceIndex
```

A definition whose name ends in an underscore and a capitalised word, marked as a
mutant or a plausible slip, is a wrong version of the definition that follows it; it
shows that a property would notice the mistake and takes no part in a specification.

**EventLog** is the contract of `event.Store`: one variable `streams`, one action
`AppendBatch(b)`, enabled when the expected sequences of the batch hold and its
record identifiers are new.

**NatsEventStore** is `adapters/storage/event/nats/store.go`. The JetStream stream
is `log`; each batch is one message. Per `Store` instance there is the cached
`project`ion and one call in flight (the mutex makes calls sequential), whose
position is `pc`: `sync` (`syncProjection`), `reload`, `replay` (one iteration of
`replayRange` per step), `publish`, `ack`, `reloadAgain`/`replayAgain` (after a
wrong-last-sequence answer). `RequestFails` can happen at every request, including
after the server stored the message; `Restart` opens a new instance;
`PublishForeign` is a message of another subject in the same stream; `Discard` is a
retention limit. `history` (the streams after each message) and `reply` are
auxiliary. The refinement mapping is `streams <- history[Len(history)]`.

**SqliteEventStore** is `adapters/storage/event/sqlite/store.go`: a batch is a
transaction that takes the write lock, checks and inserts request by request
(`appendRequest`, `InsertRequest`, the unique constraints included) and commits; a
failed step rolls back and busy attempts are repeated; a commit may be made and
its answer lost. Loads read the committed rows. It implements EventLog with
`streams` as the committed rows.

**ThreadStore** is `runtime/thread` over that store: `createOnce`, `AppendLoad`/
`AppendAnswered` with `recoverDuplicateAppend`, `ForkLoad`, `ArchiveLoad`/
`ArchiveAppend`, `ListIndex`/`ListThread`, each a read and a later append of a
caller; `RepeatAppend` is a caller that repeats a call after an error;
`BeginEnsureFresh`/`RunOnce` are the projected index of `orchestration/projections`.
`EventsForBranch` is the history of a branch through its forks.

**TaskProjection** is `runtime/task/projector.go` with the types of `core/task`: one
operator per event and the queries of the scheduler. A map entry that is absent is
the zero value, as in Go. `WaitingDependents` states the fixed point that
`CancelWaitingDependents` computes by iteration.

**TaskScheduler** is `orchestration/taskexecutor` and the operations of
`contrib/task` over shared streams.

| Variable | Code |
| --- | --- |
| `task[t]` | the projection of the stream of t |
| `latest[t]` | which claims still have the stream's last sequence (`AppendExpected`) |
| `index[t]` | status in the latest summary of t (`EventStore.Index`, `List`) |
| `summary[s][t][k]` | the index append that an actor of s still owes: the driver, its heartbeat, the tick, a session, `task_run`, a diagnostic |
| `run[s][t]` | the goroutine of s that drives t, and the read it decided on |
| `up`, `enabled` | the process; `SetEnabled` |

An append with an expected sequence that succeeds is an atomic read and write of its
stream, so a `withExpectedRetry` call and a modify call are one action each; claim
does not retry, so its read and its append are two. The index append that follows
every task append is two further steps (the summary is projected, then appended)
that interleave with everything else, because the code appends it without an
expected sequence. A worker call is the time a goroutine spends in `whole`, `work` or
`finalize`; its heartbeat renews the lease meanwhile. A lease is `held` or `expired`:
it always expires once its holder is gone, and at most `MaxStalls` times while its
holder is only slow.

**RunContract** is what the comments of `orchestration/client` promise of a run
handle: the result is decided once and before `Done` is closed, and each channel is
closed once. **Subscriptions** is the harness's `publish`: a publisher walks the
subscribers it found and waits at each full queue, a goroutine per subscriber moves
events from queue to channel, and `done` ends both. **RunHandles** adds the direct
channel: `execute` with its stages (subscribe, the handler with its events and their
persistence, result, closing on success and on failure), the forwarder with its
one-second timeout, the client that may read or not, observers and a background task
that publishes on the same thread. **RemoteRuns** is the HTTP/SSE client and the two
handlers of the server it talks to: the posted submission, the stream reader, its
error channel, the forwarder, both waits of `execute`. A timeout is an action that is
enabled when what is waited for cannot go on, or has had its second: `older` and
`WaitBegins` order the timeouts of forwarder and `execute`.

**SessionRuns** is `orchestration/sessionrun`: profile resolution and narrowing, the
capacity counter, the select loop over the child's events, its end and the timeout,
and the fetcher goroutines that every turn of the loop leaves behind (`Fetch`,
`FetchStale`, from `service.go` and `orchestration/sessionagent`). What a narrowed list
is worth depends on how the child reads it: `ApplySessionProfile` and `FilterTools`, from
`orchestration/agentconfig` as the agent factory calls them, combine it with the list of
the agent and take an empty list for no list; `Reachable` is the set of operations the
tools of the child then reach.

**Transcript** is `runtime/conversation`: `ValidateContinuity`, the grouping of calls
with their results, `CompactTranscript`. **SessionLoop** is one inbound input from
`executeInboundInput` to its answer, one action per append to the thread, per
executed operation and per model call; several runs share a thread. An append fails
or the process crashes at most `MaxFaults` times. An item is its role, its call
identifiers, a size for the budget of compaction, and the version of the context it
carries. `Replies` are the answers a model may give to a run, well formed or not, with
identifiers from `ProviderCalls`. A context difference is placed for the developer or for
the user (`Placed`) and has a size (`DiffSize`): a developer diff is an input of its own
that compaction does not drop, a user diff is merged into the first message of the user
and goes with it (`addUserContextDiff`), and one that is shortened no longer carries its
version. `ChangeContext` is taken only when a run is about to look at the context; between
two looks nothing reads it. `quiet` says that no two runs overlapped and nothing
failed.

**DatasourceIndex** is `Build` with its jobs (freshness, pages, field builds, enqueue,
tombstones, run records), the sweep of a full build, and the semantic index's
`Update`, `Delete` and `ProcessQueue` as single writes to chunks, documents and queue.
The source changes between steps (`Edit`). Jobs of one build run concurrently. The
ghosts `stable`, `kept` and `gone` say which documents did not change since a run began,
were in the source or absent all along; `torn` holds the documents whose deletion stopped
after the chunks and those that returned to the recorded content while an update of them
was queued. A source is assumed to page stably: one scan meets every document on exactly
one page, whatever changes meanwhile. `index.go:346-463` follows the cursor a source
returns and cannot ensure this; a source that shifts documents between pages may have
them skipped, and then swept.

## Runs

| Run | Instance | Question | Result |
| --- | --- | --- | --- |
| `nats_store` | 2 instances, 2 streams, 4 batches (two competing claims, a two-stream batch that repeats a record, one with an inner duplicate), 3 calls, 3 messages, 1 discard | Is the cached projection always a replay, are acknowledged batches stored where prepared, are loads fresh, does the store implement `EventLog`? | holds |
| `thread_store` | 2 callers, 2 threads, 2 branches, 3 calls of any kind, 1 failed or unanswered transaction, index batches of 1 | Do calls tell the truth, do streams and index agree, are lists and histories right, does the SQLite store implement `EventLog`? | holds |
| `task_dag` | 2 processes, 2 chained steps, 1 required output, 2 attempts, 1 fault, 1 slow lease | claims, one driver, order and retention of work, valid completion, bounded retries | holds |
| `task_ops` | 1 process, every operation, 2 calls | Does a run ever change a task that a session stopped? | holds |
| `task_live` | 2 processes, 1 fault that keeps stream and index together | Does every ready task settle? | holds |
| `task_capacity` | 1 process, 2 tasks, pool of one, human step and human task | limits, no starvation | holds |
| `run_delivery` | 1 run, 1 observer, 1 background publisher, queues of 1, 1 failed append | Is the handle what the client interface promises, does a client that keeps up get the whole run, does the run end? | holds |
| `remote_run` | 1 run, 3 events and a foreign one, queues of 1, 1 broken request or stream | The same, over HTTP | holds |
| `remote_panic` | the same | Does a send ever meet a closed channel? | violated |
| `session_runs` | 2 requests of several profiles and policies (one without an operation in common), one child that never ends | capacity, outcome, progress, delegation, return | holds |
| `session_turn` | 2 inputs of one thread, 7 kinds of replies (4 malformed), 2 steps, 1 continuation, 1 reaction, 3 versions of the context (a small developer diff, one in a user message, a large one), compaction, 1 failed append or crash | continuity, truth of the thread, nothing twice, context, answer | holds |
| `datasource_index` | 3 documents of 2 entities, warm-up, full builds of all and of each phase, 1 edit, 1 fault | deletions, completeness, chunks | holds |

Several properties are conjunctions of named parts: `DrivenByOne` of `OneWorker` and
`RunningIsDriven`; `WorkIsKept` of `DispatchInOrder` and `CompletedStepStays`;
`CallsTellTruth`, `IndexAgrees` and `ReadsAreComplete` in ThreadStore;
`StreamIsFaithful` in both handle modules; `EventsTellRun` in SessionRuns;
`AlwaysContinuous`, `ThreadTellsTruth` and `NothingRunsTwice` in SessionLoop. The type
invariants `TypeOK` hold on the same instances; only the one of NatsEventStore, which
bounds the retries, is part of a run, and those of the modules with proofs are theorems.

### The finding

`remote_panic`: `execute` (`httpsse/client.go:296`) closes the events channel after two
waits of a second. The forwarder may still be in `emit`, whose own second starts with
each event: an undrained client with a full buffer then makes it send on a closed
channel, which ends the process. The direct handle waits for its forwarder without a
limit and does not have this (`NoEmitAfterClose`); its tests require that an emit after
the close or beside it does not panic (`direct/client_test.go:508`, `:464`), and
`docs/migration-from-agent-sdk.md:730-731` asks for the same handles, events and results
from both channels. `findings` in `PROJECT.json` quotes the lines.

### Known limitations the models exhibit

Each was seen as a TLC counterexample, or in the code, while the models were made. The
passing runs exclude exactly these cases, by a constant, an antecedent or a ghost.

1. **Crash between claim and index** (`executor.go:850`). `claim` appends to the task
   stream, then to the index; a process that stops in between leaves the index at
   `ready`, so Tick never reconciles the running task
   (`.agents/plans/2026-05-17-task-system-roadmap.md:273-275` says it is recovered).
   Excluded by `LosesIndex`.
2. **Index lost update** (`executor.go:1264`). Two writers project and append summaries
   in opposite orders; the older one wins and nothing scans the stream itself
   (`event_store.go:18-19` calls the loop the recovery path). It needs a session
   operation beside two processes.
3. **Stale result** (`executor.go:1079`). `appendStepTerminal` does not compare attempt,
   lease or worker; a resumed execution keeps its identifier, so the slow worker of an
   expired lease completes the step of the new holder (roadmap:276-277).
4. **False completion** (`executor.go:1096`). An output declared after the validation
   does not keep the task from being completed (`docs/concepts.md:430-434`).
   `task_dag` has no operations, so its `CompletionIsValid` is about the scheduler alone.
5. **Endless run** (`executor.go:966`). `runStepDAG` does not look at the task status; a
   cancelled task with a waiting step keeps its driver in the loop and its slot taken.
6. **Fully discarded log** (`nats/store.go:294`). The message count is tested before the
   first sequence, so a log whose messages were all discarded loads as an empty one
   (`store_test.go:413-414` wants an error). Excluded by `KeepsNewest`.
7. **Failed persistence and a full buffer** (`direct/client.go:560-574`,
   `harness.go:1559-1567`). After an event could not be persisted the forwarder returns
   at RunFailed while its subscription stays registered; the run's later publications
   can fill the queue and wait for ever. `EveryRunEnds` exempts such runs.
8. **Compaction against a concurrent input** (`session.go:5097-5158`, `5160`). The
   checkpoint is made from what the thread held when it was read and replaces what
   another run flushed meanwhile (`compact.go:36-38`, `docs/conversation-continuity.md:63-66`
   say recent items are kept). The transcript stays valid.
9. **Reactions of concurrent inputs** may be executed twice (`session.go:5561`,
   `docs/observations-and-reactions.md:1074-1077`); `ReactsOnce` speaks of runs that follow
   one another. `commitContextRender` (`session.go:724`) is stored before the transcript,
   so a failure in between loses a context difference; likewise `quiet`.
10. **A full build of one phase** deletes the documents of entities the phase does not
    scan (`datasourceindex/index.go:172-231`; `apps/launch/datasource_command.go:80` says
    "after a complete scan"). `LiveDocumentsStay` speaks of the entities that are scanned.
11. **Half-way deletions and returns** (`semantic/index.go:155-174`, `221`). Chunks are
    written and deleted before the document state. A deletion that stops after the chunks
    leaves a document recorded as indexed without them, and so does an update that stops
    there when the document has meanwhile returned to the recorded content: its job
    carries the old content and is skipped. `IndexedHasChunks` leaves out these two
    (`torn`) and covers every other update that stops half-way.
12. `ProcessQueue` deletes by key a job that another process queued again meanwhile
    (`semantic/index.go:275`), and a failed run that only reached the data store hides
    behind an older complete one in the index (`index.go:305-318`).
13. A subscription reads stored events and registers afterwards (`harness.go:484`); what is
    published in between is in neither.
14. A task that is cancelled and reopened keeps its execution `running`, so no claim takes
    it; a task stuck as `ready` in the index takes a slot at every tick; the comment of
    `AllStepsTerminal` (`projector.go:261`) speaks of a blocked dependency *path*, but only
    direct dependencies are looked at.
15. **Context that compaction loses** (`session.go:2855-2863`, `2935-2946`,
    `conversation/compact.go:144-149`, `268-281`). A context diff in a message of the user
    (`contrib/datasource/plugin.go:176` makes them) is dropped with the message, and a large
    one is replaced by a remark; the render records still say that the model has it, so it
    is not sent again while the context stays the same. `ContextReachesModel` claims every
    diff for the step that found the change, and only `Durable` ones for the steps after.
16. **Lists without a common operation** (`sessionrun/runner.go:488-506`,
    `agentconfig/config.go:18-21`, `83-94`). An empty list means no restriction, so when
    policy, profile and agent have lists with nothing in common the narrowed list is empty
    and the child reaches every operation. `DelegationHolds` claims that a child stays
    within all lists when they `Agree` on an operation; the run contains the other case.

### Bounds and why they are enough

Two processes, callers or inputs are the least for every race; a third adds only
another loser. Two chained steps give a dependency, a step in the middle of a run and a
rest to retry; two attempts one retry and the exhausted case. One fault is enough for
each failure to meet each point of a run; combinations of failures are not explored,
except in the datasource index, where two faults and two edits were also run on one
document, and one fault and two edits on one document of each entity. Queues of
one are full after one event, which is where everything interesting about them
happens. In the stores three messages or calls allow a competing one, the own one and a
third between them. Two steps and a continuation take an input through every boundary
of the inner and outer loop. Three versions of the context are one that compaction leaves
alone, one it may drop and one it shortens. Three documents give two of one entity, so
that one can fail while the other succeeds, and one of another. A full build of one phase
meets an edit or a fault, not both (`MCBound`); the semantic phase was also run without
this bound, which takes twice as long. The named bounds are `MCBound`, the `Max...`
constants, `Buffer`, `Budget`, `LargeItem` and `PreserveRecent`; `MaxExecs`, `MaxFaults`,
`MaxStalls`, `MaxOps`, `MaxLog`, `MaxCalls`, `MaxFirst`, `MaxEmits`, `MaxForeign`, `MaxSteps`,
`MaxContinuations`, `MaxContext`, `MaxCommands`, `MaxEdits`. Symmetry is used on processes,
callers and documents in runs without liveness properties only.

Deadlock is checked for the JetStream store. The other systems really stop: when all
tasks have settled, all calls have returned and all runs have ended, there is nothing to
do.

### Fairness

* TaskScheduler: weak fairness of each driving goroutine (Go schedules a runnable
  goroutine), of the tick and of reconciliation (the ticker of `Start` fires for ever
  while the process is up and enabled), of pending notifications, submissions and index
  appends (plain code after an append), and of the expiry of a lease whose holder is gone
  (time passes). Workers are assumed to return, which their timeout ensures. Nothing is
  assumed of sessions, crashes or slow holders.
* RunHandles, RemoteRuns: weak fairness of the goroutines of the code, timeouts included,
  and of the session that executes the run. Observers that have events read them.
  Nothing is assumed of the client of a run, of contexts and of connections.
* SessionRuns: weak fairness of the runner and of timeouts; children in `Endless` may never
  end.
* SessionLoop: weak fairness of the runs together (`FairSpec`; the proofs need only
  `Spec`), including the model's answer, which its timeout ensures.

## Proofs

All theorems hold for arbitrary values of the constants under the named assumptions
`StoreAssumption`, `ProjectionAssumption`, `SchedulerAssumption`, `RemoteAssumption`,
`SessionRunAssumption`, `SubscriptionAssumption`, `RunAssumption`, `IndexAssumption`,
`SqliteAssumption`, `ThreadAssumption`, `BatchAssumption`, `SessionAssumption` and
`BudgetAssumption`: bounds are natural numbers, batches are well formed, declared steps have declared
dependencies, sets of tasks, of requests and of subscribers are finite, a run is not an
observer, a buffer has room for an event, limits are numbers, the inputs, the
registered profiles and the lists of operations of delegated runs are well formed, every document has an
entity and 0 is no content; the two branches differ and have a name, the identifiers
made from the number of a call are identifiers, and the batches that calls can submit
are among the batches of the abstract log; inputs of a thread are finitely many, a model
asks for operations exactly when its answer lists requests, a context diff is for the
developer or for the user, and budgets and sizes are numbers. TLC evaluates each of them on its runs.

### NatsEventStoreProofs

`IInv` strengthens the checked invariants in four places. `LogOK`: there is one more
entry of `history` than there are messages, and each message turns one entry into the
next. `ProjectOK`: a projection equals the entry at its `lastSeq`. `CallOK`: what a call
knows at its `pc` (in `ack`, the message at `target` is the one prepared against the
projection, whose `lastSeq` is one less). `ReplyOK`: a reply stays true because `history`
only grows. The invariant is needed because the refinement step rests on it: when the
server accepts a publish, `lastSeq = Len(log)` makes the projection the *current*
streams, so the precondition that was checked on the cache earlier holds of the abstract
state.

* `Invariance`: `Spec => []IInv`.
* `TypeCorrect`, `ProjectionCorrect`, `AcknowledgementCorrect`: the three invariants.
* `Refinement`: `Spec => ImplementsEventLog`, that is `EventLog!Spec` under the mapping.
* `LoadsAreFresh`: `Spec => [](KeepsNewest => LoadIsFresh)`. `FreshOK` adds that the first
  retained message is in the log, and that a load that replays has a `target` not before
  the end the log had at its call. The condition is the one of limitation 6.

### ThreadStoreProofs

The invariant `Inv` covers the thread store and the SQLite store below it, for any number
of callers, threads and calls. `RowsOK`: the identifier of a stored record tells which
call stored it and in which role, and Alt is only forked from Main. `TransactionOK` is the
heart: every open transaction has two expected sequences of which it is true that what the
call found when it loaded still holds if the thread has no newer record (`Expects`), and
`staged` is the committed rows with exactly the requests inserted so far (`Progress`).
`UnsettledOK`: a call that is not settled has not stored its record, unless it repeats an
append, and then the number of a call is unused. `AttemptOK`: each attempt after the first
was made necessary by a record that another call committed, so attempts are bounded by the
committed calls, which gives `NoCallStarves`. `AnswerOK` and `OutcomeOK` carry the truth of
an answer from the commit to the return, `PageOK` and `ViewOK` are about List and the
projected index.

A step either leaves `rows` alone or is a commit that appends one record to a thread and
perhaps one to the index (`StepRows`, `Lands`), so the effect of other callers on a call is
one case (`OtherGrow`). The facts about data are lemmas on sequences: the archival status
is that of the last archive record, projecting in rounds is projecting at once, the order
of a list is kept when the index grows, a branch window ends at its fork. The largest or
least position of a set comes from well-foundedness, not from induction over a definition.
The refinement also needs that there is a batch of the abstract log for each commit,
within its bound on sequences: records have different identifiers and each belongs to a
call (`RoomLeft`).

* `Invariance`: `Spec => []Inv`. `TypeCorrect`: `Spec => []TypeOK`.
* `IndexTellsThreads`: `Spec => []IndexAgrees`.
* `OutcomesAreTrue`: `Spec => []CallsTellTruth`.
* `ReadsMissNothing`: `Spec => []ReadsAreComplete`.
* `BranchHistory`: the action property `HistoryIsStable`.
* `StoreImplementsEventLog`: `Spec => ImplementsEventLog`.

### TaskSchedulerProofs

Each action gets a lemma that classifies its effect on the one task it touches: the
projection is unchanged up to a lease, it is written with attempts kept
(`GoodWrite`), or it is claimed. Writing a stream empties `latest`, so a claim succeeds
only on a state that is still `claimable`. The inductive invariant is `TypeOK`,
`AttemptsBounded`, `ClaimedOnce` and `TaskInv`, where `TaskInv` says that an uncreated
task has no attempts, that a requeued execution has an attempt left (`Requeued`:
reconciliation requeues below `MaxAttempts`, and every other way to ready costs an
operation), and that a claim in progress was read from a claimable state. `ClaimedOnce`
follows because every claim increases the attempt of its execution and a driver's
attempt never exceeds it.

* `TypeCorrect`, `ClaimsAreExclusive`, `RetriesAreBounded`: invariants of `Spec`.
* `StoppedTasksStayFrozen`: the action property `StoppedTaskIsFrozen`. Every scheduler
  action either requires `StillRunning` of the state it writes, or `ready` for a claim.
* `LimitsAreKept`: `Spec => []CapacityRespected`. A step starts no run (`StartsNone`), or
  one that `reserve` let through in the same state (`Starts`); a run is counted until its
  last index append, so no step of a driver adds to the count.

### TaskSchedulerProofs: the work of a task

A driving goroutine reads a task, decides, and writes later without reading again. Two
invariants say why that is sound, and under which use of the task operations. Both
proofs describe a step of the whole system by what it may do to a task and to a
goroutine (`WorkStep`, `DriveStep`), prove once that such a step keeps the invariant, and
show action by action that the system takes no other step.

`WorkInv` says that the steps a goroutine still has to dispatch have their dependencies
completed, that those it still has to cancel have a dependency that failed or is to be
cancelled too, and that a completion it decided on is still justified (`Fits`). It is kept because the status of a step moves in one direction only
(`StepChange`, and `StepBlock` when an execution is interrupted). That
each step to cancel has such a dependency is a fact about the transitive set that
`cancelWaitingDependents` collects (`DependentsAreDoomed`: the least closed set has no
member without a reason to be in it).

`DriveInv` says that a goroutine which has begun holds the claim of a running execution or
has nothing left to write to it (`Holds`, `Spent`; as long as no lease expired under its
holder), that a running execution has a goroutine that drives it (`Drives`; as long as
nothing failed), that a human step on a goroutine's list is still waiting while its
attempt runs (`HumanTodo`), and that the current execution was started and has a status
for every declared step (`WellFormed`).

* `DecisionsStayTrue`: `Stepwise` implies `Spec => []WorkInv`.
* `WorkStaysDone`: `Stepwise` implies the action property `WorkIsKept`.
* `CompletionsAreValid`: `Stepwise` and `Declared` imply the action property
  `CompletionIsValid`.
* `ClaimsAreHeld`, `OneDrives`: `Unsteered` implies `Spec => []DriveInv` and
  `Spec => []DrivenByOne`.

The hypotheses are about the constants `Operations` and `SetStatuses`, the modifications
sessions make. `Stepwise`: sessions neither set the status of a step nor reopen one.
`Declared`: they add neither steps nor outputs. `Unsteered`: they do not set or reopen
steps, do not add artifacts, and do not set a task to running; they may block, cancel,
complete and reopen tasks, set any other status, run tasks, and revise their steps and
outputs. None of them can be dropped, as TLC shows on small instances: a session that
reopens a completed step has it run again; one that adds an output between the decision
and the append leaves a completed task without it; one that sets a task to running
leaves a running task without a goroutine; and one that adds an artifact scoped to an
older execution makes that execution current, so that after reopen and two status
changes the task is claimed while its first worker still runs.

### RemoteRunsProofs

The inductive invariant has four parts: `HandleInv` ties the stage of `execute` to the
result and the two channels; `ShapeInv` types the buffers; `FlowInv` is about everything
between the publisher and the client, oldest first (`Flow`, the concatenation of what the
forwarder carries, the client's queue, the reader's hand and the connection): it is in
the order of publication, a terminal event ends it, and unless something was given up it
covers exactly what the client has not seen; `OutcomeInv` says which result the events
allow.

* `Refinement`: `Spec => ImplementsContract`, the contract of run handles.
* `StreamCorrect`: the action property `StreamIsFaithful`.

### RunHandlesProofs

The argument has two layers. `SubStep` lists the ways in which a step of the whole
system changes the variables of Subscriptions, and `SubInv` is inductive for those:
`Lifecycle` says in which states a queue and a channel can be, `InPublication` that a
publisher still owes its newest event to each subscriber on its list once, `Ordered` that
the events on their way to a subscriber have, per publisher, increasing numbers between
the last one received and the last one owed, and `Covered` that none is missing while it
is registered. `LocalInv` then follows the events of one run to its handle: the stage of
`execute` determines result and channels (`StageOK`), the forwarder, what it carries and
what the client has read continue the pending events, and `KindsOK` says which terminal
events can be among them. Without `Covered`, `StreamIsComplete` could
not be shown: it is the reason why a forwarder that has seen the terminal event has seen
everything.

* `FanOutIsLossless`: `Spec => []LosslessInOrder`.
* `NoSenderAfterClose`: `Spec => []NoEmitAfterClose`.
* `StreamCorrect`: the action property `StreamIsFaithful`.
* `HandleImplementsContract`: `Spec => ImplementsContract`.

### DatasourceIndexProofs

The inductive invariant has three parts that are shown one after the other. `StoreInv` is
about the stores alone: indexed documents have their chunks or are queued with another
content, chunks have an entry.
`ControlInv` is about jobs and history and does not mention the stores: `Shape` ties the
control of a job to its page and to what is left of its scan, `Fetched` says that a page
holds what the source has of every document that is `Settled` (unchanged since the job or
a recorded run began), and `Scanned` that without an error every document that was passed
and not seen is not in the source. `DataInv` combines them: `StoredOK`, a job without
failures has stored what it has passed; `CompleteOK`, the same for recorded runs, with a
stronger claim about the queue (queued with this content, or not queued and indexed) that
embedding runs preserve; `SweepOK`, what the two sweeps still have to delete; `GoneOK`.
`Scanned` is what makes deleting safe: it is lost when `err` is set, and the sweep is
reached only without it.

* `ChunksMatchRecords`, `FullBuildsClean`, `CompleteRunsAreTrue`: the three invariants.
* `BuildsKeepLiveDocuments`: the action property `LiveDocumentsStay`, which is about the
  entities a build scans; limitation 10 is about the others.

### SessionRunsProofs

`TypeInv` types the parts that matter, `StoryInv` says per place of `Run` what has been
emitted and replied, and `FeedInv` that `reported`, the newest fetcher's events and the
unfetched ones form one increasing sequence, which every step of a fetcher shortens from
the middle or leaves alone. `CapacityExact` is inductive with the types: the set of
holders grows and shrinks by one element with the counter.

* `CapacityCorrect`: `Spec => []CapacityExact`.
* `EventsCorrect`: `Spec => []EventsTellRun`.
* `DelegationCorrect`: `Spec => []DelegationHolds`. The policy is checked before a
  request takes its slot and applied only when the child is opened; `PolicyInv` carries
  the check over the steps between: a request with a slot was permitted by its policy,
  and an open child has the effective profile. `NarrowedProfile` and `NarrowedTools` follow
  the lists from there to the tools of the child: narrowing keeps what all lists have in
  common, so that with a common operation no list on the way becomes empty, and every
  list that is not empty bounds the result.

### SessionLoopProofs

Two invariants. `Inv` holds whatever the runs meet, overlaps, failed appends and crashes
included, for any number of runs, any answers and any budget.

* `RecordInv` relates a run to the thread. `Counted`: the numbers of the operations and
  checks a run has executed end at `Count`, the stored ones plus those of the unfinished
  batch, so that the identifier of the next is new. `Told`: everything executed is
  completed on the thread or is in the run's `batch` and will be stored with it; at each
  place that executes, the request is stored.
* `BatchInv` is about transcripts. A run stores an answer together with all its results in
  one append, so a thread is `Batched`: a call or a result belongs to a stretch of outputs
  followed by exactly one result for each of their calls, directly behind no other output
  with calls. Malformed answers (no, doubled or repeated identifiers) are the cases of
  the lemmas. Appends of other runs fall between batches, and a batched transcript passes
  `ValidateContinuity`.

The hard part of `BatchInv` is compaction. The groups that `CompactTranscript` works on
are, in a batched transcript, the batches and the single items between them; omission
takes whole groups, the notice that replaces them is an input, and shortening changes
only sizes and the version a diff carries. So what `omitOldItems` leaves is a selection of the transcript at the
boundaries of groups, and it is batched again. The starts of the
groups and what is kept of a transcript are recursive functions. Facts about all their
arguments need induction, which the prover cannot instantiate: a least counterexample
(`LeastOf`, from the well-foundedness of the natural numbers) replaces it, and that such
a function exists at all is the lemma `Iterated`, shown in the same way. What is omitted
also depends on estimated sizes, but the argument holds for any choice of droppable
groups.

`QuietInv` adds what is true while runs follow one another and nothing fails: `Alone`,
one run at a time; `ReactInv`, every executed reaction is applied on the thread or is the
one under way, and the run knows all that is applied; `ContextInv`, a `Durable` version in
the records of the context is that of the newest context diff of the thread with what the
run has yet to store (`sink`), at every place of a run. That the newest diff survives
compaction rests on `groupDroppable`, which keeps every developer input, and on the size
up to which `compactLargeItems` shortens nothing. A diff in a user message or a large one
needs no invariant: the claim about it is for the step that sends it.
Without `quiet` neither is true: two runs that overlap may react to the same fact.

* `Invariance`, `QuietInvariance`: the two invariants.
* `TypeCorrect`: `Spec => []TypeOK`.
* `TruthTold`: `Spec => []ThreadTellsTruth`.
* `Continuity`: `Spec => []AlwaysContinuous`.
* `CallsExecutedOnce`, `OnceOnly`: `Spec => ExecutedOnce` and the property it is a part of,
  `NothingRunsTwice`.
* `ContextSent`: `Spec => []ContextReachesModel`.

### Only model-checked

Liveness (`ReadySettles`, `EveryRunEnds`, `RemoteRunEnds`, `EveryRequestReturns`,
`EveryInputReturns`) needs fairness and `ENABLED`, which the prover does not handle.
Every other property of a passing run is a theorem. The scheduler's `DrivenByOne`,
`WorkIsKept` and `CompletionIsValid` are proved under the hypotheses named above.

## Not modelled

Within the modelled parts. Tasks: worker registrations (a lease always decides, because
every execution is claimed with one), several modifications in one modify call,
`update_step`, `update_metadata`, `update_artifact`, `remove_artifact`, review tasks, profile
resolution, and the snapshot that Tick takes of the whole index before it walks it.
Stores: load options that filter or reverse a result, encodings, opening and migration.
Threads: metadata, paging. Harness: bindings, replay before a subscription, profiles. Run
handles: what a background task publishes carries the identifier of another run; the
code may also publish with that of the run that started it (`harness.go:1287`,
`executor.go:1292`), which the direct channel forwards (`direct/client.go:566`).
Delegated runs: lists of commands, context and tools, and patterns in lists.
Session loop: providers that continue natively, lazy phases, rules that fire on every
turn, the goal reviewer, the compact command, commands, triggers and operations as
inbound, filtering for other providers; the order of reactions across rule kinds (the
code groups by kind where `docs/observations-and-reactions.md:215-217` speaks of
declaration order). Datasource index: materialized views, dry runs, limits, the clear
command, search, the cutting of chunks, scores.

Parts not modelled at all have their reason in `PROJECT.json`: input and output, wire
formats of external services, configuration parsing, deployment files, presentation,
and sequential evaluation without state that outlives a call. They are by far the
larger part of the repository's lines.
