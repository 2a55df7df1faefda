----------------------------- MODULE SessionLoop -----------------------------
(***************************************************************************)
(* The session loop (orchestration/session): how one inbound message       *)
(* becomes model calls, operations and an answer, and what is stored on    *)
(* the thread on the way.                                                  *)
(*                                                                         *)
(* Several runs may be under way on one thread: nothing in the harness or  *)
(* the session waits for an earlier run of the thread to end.  A step of   *)
(* the model is one read of the thread, one append to it, one model call   *)
(* or one operation, with the local computation that follows it.           *)
(*                                                                         *)
(* The thread is kept as the replay of its log: the transcript the         *)
(* provider-visible items and checkpoints add up to, the context records   *)
(* of the last committed render, and which inputs, operation requests,     *)
(* completions, applied reactions and outbound messages it has.            *)
(*                                                                         *)
(* The agent is one whose provider has no native continuation, so every    *)
(* call replays the transcript, and no observer asks for the lazy phase.   *)
(***************************************************************************)
EXTENDS Transcript, FiniteSets

CONSTANTS
    Runs,               \* identifiers of the inbound messages
    Goals,              \* the runs with a stop condition
    ProviderCalls,      \* the call identifiers a provider may answer with
    Replies,            \* what the model may answer in each run: [kind, outputs, requests]
    Edits,              \* provider calls that edit a file with a check on it
    ResultSizes,        \* sizes in tokens of operation results
    Facts,              \* fingerprints the asserted fact may have
    NoFact,
    Observed,           \* the fingerprints each phase's observers may find
    MaxSteps,           \* turns.max_steps
    MaxContinuations,   \* turns.continuation.max_continuations
    MaxContext,         \* bound: versions of the context the providers render
    Placed,             \* where the block of a version is placed, "developer" or "user"
    DiffSize,           \* the size in tokens of the difference that brings a version
    MaxFaults           \* bound: failed appends and crashes

ASSUME SessionAssumption ==
    /\ IsFiniteSet(Runs) /\ Goals \subseteq Runs
    /\ NoFact \notin Facts
    /\ Observed \in [{"open", "turn", "followup"} -> SUBSET Facts]
    /\ \A r \in Runs : \A reply \in Replies[r] :
         /\ reply \in [kind : {"message", "wait", "operations"},
                      outputs : Seq(Seq(ProviderCalls)), requests : Seq(ProviderCalls)]
         /\ (reply.kind = "operations") <=> (reply.requests # <<>>)
    /\ MaxSteps \in Nat \ {0}
    /\ MaxContinuations \in Nat /\ MaxContext \in Nat \ {0} /\ MaxFaults \in Nat
    /\ Placed \in [1 .. MaxContext -> {"developer", "user"}]
    /\ DiffSize \in [1 .. MaxContext -> Nat \ {0}] /\ ResultSizes \subseteq Nat

VARIABLES
    thread,     \* the replay of the thread's log
    run,        \* the state of each run
    executed,   \* the operation calls that were executed
    context,    \* the version of what the context providers render now
    faults,     \* appends that failed and crashes so far
    quiet       \* no run has overlapped another, failed or met a fault so far

vars == <<thread, run, executed, context, faults, quiet>>

\* Call identifiers: of the n-th operation of a run, and of a run's reaction to
\* a fact.
operationCallID(r, n) == [run |-> r, n |-> n, fact |-> NoFact]
reactionOperationCallID(r, fact) == [run |-> r, n |-> 0, fact |-> fact]
Calls == [run : Runs, n : Nat, fact : Facts \cup {NoFact}]
IsReaction(call) == call.fact # NoFact

Places == {"idle", "replay", "react", "react request", "react execute",
           "react complete", "react applied", "step", "project", "model",
           "commit", "request", "execute", "check request", "check execute",
           "check complete", "flush", "evaluate", "terminal", "compact",
           "checkpoint", "done"}

inputItem(r) ==
    [kind |-> "input", role |-> "user", calls |-> <<>>, size |-> 1, context |-> 0, by |-> r]
contextItem(r, version) ==
    [inputItem(r) EXCEPT !.role = Placed[version], !.size = DiffSize[version],
                         !.context = version]
outputItem(r, calls) ==
    [inputItem(r) EXCEPT !.kind = "output", !.role = "assistant", !.calls = calls]
operationResultTranscriptItem(r, call, size) ==
    [inputItem(r) EXCEPT !.kind = "tool_result", !.role = "tool", !.calls = <<call>>,
                         !.size = size]

noReply == [kind |-> "none", outputs |-> <<>>, requests |-> <<>>]

\* The state of a run that holds nothing.
newRun ==
    [pc |-> "idle", phase |-> "turn", cont |-> 0, step |-> 0,
     pending |-> <<>>, committed |-> 0,     \* transcriptPending
     records |-> -1, rendered |-> 0,        \* local context records, this step's render
     sink |-> <<>>, local |-> <<>>,         \* conversationEventSink, localTranscript
     fact |-> NoFact, previous |-> NoFact, keys |-> {},     \* reactionState
     reply |-> noReply, results |-> <<>>, batch |-> {}, effects |-> 0,
     checkpoint |-> <<>>, result |-> "none"]

Init ==
    /\ thread = [items |-> <<>>, rendered |-> 0, applied |-> {}, received |-> {},
                 requested |-> {}, completed |-> {}, outbound |-> {}]
    /\ run = [r \in Runs |-> newRun]
    /\ executed = {}
    /\ context = 1
    /\ faults = 0
    /\ quiet = TRUE

-----------------------------------------------------------------------------
(* Appending.                                                              *)

Goto(here, pc) == [here EXCEPT !.pc = pc]

\* A run that ended keeps its result; a successful one, the decision it told.
Finish(here, result) ==
    [newRun EXCEPT !.pc = "done", !.result = result,
                   !.reply = IF result = "ok" THEN here.reply ELSE noReply]

Move(r, here) == run' = [run EXCEPT ![r] = here]

\* One append of records, which the store takes whole or not at all
\* (retryThreadAppend tries again on a conflict only).  A failure is told to
\* the caller; the records may have been stored although it was.
appendThreadRecords(r, stored, then, otherwise) ==
    \/ /\ thread' = stored
       /\ Move(r, then)
       /\ UNCHANGED faults
    \/ /\ faults < MaxFaults
       /\ faults' = faults + 1
       /\ thread' \in {thread, stored}
       /\ Move(r, otherwise)

\* A step that stores nothing.
Local(r, here) == Move(r, here) /\ UNCHANGED <<thread, faults>>

-----------------------------------------------------------------------------
(* The input is recorded and the thread replayed.                          *)

ReceiveInput(r) ==
    /\ run[r].pc = "idle"
    /\ appendThreadRecords(r, [thread EXCEPT !.received = @ \cup {r}],
                           Goto(run[r], "replay"), Finish(run[r], "failed"))
    /\ UNCHANGED <<executed, context>>

\* The session-open phase runs when this is the thread's first inbound event.
shouldRunSessionOpenPhase == Cardinality(thread.received) <= 1

\* The reactions that were applied on the thread, by key.
replayReactionEvents == thread.applied

Replay(r) ==
    /\ run[r].pc = "replay"
    /\ Local(r, [run[r] EXCEPT !.pc = "react",
                               !.phase = IF shouldRunSessionOpenPhase THEN "open" ELSE "turn",
                               !.keys = replayReactionEvents,
                               !.pending = <<inputItem(r)>>])
    /\ UNCHANGED <<executed, context>>

-----------------------------------------------------------------------------
(* Reactions: one rule with one operation, firing on change.               *)

reactionCall(r) == reactionOperationCallID(r, run[r].fact)

\* Where a run goes once the reactions of its phase are through.
\* A plausible slip: every phase but the last is followed by the turn's.
AfterReactions_Again(here) ==
    IF here.phase # "followup" THEN [here EXCEPT !.phase = "turn", !.pc = "react"]
    ELSE [here EXCEPT !.pc = "step"]

AfterReactions(here) ==
    IF here.phase = "open" THEN [here EXCEPT !.phase = "turn", !.pc = "react"]
    ELSE [here EXCEPT !.pc = "step"]

\* The observers of the phase assert the fact anew, or what was asserted
\* before stands.
observedFacts(here) ==
    IF Observed[here.phase] = {} THEN {here.fact} ELSE Observed[here.phase]

\* The rule fires when the fact is new or changed and its key was not applied
\* yet.
shouldFire(here, fact) ==
    fact # NoFact /\ here.previous # fact /\ fact \notin here.keys

PlanReactions(r) ==
    /\ run[r].pc = "react"
    /\ \E fact \in observedFacts(run[r]) :
         LET here == [run[r] EXCEPT !.fact = fact, !.previous = fact]
         IN  Local(r, IF shouldFire(run[r], fact) THEN Goto(here, "react request")
                      ELSE AfterReactions(here))
    /\ UNCHANGED <<executed, context>>

\* A reaction whose request cannot be stored is not executed; the turn goes on.
RequestReaction(r) ==
    /\ run[r].pc = "react request"
    /\ appendThreadRecords(r, [thread EXCEPT !.requested = @ \cup {reactionCall(r)}],
                           Goto(run[r], "react execute"), AfterReactions(run[r]))
    /\ UNCHANGED <<executed, context>>

ExecuteReaction(r) ==
    /\ run[r].pc = "react execute"
    /\ executed' = executed \cup {reactionCall(r)}
    /\ Local(r, Goto(run[r], "react complete"))
    /\ UNCHANGED context

CompleteReaction(r) ==
    /\ run[r].pc = "react complete"
    /\ appendThreadRecords(r, [thread EXCEPT !.completed = @ \cup {reactionCall(r)}],
                           [run[r] EXCEPT !.pc = "react applied",
                                          !.effects = @ + 1,
                                          !.keys = @ \cup {run[r].fact}],
                           AfterReactions(run[r]))
    /\ UNCHANGED <<executed, context>>

\* The applied action is a runtime event, which the harness stores; when it
\* cannot, the session does not learn of it.
RecordApplied(r) ==
    /\ run[r].pc = "react applied"
    /\ appendThreadRecords(r, [thread EXCEPT !.applied = @ \cup {run[r].fact}],
                           AfterReactions(run[r]), AfterReactions(run[r]))
    /\ UNCHANGED <<executed, context>>

-----------------------------------------------------------------------------
(* A step: context, transcript, model.                                     *)

\* The run's own records, or those of the last render stored on the thread.
contextRenderRecords(r) == IF run[r].records = -1 THEN thread.rendered ELSE run[r].records

\* A difference for the user goes into the first message of the user, or behind
\* the items when there is none.
withDiff(item, version) ==
    [item EXCEPT !.context = version, !.size = item.size + DiffSize[version]]

addUserContextDiff(r, items) ==
    LET messages == {i \in DOMAIN items : items[i].kind = "input" /\ items[i].role = "user"}
    IN  IF messages = {} THEN Append(items, contextItem(r, context))
        ELSE [items EXCEPT ![Min(messages)] = withDiff(items[Min(messages)], context)]

\* The rendered context, one block, is compared with the records; what changed
\* is put among the pending items that are not stored yet.
contextPendingItems(r) ==
    LET here == run[r]
        tail == SubSeq(here.pending, here.committed + 1, Len(here.pending))
    IN  IF contextRenderRecords(r) = context THEN here.pending
        ELSE SubSeq(here.pending, 1, here.committed)
               \o (IF Placed[context] = "user" THEN addUserContextDiff(r, tail)
                   ELSE <<contextItem(r, context)>> \o tail)

materializeContext(r) ==
    /\ run[r].pc = "step"
    /\ run[r].step < MaxSteps
    /\ Local(r, [run[r] EXCEPT !.pc = "project",
                               !.records = contextRenderRecords(r),
                               !.rendered = context,
                               !.pending = contextPendingItems(r)])
    /\ UNCHANGED <<executed, context>>

\* The items that are new to the thread, which the adapter records with the
\* answer; committed tool results are sent and not recorded again.
newItems(here) == SubSeq(here.pending, here.committed + 1, Len(here.pending))

\* The transcript a call replays.
Projected(r) == thread.items \o newItems(run[r])

transcriptForPending(r) ==
    /\ run[r].pc = "project"
    /\ Local(r, IF ValidateContinuity(Projected(r)) THEN Goto(run[r], "model")
                ELSE Finish(run[r], "failed"))
    /\ UNCHANGED <<executed, context>>

\* Operation requests name each open call once, and every open call is named.
requestsMatch(items, requests) ==
    LET open == openBefore(items, Len(items) + 1) \ {NoCall}
    IN  /\ \A i \in DOMAIN items : IsOutput(items[i]) =>
             (Ids(items[i]) \cap openBefore(items, i) = {} /\ IsInjective(items[i].calls))
        /\ \/ open = {} /\ Range(requests) \subseteq {NoCall}
           \/ IsInjective(requests) /\ Range(requests) = open

validateOperationRequests(items, requests) ==
    \E transcript \in {items} : requestsMatch(transcript, requests)

outputs(r, reply) == [i \in DOMAIN reply.outputs |-> outputItem(r, reply.outputs[i])]

\* The run's items of this input: those stored and those not stored yet.
stepItems(here) == here.local \o here.sink

\* The model answers: its items and the ones sent go to the sink.
Respond(r) ==
    /\ run[r].pc = "model"
    /\ \E reply \in Replies[r] :
         LET here == [run[r] EXCEPT !.sink = @ \o newItems(run[r]) \o outputs(r, reply),
                                    !.reply = reply]
         IN  Local(r, IF validateOperationRequests(stepItems(here), reply.requests)
                      THEN Goto(here, "commit") ELSE Finish(here, "failed"))
    /\ UNCHANGED <<executed, context>>

\* The model fails.  What it answered up to then has reached the sink, which
\* is dropped with the run.
ModelFails(r) ==
    /\ run[r].pc = "model"
    /\ Local(r, Finish(run[r], "failed"))
    /\ UNCHANGED <<executed, context>>

-----------------------------------------------------------------------------
(* The answer is applied.                                                  *)

\* Where a step goes once its context is committed.
Decided(here) ==
    IF here.reply.kind = "operations" THEN [here EXCEPT !.pc = "request"]
    ELSE IF ValidateContinuity(stepItems(here)) THEN Goto(here, "flush")
    ELSE Finish(here, "failed")

\* A context that changed is stored before the step's items are.
commitContextRender(r) ==
    LET here == [run[r] EXCEPT !.records = run[r].rendered]
    IN  /\ run[r].pc = "commit"
        /\ IF run[r].records = run[r].rendered THEN Local(r, Decided(here))
           ELSE appendThreadRecords(r, [thread EXCEPT !.rendered = run[r].rendered],
                                    Decided(here), Finish(here, "failed"))
        /\ UNCHANGED <<executed, context>>

\* The operation the run is at, and its call identifier: the number of
\* effects the run has so far and its place in the batch.
request(here) == here.reply.requests[Cardinality(here.batch) + 1]
operationCall(r) == operationCallID(r, run[r].effects + Cardinality(run[r].batch) + 1)

RequestOperation(r) ==
    /\ run[r].pc = "request"
    /\ appendThreadRecords(r, [thread EXCEPT !.requested = @ \cup {operationCall(r)}],
                           Goto(run[r], "execute"), Finish(run[r], "failed"))
    /\ UNCHANGED <<executed, context>>

\* The operations of an answer run one after the other.  Only requests with a
\* provider call get a result in the transcript.
ExecuteOperation(r) ==
    /\ run[r].pc = "execute"
    /\ executed' = executed \cup {operationCall(r)}
    /\ \E size \in ResultSizes :
         LET call == request(run[r])
             here == [run[r] EXCEPT
                        !.batch = @ \cup {operationCall(r)},
                        !.results = IF call = NoCall THEN @
                                    ELSE Append(@, operationResultTranscriptItem(r, call, size))]
             more == Cardinality(here.batch) < Len(here.reply.requests)
             checks == Range(here.reply.requests) \cap Edits # {}
             done == [here EXCEPT !.effects = @ + Cardinality(here.batch)]
         IN  Local(r, IF more THEN Goto(here, "request")
                      ELSE Goto(done, IF checks THEN "check request" ELSE "flush"))
    /\ UNCHANGED context

\* A check on an edited file is an operation of its own, requested and
\* completed on the thread before the step is stored.
\* A plausible slip: checks are numbered from the start of the batch.
checkCall_FromBatch(r) == operationCallID(r, run[r].effects)

checkCall(r) == operationCallID(r, run[r].effects + 1)

RequestCheck(r) ==
    /\ run[r].pc = "check request"
    /\ appendThreadRecords(r, [thread EXCEPT !.requested = @ \cup {checkCall(r)}],
                           Goto(run[r], "check execute"), Finish(run[r], "failed"))
    /\ UNCHANGED <<executed, context>>

ExecuteCheck(r) ==
    /\ run[r].pc = "check execute"
    /\ executed' = executed \cup {checkCall(r)}
    /\ Local(r, Goto(run[r], "check complete"))
    /\ UNCHANGED context

CompleteCheck(r) ==
    /\ run[r].pc = "check complete"
    /\ appendThreadRecords(r, [thread EXCEPT !.completed = @ \cup {checkCall(r)}],
                           [run[r] EXCEPT !.pc = "flush", !.effects = @ + 1],
                           Finish(run[r], "failed"))
    /\ UNCHANGED <<executed, context>>

\* The sent items, the answer, its results and the completions are appended
\* together.  After operations the results, already stored, are what the next
\* step sends; any other answer ends the turn.
\* A plausible slip: the answer is stored, its results only with the next step.
FlushWithTranscriptItems_WithoutResults(r) ==
    LET here  == run[r]
        items == here.sink
        next  == [here EXCEPT !.sink = <<>>, !.results = <<>>, !.batch = {},
                              !.local = @ \o items]
    IN  /\ here.pc = "flush"
        /\ appendThreadRecords(r, [thread EXCEPT !.items = @ \o items,
                                                 !.completed = @ \cup here.batch],
             IF here.reply.kind = "operations"
             THEN [next EXCEPT !.pc = "react", !.phase = "followup", !.step = @ + 1,
                               !.pending = here.results, !.committed = 0]
             ELSE Goto(next, "evaluate"),
             Finish(here, "failed"))
        /\ UNCHANGED <<executed, context>>

FlushWithTranscriptItems(r) ==
    LET here  == run[r]
        items == here.sink \o here.results
        next  == [here EXCEPT !.sink = <<>>, !.results = <<>>, !.batch = {},
                              !.local = @ \o items]
    IN  /\ here.pc = "flush"
        /\ IF ~ValidateContinuity(here.local \o items)
           THEN Local(r, Finish(here, "failed"))
           ELSE appendThreadRecords(r, [thread EXCEPT !.items = @ \o items,
                                                      !.completed = @ \cup here.batch],
                  IF here.reply.kind = "operations"
                  THEN [next EXCEPT !.pc = "react", !.phase = "followup", !.step = @ + 1,
                                    !.pending = here.results, !.committed = Len(here.results)]
                  ELSE Goto(next, "evaluate"),
                  Finish(here, "failed"))
        /\ UNCHANGED <<executed, context>>

-----------------------------------------------------------------------------
(* The ends of a turn.                                                     *)

\* The step budget is checked before the model is called.  A run without a
\* stop condition fails, and tells the last operation's result; one with a
\* stop condition has it evaluated.
StepLimit(r) ==
    /\ run[r].pc = "step"
    /\ run[r].step >= MaxSteps
    /\ IF r \in Goals THEN Local(r, Goto(run[r], "evaluate"))
       ELSE appendThreadRecords(r, [thread EXCEPT !.outbound = @ \cup {r}],
                                Finish(run[r], "failed"), Finish(run[r], "failed"))
    /\ UNCHANGED <<executed, context>>

\* The stop condition tells whether useful work remains; a run that used up
\* its continuations fails.
evaluateContinuation(r) ==
    LET here == run[r]
        continued == [here EXCEPT !.pc = "react", !.phase = "turn", !.cont = @ + 1, !.step = 0,
                                  !.pending = <<inputItem(r)>>, !.committed = 0]
    IN  /\ here.pc = "evaluate"
        /\ \E verdict \in {"stop", "continue", "error"} :
             /\ r \notin Goals => verdict = "stop"
             /\ Local(r, CASE verdict = "stop"  -> Goto(here, "terminal")
                           [] verdict = "error" -> Finish(here, "failed")
                           [] OTHER -> IF here.cont >= MaxContinuations
                                       THEN Finish(here, "failed") ELSE continued)
        /\ UNCHANGED <<executed, context>>

\* The answer, or the last operation's result at the step budget, is recorded
\* as the outbound message; an agent that waits has none.
\* A plausible slip: the answer counts although it could not be recorded.
applyTerminalAgentDecision_Anyway(r) ==
    /\ run[r].pc = "terminal"
    /\ IF run[r].reply.kind = "wait" THEN Local(r, Goto(run[r], "compact"))
       ELSE appendThreadRecords(r, [thread EXCEPT !.outbound = @ \cup {r}],
                                Goto(run[r], "compact"), Goto(run[r], "compact"))
    /\ UNCHANGED <<executed, context>>

applyTerminalAgentDecision(r) ==
    /\ run[r].pc = "terminal"
    /\ IF run[r].reply.kind = "wait" THEN Local(r, Goto(run[r], "compact"))
       ELSE appendThreadRecords(r, [thread EXCEPT !.outbound = @ \cup {r}],
                                Goto(run[r], "compact"), Finish(run[r], "failed"))
    /\ UNCHANGED <<executed, context>>

\* After a successful turn the transcript is read and, beyond its budget,
\* compacted.
compactableTranscript(r) ==
    /\ run[r].pc = "compact"
    /\ \E compacted \in CompactTranscript(thread.items) :
         Local(r, IF compacted = thread.items \/ ~ValidateContinuity(thread.items)
                  THEN Finish(run[r], "ok")
                  ELSE [run[r] EXCEPT !.pc = "checkpoint", !.checkpoint = compacted])
    /\ UNCHANGED <<executed, context>>

\* A checkpoint that is not continuous is refused; that it could not be
\* stored is not told.
AppendCompaction(r) ==
    LET done == Finish(run[r], "ok")
    IN  /\ run[r].pc = "checkpoint"
        /\ IF ~ValidateContinuity(run[r].checkpoint) THEN Local(r, done)
           ELSE appendThreadRecords(r, [thread EXCEPT !.items = run[r].checkpoint], done, done)
        /\ UNCHANGED <<executed, context>>

-----------------------------------------------------------------------------
(* The surroundings.                                                       *)

Active == {r \in Runs : run[r].pc \notin {"idle", "done"}}

\* The process ends; what its runs had in memory is gone.
Crash ==
    /\ faults < MaxFaults
    /\ Active # {}
    /\ faults' = faults + 1
    /\ run' = [r \in Runs |-> IF r \in Active THEN Finish(run[r], "crashed") ELSE run[r]]
    /\ UNCHANGED <<thread, executed, context>>

\* What the context providers render changes.  (Bound: while quiet, when alone
\* a property tells versions apart, and when a run is about to look: an earlier
\* change is not told from one at that moment.)
ChangeContext ==
    /\ quiet /\ \E r \in Runs : run[r].pc = "step"
    /\ context < MaxContext
    /\ context' = context + 1
    /\ UNCHANGED <<thread, run, executed, faults>>

Turn(r) ==
    \/ Replay(r) \/ PlanReactions(r)
    \/ RequestReaction(r) \/ ExecuteReaction(r) \/ CompleteReaction(r) \/ RecordApplied(r)
    \/ materializeContext(r) \/ transcriptForPending(r) \/ Respond(r) \/ ModelFails(r)
    \/ commitContextRender(r)
    \/ RequestOperation(r) \/ ExecuteOperation(r)
    \/ RequestCheck(r) \/ ExecuteCheck(r) \/ CompleteCheck(r)
    \/ FlushWithTranscriptItems(r)
    \/ StepLimit(r) \/ evaluateContinuation(r) \/ applyTerminalAgentDecision(r)
    \/ compactableTranscript(r) \/ AppendCompaction(r)

Quietly ==
    quiet' = /\ quiet
             /\ Cardinality(Active') <= 1
             /\ faults' = 0
             /\ \A r \in Runs : run'[r].result \in {"none", "ok"}

Next ==
    /\ \/ \E r \in Runs : ReceiveInput(r)
       \/ \E r \in Runs : Turn(r)
       \/ Crash
       \/ ChangeContext
    /\ Quietly

Spec == Init /\ [][Next]_vars

\* The runs under way go on: the model and the operations answer or fail within
\* their timeouts.  (Weaker than fairness towards each run; it suffices.)
FairSpec == Spec /\ WF_vars((\E r \in Runs : Turn(r)) /\ Quietly)

-----------------------------------------------------------------------------
(* Properties.                                                             *)

\* The values of the variables.  A run's number of effects is the number of
\* calls it executed, up to the batch it is in.
TypeOK ==
    /\ thread.rendered \in 0 .. context
    /\ thread.applied \subseteq Facts
    /\ thread.requested \cup thread.completed \cup executed \subseteq Calls
    /\ thread.received \cup thread.outbound \subseteq Runs
    /\ \A r \in Runs :
         /\ run[r].pc \in Places
         /\ run[r].step \in 0 .. MaxSteps
         /\ run[r].cont \in 0 .. MaxContinuations
         /\ run[r].committed \in 0 .. Len(run[r].pending)
         /\ run[r].records \in -1 .. context
         /\ run[r].result \in {"none", "ok", "failed", "crashed"}
    /\ context \in 1 .. MaxContext
    /\ faults \in 0 .. MaxFaults
    /\ quiet \in BOOLEAN

\* The transcript of the thread is continuous at every moment, whatever the
\* model answers, wherever an append fails or the process ends and however
\* the runs' appends interleave, so a run's projection is never refused.
\* (ValidateContinuity repairs nothing: "current-version sessions must make
\* invalid states impossible".)
TranscriptValid ==
    /\ ValidateContinuity(thread.items)
    /\ \A r \in Runs : run[r].pc = "project" => ValidateContinuity(Projected(r))

\* Compaction takes calls out together with their results: the checkpoint it
\* makes of any transcript of the thread is never refused.
CompactionValid ==
    \A r \in Runs : run[r].pc = "checkpoint" => ValidateContinuity(run[r].checkpoint)

\* No projection of the thread is ever refused, compacted or not.
AlwaysContinuous == TranscriptValid /\ CompactionValid

\* An operation, a check or a reaction is on the thread before it is executed,
\* and is completed on the thread only after it was.
RequestedFirst ==
    /\ executed \subseteq thread.requested
    /\ thread.completed \subseteq executed

\* No two operations or checks of a thread are executed under one call
\* identifier: executing a call always adds one.
ExecutedOnce ==
    [][\A r \in Runs :
         /\ run[r].pc = "execute" /\ run'[r].pc \in {"request", "check request", "flush"}
              => operationCall(r) \notin executed
         /\ run[r].pc = "check execute" /\ run'[r].pc = "check complete"
              => checkCall(r) \notin executed]_vars

\* A run that reports success has its input, its answer and the completion of
\* every operation it executed on the thread.
OutcomeRecorded ==
    \A r \in Runs : run[r].result = "ok" =>
      /\ r \in thread.received
      /\ run[r].reply.kind # "wait" => r \in thread.outbound
      /\ {call \in executed : call.run = r /\ ~IsReaction(call)} \subseteq thread.completed

\* The thread tells what was done: nothing is executed that it does not know
\* of, and nothing is reported as done that it does not hold.
ThreadTellsTruth == RequestedFirst /\ OutcomeRecorded

\* As long as runs follow one another and nothing fails, a reaction is
\* executed once for what it reacts to, across all runs of the thread.
ReactsOnce ==
    quiet => \A c, d \in executed : IsReaction(c) /\ c.fact = d.fact => c = d

\* Nothing is executed twice: no operation, no check, no reaction.
NothingRunsTwice == ExecutedOnce /\ []ReactsOnce

\* A difference that compaction leaves alone: not in a message of the user,
\* which may be dropped, and not large, which would be shortened.
Durable(version) == Placed[version] # "user" /\ DiffSize[version] <= LargeItem

\* As long as runs follow one another and nothing fails, the newest context
\* diff in the transcript the model is sent is the context the run rendered,
\* in the step that found the context changed and, when the diff is one that
\* compaction leaves alone, in every step after it: the records tell later
\* steps and runs that nothing changed, so they do not send it again.
ContextReachesModel ==
    quiet => \A r \in Runs : run[r].pc = "model" =>
      LET sent  == Projected(r)
          diffs == {i \in DOMAIN sent : sent[i].context # 0}
      IN  (Durable(run[r].rendered) \/ run[r].records # run[r].rendered) =>
            diffs # {} /\ sent[Max(diffs)].context = run[r].rendered

\* Every input is answered: its run ends, and as no input is received twice,
\* there comes a moment from which on no run is under way.
EveryInputReturns == <>[](\A r \in Runs : run[r].pc \in {"idle", "done"})
=============================================================================
