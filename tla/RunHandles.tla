---------------------------- MODULE RunHandles ----------------------------
(***************************************************************************)
(* A run from its submission to its end: the run handle of the direct      *)
(* channel (adapters/channels/direct), the handler of the harness that     *)
(* executes it and publishes its events, the fan-out of Subscriptions and  *)
(* the forwarder that filters the run's events into the handle.  Runs of   *)
(* one thread, an observer of the same thread and a background task that   *)
(* calls PublishRuntimeEvent are concurrent.                               *)
(*                                                                         *)
(* The readers of run handles are under no obligation: they read when they *)
(* like.  The contexts of a run and of an observer may end at any time.    *)
(***************************************************************************)
EXTENDS Subscriptions

CONSTANTS
    Runs,           \* run handles; a run's subscription has its name
    Observers,      \* other subscriptions of the thread
    Background,     \* the background task
    MaxEmits,       \* bound: events of one session, or of the background task
    MaxFaults       \* bound: failing persistence of a runtime event

ASSUME RunAssumption ==
    /\ Publishers = Runs \union {Background} /\ Background \notin Runs
    /\ Subs = Runs \union Observers /\ AllSubs \subseteq Observers
    /\ Runs \intersect Observers = {}
    /\ MaxEmits \in Nat /\ MaxFaults \in Nat

VARIABLES
    stage,          \* stage[r]: where runHandle.execute and its handler stand
    emits,          \* emits[p]: events the session, or the task, has emitted
    failures,       \* failures[r]: runtimeEventPersistenceFailures.err is set
    forwarder,      \* forwarder[r]: what forwardRunEvents does
    carried,        \* carried[r]: the event it emits, if any
    unread,         \* unread[r]: number of events in the channel of the handle
    stream,         \* stream[r]: what was put into it: how many, the last, the terminal ones
    result, doneClosed, eventsClosed,   \* see RunContract
    ctxDone,        \* ctxDone[r]: the context of the run has ended
    lost,           \* lost[r]: an event was given up on after its timeout
    faults

handleVars == <<stage, emits, failures, forwarder, carried, unread, stream, result,
                doneClosed, eventsClosed, ctxDone, lost, faults>>
vars == <<subVars, handleVars>>

Contract == INSTANCE RunContract

Terminal == {"RunCompleted", "RunFailed"}
AllKinds == Terminal \union {"received", "emitted", "completed", "outbound"}

Init ==
    /\ SubInit
    /\ stage = [r \in Runs |-> "new"]
    /\ emits = [p \in Publishers |-> 0]
    /\ failures = [r \in Runs |-> FALSE]
    /\ forwarder = [r \in Runs |-> "none"]
    /\ carried = [r \in Runs |-> << >>]
    /\ unread = [r \in Runs |-> 0]
    /\ stream = [r \in Runs |-> [size |-> 0, last |-> Event(r, 0, ""), terminal |-> {}]]
    /\ result = [r \in Runs |-> "none"]
    /\ doneClosed = [r \in Runs |-> FALSE]
    /\ eventsClosed = [r \in Runs |-> FALSE]
    /\ ctxDone = [r \in Runs |-> FALSE]
    /\ lost = [r \in Runs |-> FALSE]
    /\ faults = 0

Stage(r, from, to) == stage[r] = from /\ stage' = [stage EXCEPT ![r] = to]
Rest == <<emits, failures, forwarder, carried, unread, stream, result, doneClosed, eventsClosed,
          ctxDone, lost, faults>>

-----------------------------------------------------------------------------
(* The handlers of the harness.  Each step waits for the publication       *)
(* before it.                                                              *)

(* execute subscribes, without replay, and starts the forwarder.           *)
ExecuteSubscribes(r) ==
    /\ Stage(r, "new", "call")
    /\ Subscribe(r)
    /\ forwarder' = [forwarder EXCEPT ![r] = "waiting"]
    /\ UNCHANGED <<emits, failures, carried, unread, stream, result, doneClosed, eventsClosed,
                   ctxDone, lost, faults>>

(* r.fail: the result, then the RunFailed event of the handle itself.      *)
Fail(r) ==
    /\ result' = [result EXCEPT ![r] = "failed"]
    /\ UNCHANGED <<subVars, emits, failures, forwarder, carried, unread, stream, doneClosed,
                   eventsClosed, ctxDone, lost, faults>>

(* HandleSessionInbound refuses the inbound before a handler is chosen.    *)
HandleSessionInbound_Refuses(r) ==
    /\ Stage(r, "call", "failing") /\ Fail(r)

(* SubmissionReceived.  What kind of submission it is is left open until a *)
(* handler depends on it; an input passes through agentForSession.         *)
Received(r) ==
    /\ Stage(r, "call", "agent") \/ Stage(r, "call", "session")
    /\ Publish(r, "received")
    /\ UNCHANGED Rest

(* agentForSession, for inputs only, finds the agent or fails.             *)
agentForSession(r) ==
    /\ ~Publishing(r)
    /\ \/ Stage(r, "agent", "session") /\ UNCHANGED <<subVars, Rest>>
       \/ Stage(r, "agent", "failing") /\ Fail(r)

(* runtimeEventSinkWithFailures: an event is published, after it was       *)
(* persisted if it is of that sort; a failure to persist it is recorded    *)
(* and a RunFailed is published in its place.  The session goes on.        *)
EmitEvent(r) ==
    /\ stage[r] = "session" /\ ~Publishing(r) /\ emits[r] < MaxEmits
    /\ emits' = [emits EXCEPT ![r] = @ + 1]
    /\ Publish(r, "emitted")
    /\ UNCHANGED <<stage, failures, forwarder, carried, unread, stream, result, doneClosed,
                   eventsClosed, ctxDone, lost, faults>>

PersistenceFails(r) ==
    /\ stage[r] = "session" /\ ~Publishing(r) /\ emits[r] < MaxEmits
    /\ faults < MaxFaults
    /\ faults' = faults + 1
    /\ emits' = [emits EXCEPT ![r] = @ + 1]
    /\ failures' = [failures EXCEPT ![r] = TRUE]
    /\ Publish(r, "RunFailed")
    /\ UNCHANGED <<stage, forwarder, carried, unread, stream, result, doneClosed, eventsClosed,
                   ctxDone, lost>>

(* The session returned and a failure was recorded: no RunCompleted.       *)
SessionFailed(r) ==
    /\ ~Publishing(r) /\ failures[r]
    /\ Stage(r, "session", "failing") /\ Fail(r)

(* The session returned: what the handlers publish before RunCompleted.    *)
HandlerPublishes(r, k, next) ==
    /\ ~Publishing(r) /\ ~failures[r]
    /\ Stage(r, "session", next)
    /\ Publish(r, k)
    /\ UNCHANGED Rest

handleInput(r) == HandlerPublishes(r, "completed", "outbound")
handleCommand(r) == HandlerPublishes(r, "completed", "outbound")
handleTrigger(r) == HandlerPublishes(r, "completed", "complete")
handleOperation(r) ==
    /\ ~Publishing(r) /\ ~failures[r]
    /\ Stage(r, "session", "outbound")
    /\ UNCHANGED <<subVars, Rest>>

(* An outbound message, if there is one.                                   *)
Outbound(r) ==
    /\ ~Publishing(r)
    /\ Stage(r, "outbound", "complete")
    /\ Publish(r, "outbound") \/ UNCHANGED subVars
    /\ UNCHANGED Rest

Completed(r) ==
    /\ ~Publishing(r)
    /\ Stage(r, "complete", "returned")
    /\ Publish(r, "RunCompleted")
    /\ UNCHANGED Rest

-----------------------------------------------------------------------------
(* The end of execute.                                                     *)

(* Mutant: the result is left for later.                                   *)
SetResult_Forgotten(r) ==
    /\ ~Publishing(r)
    /\ Stage(r, "returned", "succeeded")
    /\ UNCHANGED <<subVars, Rest>>

SetResult(r) ==
    /\ ~Publishing(r)
    /\ Stage(r, "returned", "succeeded")
    /\ result' = [result EXCEPT ![r] = "ok"]
    /\ UNCHANGED <<subVars, emits, failures, forwarder, carried, unread, stream, doneClosed,
                   eventsClosed, ctxDone, lost, faults>>

CloseDone(r, from, to) ==
    /\ Stage(r, from, to)
    /\ doneClosed' = [doneClosed EXCEPT ![r] = TRUE]
    /\ UNCHANGED <<subVars, emits, failures, forwarder, carried, unread, stream, result,
                   eventsClosed, ctxDone, lost, faults>>

(* waitForRunEventForwarding: the forwarder has ended, or the grace period *)
(* is over and the subscription is cancelled.                              *)
GraceExpires(r) ==
    /\ stage[r] = "draining" /\ forwarder[r] # "ended"
    /\ Stage(r, "draining", "cancelled")
    /\ Cancel(r)
    /\ lost' = [lost EXCEPT ![r] = TRUE]
    /\ UNCHANGED <<queue, ch, chClosed, publishing, count, got,
                   emits, failures, forwarder, carried, unread, stream, result, doneClosed,
                   eventsClosed, ctxDone, faults>>

(* emit: into the channel of the handle, or given up after a second in     *)
(* which the client made no room.                                          *)
Emit(r, e) ==
    /\ unread[r] < Buffer
    /\ unread' = [unread EXCEPT ![r] = @ + 1]
    /\ stream' = [stream EXCEPT ![r] = [size |-> @.size + 1, last |-> e,
                                        terminal |-> @.terminal \union ({e.kind} \intersect Terminal)]]
    /\ UNCHANGED lost
EmitTimesOut(r) ==
    /\ unread[r] = Buffer
    /\ lost' = [lost EXCEPT ![r] = TRUE]
    /\ UNCHANGED <<unread, stream>>

(* The handle's own RunFailed.                                             *)
FailEmits(r) ==
    /\ Stage(r, "failing", "cancel")
    /\ Emit(r, Event(r, count[r] + 1, "RunFailed")) \/ EmitTimesOut(r)
    /\ UNCHANGED <<subVars, emits, failures, forwarder, carried, result, doneClosed,
                   eventsClosed, ctxDone, faults>>

CancelSubscription(r) ==
    /\ Stage(r, "cancel", "cancelled")
    /\ Cancel(r)
    /\ UNCHANGED <<queue, ch, chClosed, publishing, count, got,
                   Rest>>

(* Mutant: the events channel is closed although the forwarder may still   *)
(* be emitting.                                                            *)
CloseEvents_Early(r) ==
    /\ \/ Stage(r, "draining", "over")
       \/ Stage(r, "cancelled", IF result[r] = "ok" THEN "over" ELSE "closing")
    /\ Abandon(r)
    /\ eventsClosed' = [eventsClosed EXCEPT ![r] = TRUE]
    /\ UNCHANGED <<emits, failures, forwarder, carried, unread, stream, result, doneClosed,
                   ctxDone, lost, faults>>

(* The forwarder has ended; the events channel is closed.                  *)
CloseEvents(r) ==
    /\ forwarder[r] = "ended"
    /\ \/ Stage(r, "draining", "over")
       \/ Stage(r, "cancelled", IF result[r] = "ok" THEN "over" ELSE "closing")
    /\ Abandon(r)
    /\ eventsClosed' = [eventsClosed EXCEPT ![r] = TRUE]
    /\ UNCHANGED <<emits, failures, forwarder, carried, unread, stream, result, doneClosed,
                   ctxDone, lost, faults>>

-----------------------------------------------------------------------------
(* forwardRunEvents.                                                       *)

ForwardTakes(r) ==
    /\ forwarder[r] = "waiting" /\ Receive(r)
    /\ IF Head(ch[r]).by = r
       THEN /\ forwarder' = [forwarder EXCEPT ![r] = "emitting"]
            /\ carried' = [carried EXCEPT ![r] = <<Head(ch[r])>>]
       ELSE UNCHANGED <<forwarder, carried>>
    /\ UNCHANGED <<stage, emits, failures, unread, stream, result, doneClosed, eventsClosed,
                   ctxDone, lost, faults>>

(* The channel is closed and empty.                                        *)
ForwardStops(r) ==
    /\ forwarder[r] = "waiting" /\ chClosed[r] /\ ch[r] = << >>
    /\ forwarder' = [forwarder EXCEPT ![r] = "ended"]
    /\ UNCHANGED <<subVars, stage, emits, failures, carried, unread, stream, result, doneClosed,
                   eventsClosed, ctxDone, lost, faults>>

(* Mutant: the outbound message is taken for the end of the run.           *)
Forwarded_Outbound(r) ==
    /\ forwarder' = [forwarder EXCEPT
           ![r] = IF carried[r][1].kind \in Terminal \union {"outbound"} THEN "ended"
                  ELSE "waiting"]
    /\ carried' = [carried EXCEPT ![r] = << >>]

Forwarded(r) ==
    /\ forwarder' = [forwarder EXCEPT ![r] = IF carried[r][1].kind \in Terminal THEN "ended"
                                             ELSE "waiting"]
    /\ carried' = [carried EXCEPT ![r] = << >>]

ForwardEmits(r) ==
    /\ forwarder[r] = "emitting" /\ Emit(r, carried[r][1])
    /\ Forwarded(r)
    /\ UNCHANGED <<subVars, stage, emits, failures, result, doneClosed, eventsClosed,
                   ctxDone, faults>>

(* Mutant: emit waits for the client.                                      *)
ForwardTimesOut_Never(r) == forwarder[r] = "" /\ UNCHANGED vars

ForwardTimesOut(r) ==
    /\ forwarder[r] = "emitting" /\ EmitTimesOut(r)
    /\ Forwarded(r)
    /\ UNCHANGED <<subVars, stage, emits, failures, result, doneClosed, eventsClosed,
                   ctxDone, faults>>

-----------------------------------------------------------------------------
(* Clients, observers, contexts and the background task.                   *)

(* The client of a run reads an event.                                     *)
ReadEvent(r) ==
    /\ unread[r] > 0
    /\ unread' = [unread EXCEPT ![r] = @ - 1]
    /\ UNCHANGED <<subVars, stage, emits, failures, forwarder, carried, stream, result,
                   doneClosed, eventsClosed, ctxDone, lost, faults>>

(* The context of a run ends: its subscription is cancelled.               *)
ContextEnds(r) ==
    /\ ~ctxDone[r] /\ r \in subscribers
    /\ ctxDone' = [ctxDone EXCEPT ![r] = TRUE]
    /\ Cancel(r)
    /\ UNCHANGED <<queue, ch, chClosed, publishing, count, got,
                   stage, emits, failures, forwarder, carried, unread, stream, result,
                   doneClosed, eventsClosed, lost, faults>>

ObserverSubscribes(o) == Subscribe(o) /\ UNCHANGED handleVars
ObserverReceives(o) == o \in subscribers /\ Receive(o) /\ UNCHANGED handleVars
ObserverCancels(o) == o \in subscribers /\ Abandon(o) /\ UNCHANGED handleVars

(* PublishRuntimeEvent: persisted, then published; nothing when that fails.*)
PublishRuntimeEvent ==
    /\ ~Publishing(Background) /\ emits[Background] < 1
    /\ emits' = [emits EXCEPT ![Background] = @ + 1]
    /\ Publish(Background, "emitted")
    /\ UNCHANGED <<stage, failures, forwarder, carried, unread, stream, result, doneClosed,
                   eventsClosed, ctxDone, lost, faults>>

-----------------------------------------------------------------------------
Handler(r) ==
    \/ HandleSessionInbound_Refuses(r)
    \/ Received(r)
    \/ agentForSession(r)
    \/ EmitEvent(r)
    \/ PersistenceFails(r)
    \/ SessionFailed(r)
    \/ handleInput(r)
    \/ handleCommand(r)
    \/ handleTrigger(r)
    \/ handleOperation(r)
    \/ Outbound(r)
    \/ Completed(r)

Execute(r) ==
    \/ ExecuteSubscribes(r)
    \/ Handler(r)
    \/ SetResult(r)
    \/ CloseDone(r, "succeeded", "draining")
    \/ GraceExpires(r)
    \/ FailEmits(r)
    \/ CancelSubscription(r)
    \/ CloseEvents(r)
    \/ CloseDone(r, "closing", "over")

Forward(r) == ForwardTakes(r) \/ ForwardStops(r) \/ ForwardEmits(r) \/ ForwardTimesOut(r)

FanOutStep == FanOut /\ UNCHANGED handleVars

Next ==
    \/ FanOutStep
    \/ PublishRuntimeEvent
    \/ \E r \in Runs : Execute(r) \/ Forward(r) \/ ReadEvent(r) \/ ContextEnds(r)
    \/ \E o \in Observers : ObserverSubscribes(o) \/ ObserverReceives(o) \/ ObserverCancels(o)

(* Goroutines that can go on do so, and observers that have events read    *)
(* them or cancel.  The session of a run returns: its steps are fair.      *)
(* Nothing is assumed of the clients of the runs and of contexts.          *)
Fairness ==
    /\ WF_vars(FanOutStep)
    /\ \A r \in Runs : WF_vars(Execute(r)) /\ WF_vars(Forward(r))
    /\ \A o \in Observers : WF_vars(ObserverReceives(o))

Spec == Init /\ [][Next]_vars
FairSpec == Spec /\ Fairness

-----------------------------------------------------------------------------
(* Properties.                                                             *)

(* Every variable has its type and queues respect their capacity.          *)
TypeOK ==
    /\ subscribers \subseteq Subs
    /\ \A s \in Subs : Len(queue[s]) <= Buffer /\ Len(ch[s]) <= Buffer
    /\ \A r \in Runs : /\ unread[r] \in 0 .. Buffer
                       /\ result[r] \in {"none", "ok", "failed"}
                       /\ forwarder[r] \in {"none", "waiting", "emitting", "ended"}
                       /\ forwarder[r] = "emitting" <=> carried[r] # << >>
    /\ faults \in 0 .. MaxFaults

(* Nobody sends on the events channel of a handle once it is closed, and   *)
(* no goroutine of the run is left behind when both channels are closed.   *)
NoEmitAfterClose ==
    \A r \in Runs : eventsClosed[r] => forwarder[r] = "ended" /\ r \notin subscribers

(* What the client of a run reads is of that run and in the order of       *)
(* publication; only the RunFailed that the handle adds itself may         *)
(* overtake events that are still on their way.                            *)
StreamInOrder ==
    \A r \in Runs :
        stream'[r] # stream[r] =>
            /\ stream'[r].last.by = r
            /\ "RunFailed" \in stream[r].terminal \/ stream'[r].last.n > stream[r].last.n

(* The terminal event agrees with the result: a run that completed is      *)
(* never reported as failed, nor one that failed as completed, also when   *)
(* persisting one of its events failed half-way.                           *)
TerminalAgrees ==
    \A r \in Runs : /\ "RunCompleted" \in stream[r].terminal => result[r] # "failed"
                    /\ "RunFailed" \in stream[r].terminal => result[r] # "ok"

(* The client of a successful run that keeps up and does not give up gets  *)
(* every event of the run, RunCompleted at the end: Done is closed before  *)
(* the forwarder has caught up, the events channel only after it.          *)
StreamIsComplete ==
    \A r \in Runs :
        result[r] = "ok" /\ eventsClosed[r] /\ ~lost[r] /\ ~ctxDone[r] =>
            stream[r].size = count[r] /\ stream[r].last.kind = "RunCompleted"

(* What the client of a run reads is what the run did: its events in their *)
(* order, all of them when it succeeded, with the outcome Wait returns.    *)
StreamIsFaithful == [][StreamInOrder /\ TerminalAgrees' /\ StreamIsComplete']_vars

(* The handle is what the client interface promises.                       *)
ImplementsContract == Contract!Spec

(* Every run ends: both channels of its handle are closed at some time,    *)
(* although its client may never read, and observers and the background    *)
(* task get in between.  A run whose events could not be persisted is      *)
(* exempt: its forwarder returns at RunFailed while its subscription stays *)
(* registered, and the run's later publications may fill it and wait.      *)
EveryRunEnds == \A r \in Runs : <>(failures[r] \/ (doneClosed[r] /\ eventsClosed[r]))
=============================================================================
