--------------------------- MODULE NatsEventStore ---------------------------
(***************************************************************************)
(* adapters/storage/event/nats: an event store kept as one JetStream log.  *)
(* Every batch is one message.  Each Store instance (a process, or one of  *)
(* several in a process) holds a mutex around a projection of the log it   *)
(* has replayed so far, prepares a batch against that projection and       *)
(* publishes it with the expected last sequence of the log.                *)
(*                                                                         *)
(* The mutex makes the calls of one instance sequential, so an instance    *)
(* has one call in flight; calls of different instances interleave at      *)
(* every request to the server.  A request may fail, the answer to a       *)
(* publish may be lost after the server stored the message, and a process  *)
(* may restart at any point.                                               *)
(***************************************************************************)
EXTENDS Naturals, Sequences

CONSTANTS
    Stores,         \* Store instances on the same JetStream stream
    Streams, Ids, Batches,      \* as in EventLog
    MaxAppendRetries,           \* Config.MaxAppendRetries, resolved
    KeepsNewest,    \* TRUE: the retention limits never discard the last message
    MaxLog,         \* bound: messages in the log
    MaxCalls,       \* bound: calls started
    MaxFirst        \* bound: first retained sequence of the log

VARIABLES
    log,        \* the JetStream stream: log[n] is the message with sequence n
    first,      \* FirstSeq: messages below it were discarded by a retention limit
    project,    \* project[c]: the projection of instance c
    call,       \* call[c]: the call in flight, with its arguments
    pc,         \* pc[c]: where that call stands
    attempt,    \* attempt[c]: the loop counter of AppendBatch
    target,     \* target[c]: the last sequence the server reported to c
    calls,      \* number of calls started
    history,    \* auxiliary: history[n + 1] is the streams after n messages
    reply       \* auxiliary: reply[c] is the outcome of the last call of c

vars == <<log, first, project, call, pc, attempt, target, calls, history, reply>>

EL == INSTANCE EventLog WITH streams <- history[Len(history)]

ASSUME StoreAssumption == /\ MaxAppendRetries \in Nat \ {0}
                          /\ MaxLog \in Nat /\ MaxCalls \in Nat /\ MaxFirst \in Nat
                          /\ KeepsNewest \in BOOLEAN
                          /\ \A b \in Batches : EL!IsBatch(b)

(* One message: the numbered records of a batch, or something published    *)
(* on another subject of the same JetStream stream.                        *)
Foreign == [foreign |-> TRUE, results |-> << >>]
Message(st, b) ==
    [foreign |-> FALSE,
     results |-> [s \in DOMAIN b |-> EL!Numbered(Len(st[s]), b[s].ids)]]

emptyProjection(loaded) == [loaded |-> loaded, lastSeq |-> 0, expectedNext |-> 1,
                            streams |-> EL!EmptyStreams, ids |-> {}]
newProjection == emptyProjection(FALSE)

NoCall == [kind |-> "none"]
AppendCall(b) == [kind |-> "append", batch |-> b]
LoadCall(s, n) == [kind |-> "load", stream |-> s, since |-> n]
NoReply == [outcome |-> "none"]

(* The projection after the results of message n.                          *)
applyResults(p, m, n) ==
    [loaded |-> p.loaded, lastSeq |-> n, expectedNext |-> n + 1,
     streams |-> [s \in Streams |-> IF s \in DOMAIN m.results
                                    THEN p.streams[s] \o m.results[s] ELSE p.streams[s]],
     ids |-> p.ids \union UNION {EL!IdsOf(m.results[s]) : s \in DOMAIN m.results}]

(* Mutant: the record identifiers are not checked.                         *)
preconditionHolds_IgnoresIds(p, b) ==
    \A s \in DOMAIN b : b[s].check => b[s].expected = Len(p.streams[s])

(* What preconditionError accepts: no expected sequence differs and no     *)
(* record identifier is known.                                             *)
preconditionHolds(p, b) ==
    \A s \in DOMAIN b :
        /\ b[s].check => b[s].expected = Len(p.streams[s])
        /\ \A i \in DOMAIN b[s].ids : b[s].ids[i] \notin p.ids

Init ==
    /\ log = << >>
    /\ first = 1
    /\ project = [c \in Stores |-> newProjection]
    /\ call = [c \in Stores |-> NoCall]
    /\ pc = [c \in Stores |-> "idle"]
    /\ attempt = [c \in Stores |-> 0]
    /\ target = [c \in Stores |-> 0]
    /\ calls = 0
    /\ history = <<EL!EmptyStreams>>
    /\ reply = [c \in Stores |-> NoReply]

-----------------------------------------------------------------------------
(* The calls.                                                              *)

Goto(c, l) == pc' = [pc EXCEPT ![c] = l]

(* The call of c returns with outcome r; the deferred unlock frees c.      *)
Return(c, r) ==
    /\ Goto(c, "idle")
    /\ call' = [call EXCEPT ![c] = NoCall]
    /\ reply' = [reply EXCEPT ![c] = r]

Begin(c, k) ==
    /\ pc[c] = "idle" /\ calls < MaxCalls
    /\ calls' = calls + 1
    /\ Goto(c, "sync")
    /\ call' = [call EXCEPT ![c] = k]
    /\ attempt' = [attempt EXCEPT ![c] = 0]
    /\ reply' = [reply EXCEPT ![c] = NoReply]
    /\ UNCHANGED <<log, first, project, target, history>>

(* AppendBatch up to the lock; normalizeRequests refuses a batch that      *)
(* repeats a record identifier before the store is touched.                *)
BeginAppend(c, b) == EL!DistinctIds(b) /\ Begin(c, AppendCall(b))

BeginLoad(c, s) == Begin(c, LoadCall(s, Len(log)))

(* Mutant: a loaded projection is taken to be current.                     *)
Sync_Cached(c) ==
    /\ pc[c] = "sync"
    /\ IF project[c].loaded
       THEN Goto(c, "replay") /\ target' = [target EXCEPT ![c] = project[c].lastSeq]
       ELSE Goto(c, "reload") /\ UNCHANGED target
    /\ UNCHANGED <<log, first, project, call, attempt, calls, history, reply>>

(* syncProjection: an instance that never loaded the log reloads it, the   *)
(* others ask for the last sequence and replay what is new.                *)
Sync(c) ==
    /\ pc[c] = "sync"
    /\ IF project[c].loaded
       THEN Goto(c, "replay") /\ target' = [target EXCEPT ![c] = Len(log)]
       ELSE Goto(c, "reload") /\ UNCHANGED target
    /\ UNCHANGED <<log, first, project, call, attempt, calls, history, reply>>

(* reloadProjection, from the stream info it reads: an empty stream loads  *)
(* as an empty projection, a truncated one is an error, and the projection *)
(* is marked loaded in each case.                                          *)
Reload(c, from, to) ==
    /\ pc[c] = from
    /\ project' = [project EXCEPT ![c] = emptyProjection(TRUE)]
    /\ \/ /\ first > Len(log) \/ first = 1
          /\ target' = [target EXCEPT ![c] = IF first > Len(log) THEN 0 ELSE Len(log)]
          /\ Goto(c, to)
          /\ UNCHANGED <<call, reply>>
       \/ /\ first <= Len(log) /\ first # 1
          /\ Return(c, [outcome |-> "error"])
          /\ UNCHANGED target
    /\ UNCHANGED <<log, first, attempt, calls, history>>

(* One iteration of replayRange: fetch the next message and apply it.      *)
Replay(c) ==
    LET n == project[c].lastSeq + 1 IN
    /\ pc[c] \in {"replay", "replayAgain"}
    /\ n <= target[c]
    /\ \/ /\ n = project[c].expectedNext /\ n >= first
          /\ project' = [project EXCEPT ![c] = applyResults(@, log[n], n)]
          /\ UNCHANGED <<pc, call, reply>>
       \/ /\ n # project[c].expectedNext \/ n < first
          /\ Return(c, [outcome |-> "error"])
          /\ UNCHANGED project
    /\ UNCHANGED <<log, first, attempt, target, calls, history>>

Replayed(c, from) == pc[c] = from /\ project[c].lastSeq >= target[c]

(* Load answers from the projection.                                       *)
AnswerLoad(c) ==
    /\ Replayed(c, "replay") /\ call[c].kind = "load"
    /\ Return(c, [outcome |-> "loaded", stream |-> call[c].stream,
                  since |-> call[c].since,
                  records |-> project[c].streams[call[c].stream]])
    /\ UNCHANGED <<log, first, project, attempt, target, calls, history>>

(* prepareResults.                                                         *)
Prepare(c) ==
    /\ Replayed(c, "replay") /\ call[c].kind = "append"
    /\ \/ /\ preconditionHolds(project[c], call[c].batch)
          /\ Goto(c, "publish")
          /\ UNCHANGED <<call, reply>>
       \/ /\ ~preconditionHolds(project[c], call[c].batch)
          /\ Return(c, [outcome |-> "rejected"])
    /\ UNCHANGED <<log, first, project, attempt, target, calls, history>>

(* Mutant: a publish without the expected last sequence.                   *)
Publish_Unconditional(c) ==
    /\ pc[c] = "publish"
    /\ Len(log) < MaxLog
    /\ log' = Append(log, Message(project[c].streams, call[c].batch))
    /\ history' = Append(history, EL!Extend(history[Len(history)], call[c].batch))
    /\ target' = [target EXCEPT ![c] = Len(log) + 1]
    /\ Goto(c, "ack")
    /\ UNCHANGED <<first, project, call, attempt, calls, reply>>

(* The server handles a publish: it stores the message only if the log     *)
(* still ends where the instance says it does.                             *)
Publish(c) ==
    /\ pc[c] = "publish"
    /\ \/ /\ project[c].lastSeq = Len(log)
          /\ Len(log) < MaxLog
          /\ log' = Append(log, Message(project[c].streams, call[c].batch))
          /\ history' = Append(history, EL!Extend(project[c].streams, call[c].batch))
          /\ target' = [target EXCEPT ![c] = Len(log) + 1]
          /\ Goto(c, "ack")
       \/ /\ project[c].lastSeq # Len(log)
          /\ Goto(c, "reloadAgain")
          /\ UNCHANGED <<log, history, target>>
    /\ UNCHANGED <<first, project, call, attempt, calls, reply>>

(* Mutant: the acknowledged sequence is recorded, the results are not.     *)
Acknowledge_SkipsResults(c) ==
    /\ pc[c] = "ack"
    /\ project' = [project EXCEPT ![c].lastSeq = target[c], ![c].expectedNext = target[c] + 1]
    /\ Return(c, [outcome |-> "appended", sequence |-> target[c],
                  batch |-> call[c].batch])
    /\ UNCHANGED <<log, first, attempt, target, calls, history>>

(* The acknowledgement arrives: the instance applies its own results.      *)
Acknowledge(c) ==
    /\ pc[c] = "ack"
    /\ project' = [project EXCEPT ![c] =
                     applyResults(@, Message(@.streams, call[c].batch), target[c])]
    /\ Return(c, [outcome |-> "appended", sequence |-> target[c],
                  batch |-> call[c].batch])
    /\ UNCHANGED <<log, first, attempt, target, calls, history>>

(* Mutant: one attempt too many.                                           *)
Recheck_OffByOne(c) ==
    /\ Replayed(c, "replayAgain")
    /\ attempt' = [attempt EXCEPT ![c] = @ + 1]
    /\ IF preconditionHolds(project[c], call[c].batch) /\ attempt[c] < MaxAppendRetries
       THEN Goto(c, "sync") /\ UNCHANGED <<call, reply>>
       ELSE Return(c, [outcome |-> "rejected"])
    /\ UNCHANGED <<log, first, project, target, calls, history>>

(* After a wrong-last-sequence error and the reload: check the precondition*)
(* on the new history, then try again while attempts remain.               *)
Recheck(c) ==
    /\ Replayed(c, "replayAgain")
    /\ attempt' = [attempt EXCEPT ![c] = @ + 1]
    /\ \/ /\ ~preconditionHolds(project[c], call[c].batch)
          /\ Return(c, [outcome |-> "rejected"])
       \/ /\ preconditionHolds(project[c], call[c].batch)
          /\ attempt[c] + 1 < MaxAppendRetries
          /\ Goto(c, "sync")
          /\ UNCHANGED <<call, reply>>
       \/ /\ preconditionHolds(project[c], call[c].batch)
          /\ attempt[c] + 1 >= MaxAppendRetries
          /\ Return(c, [outcome |-> "error"])
    /\ UNCHANGED <<log, first, project, target, calls, history>>

(* A request to the server fails, or its answer is lost: the call returns  *)
(* the error.  reloadProjection has dropped the old projection by then.    *)
RequestFails(c) ==
    /\ pc[c] \in {"sync", "reload", "reloadAgain", "replay", "replayAgain", "publish", "ack"}
    /\ project' = [project EXCEPT ![c] = IF pc[c] \in {"reload", "reloadAgain"}
                                         THEN newProjection ELSE @]
    /\ Return(c, [outcome |-> "error"])
    /\ UNCHANGED <<log, first, attempt, target, calls, history>>

(* The process of c stops and a new Store instance is opened.              *)
Restart(c) ==
    /\ project' = [project EXCEPT ![c] = newProjection]
    /\ Return(c, NoReply)
    /\ UNCHANGED <<log, first, attempt, target, calls, history>>

-----------------------------------------------------------------------------
(* The server, apart from the requests above.                              *)

PublishForeign ==
    /\ Len(log) < MaxLog
    /\ log' = Append(log, Foreign)
    /\ history' = Append(history, history[Len(history)])
    /\ UNCHANGED <<first, project, call, pc, attempt, target, calls, reply>>

Discard ==
    /\ first < MaxFirst
    /\ IF KeepsNewest THEN first < Len(log) ELSE first <= Len(log)
    /\ first' = first + 1
    /\ UNCHANGED <<log, project, call, pc, attempt, target, calls, history, reply>>

StoreStep(c) ==
    \/ Sync(c)
    \/ Reload(c, "reload", "replay") \/ Reload(c, "reloadAgain", "replayAgain")
    \/ Replay(c) \/ AnswerLoad(c) \/ Prepare(c) \/ Publish(c) \/ Acknowledge(c)
    \/ Recheck(c)

Next ==
    \/ \E c \in Stores : \/ \E b \in Batches : BeginAppend(c, b)
                         \/ \E s \in Streams : BeginLoad(c, s)
                         \/ StoreStep(c)
                         \/ RequestFails(c)
                         \/ Restart(c)
    \/ PublishForeign
    \/ Discard

Spec == Init /\ [][Next]_vars

-----------------------------------------------------------------------------
(* Properties.                                                             *)

(* Types; the loop counter of AppendBatch stays within its limit.          *)
TypeOK ==
    /\ first \in Nat \ {0}
    /\ calls \in Nat
    /\ attempt \in [Stores -> 0 .. MaxAppendRetries]
    /\ target \in [Stores -> 0 .. Len(log)]
    /\ pc \in [Stores -> {"idle", "sync", "reload", "reloadAgain", "replay",
                          "replayAgain", "publish", "ack"}]

(* Every instance's projection is exactly the streams after the messages   *)
(* it says it has applied, whatever was appended, lost, retried or         *)
(* discarded meanwhile: replay from the server and applying the own        *)
(* acknowledged results agree.                                             *)
ProjectionIsReplay ==
    \A c \in Stores :
        /\ project[c].lastSeq \in 0 .. Len(log)
        /\ project[c].expectedNext = project[c].lastSeq + 1
        /\ project[c].streams = history[project[c].lastSeq + 1]
        /\ project[c].ids = EL!UsedIds(project[c].streams)

(* A Load returns the stream as it was at some moment between its call and *)
(* its return: it misses nothing that was stored before it started.        *)
LoadIsFresh ==
    \A c \in Stores : reply[c].outcome = "loaded" =>
        \E n \in reply[c].since .. Len(log) :
            reply[c].records = history[n + 1][reply[c].stream]

(* An acknowledged batch is in the log, at the place its expected          *)
(* sequences named, although the instance prepared it against a cached     *)
(* projection.                                                             *)
AcknowledgedIsStored ==
    \A c \in Stores : reply[c].outcome = "appended" =>
        LET n == reply[c].sequence
            b == reply[c].batch
        IN  /\ n \in 1 .. Len(log)
            /\ history[n + 1] = EL!Extend(history[n], b)
            /\ EL!ExpectedHolds(history[n], b)

(* The JetStream store implements the event log: every message stored is   *)
(* one atomic append whose expected sequences hold and whose record        *)
(* identifiers are new.                                                    *)
ImplementsEventLog == EL!Spec
=============================================================================
