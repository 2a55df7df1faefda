------------------------ MODULE NatsEventStoreProofs ------------------------
(***************************************************************************)
(* Proofs about NatsEventStore, for every set of instances, streams,       *)
(* identifiers and batches.                                                *)
(***************************************************************************)
EXTENDS NatsEventStore, TLAPS

(* The streams after message m, given the streams before it.               *)
After(st, m) == [s \in Streams |-> IF s \in DOMAIN m.results
                                   THEN st[s] \o m.results[s] ELSE st[s]]

StreamsType == [Streams -> Seq(EL!Record)]

MessageType == [foreign : BOOLEAN,
                results : UNION {[S -> Seq(EL!Record)] : S \in SUBSET Streams}]

ProjectionType == [loaded : BOOLEAN, lastSeq : Nat, expectedNext : Nat,
                   streams : StreamsType, ids : SUBSET Ids]

CallType == {NoCall} \union {AppendCall(b) : b \in Batches}
                     \union {LoadCall(s, n) : s \in Streams, n \in Nat}

(* The log and the auxiliary history tell the same story.                  *)
LogOK ==
    /\ log \in Seq(MessageType)
    /\ history \in Seq(StreamsType)
    /\ Len(history) = Len(log) + 1
    /\ history[1] = EL!EmptyStreams
    /\ \A n \in 1 .. Len(log) : history[n + 1] = After(history[n], log[n])

ProjectOK ==
    /\ project \in [Stores -> ProjectionType]
    /\ ProjectionIsReplay

(* What a call in flight has established: an append that is about to       *)
(* publish holds a batch its projection accepts; one that waits for the    *)
(* acknowledgement has it stored right after its projection.               *)
CallOK ==
    /\ call \in [Stores -> CallType]
    /\ \A c \in Stores :
        /\ pc[c] # "idle" => attempt[c] < MaxAppendRetries
        /\ call[c].kind = "append" => EL!DistinctIds(call[c].batch)
        /\ pc[c] \in {"publish", "ack"} =>
              /\ call[c].kind = "append"
              /\ preconditionHolds(project[c], call[c].batch)
        /\ pc[c] = "ack" =>
              /\ target[c] = project[c].lastSeq + 1
              /\ log[target[c]] = Message(project[c].streams, call[c].batch)

ReplyOK ==
    /\ reply = [c \in Stores |-> reply[c]]
    /\ AcknowledgedIsStored

IInv == TypeOK /\ LogOK /\ ProjectOK /\ CallOK /\ ReplyOK

-----------------------------------------------------------------------------
(* Facts about the operators.                                              *)

(* The identifiers of a concatenation are those of its parts.              *)
LEMMA IdsOfConcat ==
    ASSUME NEW p \in Seq(EL!Record), NEW q \in Seq(EL!Record)
    PROVE  EL!IdsOf(p \o q) = EL!IdsOf(p) \union EL!IdsOf(q)
<1>1. ASSUME NEW x \in EL!IdsOf(p \o q) PROVE x \in EL!IdsOf(p) \union EL!IdsOf(q)
  <2>1. PICK i \in 1 .. Len(p) + Len(q) : x = (p \o q)[i].id
    BY <1>1 DEF EL!IdsOf
  <2>2. CASE i <= Len(p)
    BY <2>1, <2>2 DEF EL!IdsOf
  <2>3. CASE i > Len(p)
    <3>1. i - Len(p) \in DOMAIN q /\ (p \o q)[i] = q[i - Len(p)]
      BY <2>1, <2>3
    <3> QED BY <2>1, <3>1 DEF EL!IdsOf
  <2> QED BY <2>2, <2>3
<1>2. ASSUME NEW x \in EL!IdsOf(p) PROVE x \in EL!IdsOf(p \o q)
  <2>1. PICK i \in 1 .. Len(p) : x = p[i].id
    BY <1>2 DEF EL!IdsOf
  <2>2. i \in DOMAIN (p \o q) /\ (p \o q)[i] = p[i]
    BY <2>1
  <2> QED BY <2>1, <2>2 DEF EL!IdsOf
<1>3. ASSUME NEW x \in EL!IdsOf(q) PROVE x \in EL!IdsOf(p \o q)
  <2>1. PICK i \in 1 .. Len(q) : x = q[i].id
    BY <1>3 DEF EL!IdsOf
  <2>2. Len(p) + i \in DOMAIN (p \o q) /\ (p \o q)[Len(p) + i] = q[i]
    BY <2>1
  <2> QED BY <2>1, <2>2 DEF EL!IdsOf
<1> QED BY <1>1, <1>2, <1>3

(* Numbering a batch yields records.                                       *)
LEMMA NumberedType ==
    ASSUME NEW n \in Nat, NEW ids \in Seq(Ids)
    PROVE  EL!Numbered(n, ids) \in Seq(EL!Record)
<1>1. \A i \in 1 .. Len(ids) : [sequence |-> n + i, id |-> ids[i]] \in EL!Record
  BY DEF EL!Record
<1> QED BY <1>1 DEF EL!Numbered

(* The message of a batch, applied, extends the streams by the batch.      *)
LEMMA MessageExtends ==
    ASSUME NEW st \in StreamsType, NEW b \in Batches
    PROVE  /\ Message(st, b) \in MessageType
           /\ After(st, Message(st, b)) = EL!Extend(st, b)
           /\ EL!Extend(st, b) \in StreamsType
<1>1. DOMAIN b \subseteq Streams /\ \A s \in DOMAIN b : b[s].ids \in Seq(Ids)
  BY StoreAssumption DEF EL!IsBatch, EL!Request
<1>2. \A s \in DOMAIN b : EL!Numbered(Len(st[s]), b[s].ids) \in Seq(EL!Record)
  BY <1>1, NumberedType DEF StreamsType
<1>3. [s \in DOMAIN b |-> EL!Numbered(Len(st[s]), b[s].ids)]
        \in [DOMAIN b -> Seq(EL!Record)]
  BY <1>2
<1>4. Message(st, b) \in MessageType
  BY <1>1, <1>3 DEF Message, MessageType
<1>5. /\ After(st, Message(st, b)) = EL!Extend(st, b)
      /\ EL!Extend(st, b) \in StreamsType
  BY <1>1, <1>2 DEF Message, After, EL!Extend, StreamsType
<1> QED BY <1>4, <1>5

(* Applying a message keeps the streams typed and adds its identifiers.    *)
LEMMA AfterType ==
    ASSUME NEW st \in StreamsType, NEW m \in MessageType
    PROVE  /\ After(st, m) \in StreamsType
           /\ EL!UsedIds(After(st, m)) =
                EL!UsedIds(st) \union UNION {EL!IdsOf(m.results[s]) : s \in DOMAIN m.results}
<1>1. /\ DOMAIN m.results \subseteq Streams
      /\ \A s \in DOMAIN m.results : m.results[s] \in Seq(EL!Record)
  BY DEF MessageType
<1>2. After(st, m) \in StreamsType
  BY <1>1 DEF After, StreamsType
<1>3. \A s \in DOMAIN m.results :
        EL!IdsOf(After(st, m)[s]) = EL!IdsOf(st[s]) \union EL!IdsOf(m.results[s])
  BY <1>1, IdsOfConcat DEF After, StreamsType
<1>4. \A s \in Streams \ DOMAIN m.results : EL!IdsOf(After(st, m)[s]) = EL!IdsOf(st[s])
  BY DEF After
<1>5. EL!UsedIds(After(st, m)) =
         EL!UsedIds(st) \union UNION {EL!IdsOf(m.results[s]) : s \in DOMAIN m.results}
  <2> DEFINE new == UNION {EL!IdsOf(m.results[s]) : s \in DOMAIN m.results}
  <2>1. ASSUME NEW x \in EL!UsedIds(After(st, m)) PROVE x \in EL!UsedIds(st) \union new
    <3>1. PICK s \in Streams : x \in EL!IdsOf(After(st, m)[s])
      BY <2>1 DEF EL!UsedIds
    <3>2. x \in EL!IdsOf(st[s]) \/ (s \in DOMAIN m.results /\ x \in EL!IdsOf(m.results[s]))
      BY <3>1, <1>3, <1>4
    <3> QED BY <3>2 DEF EL!UsedIds
  <2>2. EL!UsedIds(st) \subseteq EL!UsedIds(After(st, m))
    BY <1>3, <1>4 DEF EL!UsedIds
  <2>3. new \subseteq EL!UsedIds(After(st, m))
    BY <1>1, <1>3 DEF EL!UsedIds
  <2> QED BY <2>1, <2>2, <2>3
<1> QED BY <1>2, <1>5

(* The identifiers of typed streams are identifiers.                       *)
LEMMA UsedIdsType == ASSUME NEW st \in StreamsType PROVE EL!UsedIds(st) \subseteq Ids
<1>1. ASSUME NEW s \in Streams, NEW i \in DOMAIN st[s] PROVE st[s][i].id \in Ids
  <2>1. st[s] \in Seq(EL!Record)
    BY DEF StreamsType
  <2>2. st[s][i] \in EL!Record
    BY <2>1
  <2> QED BY <2>2 DEF EL!Record
<1> QED BY <1>1 DEF EL!UsedIds, EL!IdsOf

(* applyResults on a projection that is the replay of n - 1 messages.      *)
LEMMA ApplyResults ==
    ASSUME NEW p \in ProjectionType, NEW m \in MessageType, NEW n \in Nat,
           p.ids = EL!UsedIds(p.streams)
    PROVE  /\ applyResults(p, m, n) \in ProjectionType
           /\ applyResults(p, m, n).lastSeq = n
           /\ applyResults(p, m, n).expectedNext = n + 1
           /\ applyResults(p, m, n).streams = After(p.streams, m)
           /\ applyResults(p, m, n).ids = EL!UsedIds(applyResults(p, m, n).streams)
<1> DEFINE q == applyResults(p, m, n)
<1>1. p.streams \in StreamsType
  BY DEF ProjectionType
<1>2. /\ q.lastSeq = n /\ q.expectedNext = n + 1
      /\ q.streams = After(p.streams, m)
      /\ q.ids = p.ids \union UNION {EL!IdsOf(m.results[s]) : s \in DOMAIN m.results}
      /\ q = [loaded |-> p.loaded, lastSeq |-> n, expectedNext |-> n + 1,
              streams |-> q.streams, ids |-> q.ids]
  BY DEF applyResults, After, ProjectionType
<1>3. q.streams \in StreamsType /\ q.ids = EL!UsedIds(q.streams)
  BY <1>1, <1>2, AfterType
<1>4. q.ids \subseteq Ids
  BY <1>3, UsedIdsType
<1>5. q \in ProjectionType
  BY <1>2, <1>3, <1>4 DEF ProjectionType
<1> QED BY <1>2, <1>3, <1>5, Zenon

-----------------------------------------------------------------------------
(* Preservation of the invariant, conjunct by conjunct.                    *)

(* Once written, neither messages nor their effect change: every step      *)
(* leaves the log and its history alone or appends one message to both.    *)
LEMMA LogStep ==
    ASSUME IInv, [Next]_vars
    PROVE  /\ LogOK'
           /\ Len(log) \in Nat /\ Len(log') \in Nat /\ Len(log') >= Len(log)
           /\ \A n \in 1 .. Len(log) : log'[n] = log[n]
           /\ \A n \in 1 .. Len(log) + 1 : history'[n] = history[n]
<1> USE DEF IInv
<1> DEFINE Goal == /\ LogOK'
                   /\ Len(log) \in Nat /\ Len(log') \in Nat /\ Len(log') >= Len(log)
                   /\ \A n \in 1 .. Len(log) : log'[n] = log[n]
                   /\ \A n \in 1 .. Len(log) + 1 : history'[n] = history[n]
<1>1. ASSUME UNCHANGED <<log, history>> PROVE Goal
  <2>1. LogOK' /\ Len(log) \in Nat
    BY <1>1 DEF LogOK
  <2> QED BY <1>1, <2>1
<1>2. ASSUME NEW m \in MessageType, NEW h \in StreamsType,
             log' = Append(log, m), history' = Append(history, h),
             h = After(history[Len(history)], m)
      PROVE  Goal
  <2>1. /\ log' \in Seq(MessageType) /\ history' \in Seq(StreamsType)
        /\ Len(log') = Len(log) + 1 /\ Len(history') = Len(log') + 1
        /\ \A n \in 1 .. Len(log) : log'[n] = log[n]
        /\ \A n \in 1 .. Len(history) : history'[n] = history[n]
        /\ log'[Len(log')] = m /\ history'[Len(history')] = h
    BY <1>2 DEF LogOK
  <2>2. \A n \in 1 .. Len(log') : history'[n + 1] = After(history'[n], log'[n])
    BY <1>2, <2>1 DEF LogOK
  <2>3. LogOK'
    <3>1. history'[1] = EL!EmptyStreams
      BY <2>1 DEF LogOK
    <3> QED BY <2>1, <2>2, <3>1 DEF LogOK
  <2>4. Len(log) \in Nat /\ Len(history) = Len(log) + 1
    BY DEF LogOK
  <2> QED BY <2>1, <2>3, <2>4
<1>3. ASSUME NEW c \in Stores, Publish(c), ~UNCHANGED <<log, history>>
      PROVE  Goal
  <2> DEFINE st == project[c].streams
  <2>1. /\ project[c].lastSeq = Len(log)
        /\ log' = Append(log, Message(st, call[c].batch))
        /\ history' = Append(history, EL!Extend(st, call[c].batch))
    BY <1>3 DEF Publish
  <2>2. st \in StreamsType /\ st = history[Len(history)]
    BY <2>1 DEF ProjectOK, ProjectionType, ProjectionIsReplay, LogOK
  <2>3. call[c].batch \in Batches
    BY <1>3 DEF Publish, CallOK, CallType, NoCall, LoadCall, AppendCall
  <2> HIDE DEF Goal
  <2> QED BY <1>2, <2>1, <2>2, <2>3, MessageExtends
<1>4. ASSUME PublishForeign PROVE Goal
  <2>1. Foreign \in MessageType
    BY SMTT(30) DEF Foreign, MessageType
  <2>2. history[Len(history)] \in StreamsType
    BY DEF LogOK
  <2>3. After(history[Len(history)], Foreign) = history[Len(history)]
    BY <2>2 DEF After, Foreign, StreamsType
  <2> HIDE DEF Goal
  <2>4. /\ log' = Append(log, Foreign) /\ history' = Append(history, history[Len(history)])
    BY <1>4 DEF PublishForeign
  <2> QED BY <1>2, <2>1, <2>2, <2>3, <2>4
<1>5. UNCHANGED <<log, history>> \/ PublishForeign \/ \E c \in Stores : Publish(c)
  BY DEF Next, vars, StoreStep, BeginAppend, BeginLoad, Begin, Sync, Reload, Replay,
         AnswerLoad, Prepare, Acknowledge, Recheck, RequestFails, Restart, Discard
<1> HIDE DEF Goal
<1>6. Goal
  BY <1>1, <1>3, <1>4, <1>5
<1> QED BY <1>6 DEF Goal

(* Every step leaves the projections consistent with the log.              *)
LEMMA ProjectStep ==
    ASSUME IInv, [Next]_vars
    PROVE  ProjectOK'
<1> USE DEF IInv
<1>1. /\ LogOK' /\ LogOK
      /\ Len(log') >= Len(log) /\ Len(log) \in Nat /\ Len(log') \in Nat
      /\ \A n \in 1 .. Len(log) : log'[n] = log[n]
      /\ \A n \in 1 .. Len(log) + 1 : history'[n] = history[n]
  BY LogStep
<1> DEFINE Good(p) == /\ p \in ProjectionType
                      /\ p.lastSeq \in 0 .. Len(log')
                      /\ p.expectedNext = p.lastSeq + 1
                      /\ p.streams = history'[p.lastSeq + 1]
                      /\ p.ids = EL!UsedIds(p.streams)
<1>2. \A c \in Stores : Good(project[c])
  BY <1>1 DEF ProjectOK, ProjectionIsReplay, ProjectionType
<1>3. \A l \in BOOLEAN : Good(emptyProjection(l))
  <2>1. EL!EmptyStreams \in StreamsType /\ EL!UsedIds(EL!EmptyStreams) = {}
    BY DEF EL!EmptyStreams, StreamsType, EL!UsedIds, EL!IdsOf
  <2> QED BY <1>1, <2>1 DEF emptyProjection, ProjectionType, LogOK
<1>4. ASSUME NEW c \in Stores, project' = [project EXCEPT ![c] = project'[c]],
             Good(project'[c])
      PROVE  ProjectOK'
  <2>1. \A d \in Stores : Good(project'[d])
    BY <1>2, <1>4 DEF ProjectOK
  <2>2. project' \in [Stores -> ProjectionType]
    BY <2>1, <1>4 DEF ProjectOK
  <2> QED BY <2>1, <2>2 DEF ProjectOK, ProjectionIsReplay
<1>5. CASE UNCHANGED project
  <2>1. \A d \in Stores : Good(project'[d])
    BY <1>2, <1>5
  <2> QED BY <1>5, <2>1 DEF ProjectOK, ProjectionIsReplay
<1>6. ASSUME NEW c \in Stores, NEW m \in MessageType, NEW n \in 1 .. Len(log'),
             n = project[c].lastSeq + 1, m = log'[n],
             project' = [project EXCEPT ![c] = applyResults(project[c], m, n)]
      PROVE  ProjectOK'
  <2>1. project'[c] = applyResults(project[c], m, n)
    BY <1>6 DEF ProjectOK
  <2>2. /\ project'[c] \in ProjectionType
        /\ project'[c].lastSeq = n /\ project'[c].expectedNext = n + 1
        /\ project'[c].streams = After(project[c].streams, m)
        /\ project'[c].ids = EL!UsedIds(project'[c].streams)
    <3>1. /\ project[c] \in ProjectionType /\ n \in Nat
          /\ project[c].ids = EL!UsedIds(project[c].streams)
      BY <1>2
    <3> DEFINE p == project[c]
    <3>2. /\ applyResults(p, m, n) \in ProjectionType
          /\ applyResults(p, m, n).lastSeq = n
          /\ applyResults(p, m, n).expectedNext = n + 1
          /\ applyResults(p, m, n).streams = After(p.streams, m)
          /\ applyResults(p, m, n).ids = EL!UsedIds(applyResults(p, m, n).streams)
      <4> HIDE DEF p
      <4> QED BY <3>1, ApplyResults DEF p
    <3> QED BY <2>1, <3>2
  <2>3. After(project[c].streams, m) = history'[n + 1]
    BY <1>1, <1>2, <1>6 DEF LogOK
  <2>4. Good(project'[c])
    BY <2>2, <2>3
  <2>5. project' = [project EXCEPT ![c] = project'[c]]
    BY <1>6, <2>1
  <2> QED BY <1>4, <2>4, <2>5
<1>7. ASSUME NEW c \in Stores, Reload(c, "reload", "replay") \/ Reload(c, "reloadAgain", "replayAgain")
      PROVE  ProjectOK'
  BY <1>3, <1>4, <1>7 DEF Reload, ProjectOK
<1>8. ASSUME NEW c \in Stores, RequestFails(c) \/ Restart(c)
      PROVE  ProjectOK'
  BY <1>2, <1>3, <1>4, <1>8 DEF RequestFails, Restart, newProjection, ProjectOK
<1>9. ASSUME NEW c \in Stores, Replay(c)
      PROVE  ProjectOK'
  <2>1. CASE UNCHANGED project
    BY <1>5, <2>1
  <2>2. CASE ~UNCHANGED project
    <3> DEFINE n == project[c].lastSeq + 1
    <3>1. /\ n <= target[c] /\ UNCHANGED log
          /\ project' = [project EXCEPT ![c] = applyResults(project[c], log[n], n)]
      BY <1>9, <2>2 DEF Replay
    <3>2. n \in 1 .. Len(log') /\ log'[n] \in MessageType /\ log[n] = log'[n]
      BY <1>1, <1>2, <3>1 DEF TypeOK, LogOK
    <3> QED BY <1>6, <3>1, <3>2
  <2> QED BY <2>1, <2>2
<1>10. ASSUME NEW c \in Stores, Acknowledge(c)
       PROVE  ProjectOK'
  <2> DEFINE m == Message(project[c].streams, call[c].batch)
  <2>1. /\ target[c] = project[c].lastSeq + 1 /\ log[target[c]] = m /\ UNCHANGED log
        /\ project' = [project EXCEPT ![c] = applyResults(project[c], m, target[c])]
    BY <1>10 DEF Acknowledge, CallOK
  <2>2. target[c] \in 1 .. Len(log') /\ log'[target[c]] \in MessageType
    BY <1>1, <1>2, <2>1 DEF TypeOK, LogOK
  <2> HIDE DEF m
  <2> QED BY <1>6, <2>1, <2>2
<1> QED
  BY <1>5, <1>7, <1>8, <1>9, <1>10
     DEF Next, vars, StoreStep, BeginAppend, BeginLoad, Begin, Sync, AnswerLoad, Prepare,
         Publish, Recheck, PublishForeign, Discard

(* Every step keeps the types.                                             *)
LEMMA TypeStep ==
    ASSUME IInv, [Next]_vars
    PROVE  TypeOK'
<1> USE StoreAssumption DEF IInv, TypeOK
<1>1. Len(log') >= Len(log) /\ Len(log) \in Nat /\ Len(log') \in Nat
  BY LogStep
<1>2. target \in [Stores -> 0 .. Len(log')]
  BY <1>1
<1>3. ASSUME NEW c \in Stores, (\E b \in Batches : BeginAppend(c, b)) \/ (\E s \in Streams : BeginLoad(c, s))
      PROVE  TypeOK'
  <2>1. /\ log' = log /\ first' = first /\ calls' = calls + 1 /\ target' = target
        /\ attempt' = [attempt EXCEPT ![c] = 0] /\ pc' = [pc EXCEPT ![c] = "sync"]
    BY <1>3 DEF BeginAppend, BeginLoad, Begin, Goto
  <2>2. attempt' \in [Stores -> 0 .. MaxAppendRetries]
    BY <2>1
  <2> QED BY <2>1, <2>2
<1>4. ASSUME NEW c \in Stores, Sync(c) PROVE TypeOK'
  <2>1. /\ log' = log /\ first' = first /\ calls' = calls /\ attempt' = attempt
        /\ pc' = [pc EXCEPT ![c] = "replay"] \/ pc' = [pc EXCEPT ![c] = "reload"]
        /\ target' = target \/ target' = [target EXCEPT ![c] = Len(log)]
    BY <1>4 DEF Sync, Goto
  <2>2. target' \in [Stores -> 0 .. Len(log')]
    BY <1>1, <2>1
  <2> QED BY <2>1, <2>2
<1>5. ASSUME NEW c \in Stores, Reload(c, "reload", "replay") \/ Reload(c, "reloadAgain", "replayAgain")
      PROVE TypeOK'
  <2>1. /\ log' = log /\ first' = first /\ calls' = calls /\ attempt' = attempt
        /\ \/ pc' = [pc EXCEPT ![c] = "replay"]
           \/ pc' = [pc EXCEPT ![c] = "replayAgain"]
           \/ pc' = [pc EXCEPT ![c] = "idle"]
        /\ \/ target' = target
           \/ target' = [target EXCEPT ![c] = Len(log)]
           \/ target' = [target EXCEPT ![c] = 0]
    BY <1>5 DEF Reload, Goto, Return
  <2>2. target' \in [Stores -> 0 .. Len(log')]
    BY <1>1, <2>1
  <2> QED BY <2>1, <2>2
<1>6. ASSUME NEW c \in Stores, Replay(c) \/ AnswerLoad(c) \/ Prepare(c) \/ Acknowledge(c)
      PROVE TypeOK'
  <2>1. /\ log' = log /\ first' = first /\ calls' = calls /\ attempt' = attempt /\ target' = target
        /\ \/ pc' = pc
           \/ pc' = [pc EXCEPT ![c] = "publish"]
           \/ pc' = [pc EXCEPT ![c] = "idle"]
    BY <1>6 DEF Replay, AnswerLoad, Prepare, Acknowledge, Goto, Return
  <2> QED BY <2>1
<1>7. ASSUME NEW c \in Stores, Publish(c) PROVE TypeOK'
  <2>1. CASE UNCHANGED <<log, target>>
    BY <1>7, <2>1 DEF Publish, Goto
  <2>2. CASE ~UNCHANGED <<log, target>>
    <3>1. /\ log' = Append(log, Message(project[c].streams, call[c].batch))
          /\ target' = [target EXCEPT ![c] = Len(log) + 1]
      BY <1>7, <2>2 DEF Publish
    <3>2. Len(log') = Len(log) + 1
      BY <1>1, <1>7, <3>1, MessageExtends
         DEF LogOK, ProjectOK, ProjectionType, CallOK, CallType, NoCall, LoadCall, AppendCall, Publish
    <3>3. target' \in [Stores -> 0 .. Len(log')]
      BY <1>1, <1>2, <3>1, <3>2
    <3> QED BY <1>7, <3>3 DEF Publish, Goto
  <2> QED BY <2>1, <2>2
<1>8. ASSUME NEW c \in Stores, Recheck(c) PROVE TypeOK'
  <2>1. attempt[c] + 1 \in 0 .. MaxAppendRetries
    <3>1. attempt[c] \in 0 .. MaxAppendRetries /\ pc[c] = "replayAgain"
      BY <1>8 DEF Recheck, Replayed
    <3>2. attempt[c] < MaxAppendRetries
      BY <3>1 DEF CallOK
    <3> QED BY <3>1, <3>2
  <2> QED BY <1>2, <1>8, <2>1 DEF Recheck, Goto, Return
<1>9. ASSUME NEW c \in Stores, RequestFails(c) \/ Restart(c) PROVE TypeOK'
  BY <1>2, <1>9 DEF RequestFails, Restart, Goto, Return
<1>10. CASE PublishForeign \/ Discard \/ UNCHANGED vars
  BY <1>2, <1>10 DEF PublishForeign, Discard, vars
<1> QED BY <1>3, <1>4, <1>5, <1>6, <1>7, <1>8, <1>9, <1>10 DEF Next, StoreStep

(* Every step keeps what the calls in flight rely on.                      *)
LEMMA CallStep ==
    ASSUME IInv, [Next]_vars
    PROVE  CallOK'
<1> USE StoreAssumption DEF IInv
<1>1. /\ LogOK' /\ TypeOK' /\ Len(log') >= Len(log)
      /\ \A n \in 1 .. Len(log) : log'[n] = log[n]
  BY LogStep, TypeStep
<1> DEFINE Fine(c) ==
      /\ call'[c] \in CallType
      /\ pc'[c] # "idle" => attempt'[c] < MaxAppendRetries
      /\ call'[c].kind = "append" => EL!DistinctIds(call'[c].batch)
      /\ pc'[c] \in {"publish", "ack"} =>
            /\ call'[c].kind = "append"
            /\ preconditionHolds(project'[c], call'[c].batch)
      /\ pc'[c] = "ack" =>
            /\ target'[c] = project'[c].lastSeq + 1
            /\ log'[target'[c]] = Message(project'[c].streams, call'[c].batch)
<1>2. ASSUME NEW c \in Stores, call'[c] = call[c], pc'[c] = pc[c], attempt'[c] = attempt[c],
             target'[c] = target[c], project'[c] = project[c]
      PROVE  Fine(c)
  <2>1. pc[c] = "ack" => target[c] \in 1 .. Len(log)
    BY DEF CallOK, TypeOK, ProjectOK, ProjectionType
  <2> QED BY <1>1, <1>2, <2>1 DEF CallOK
<1>3. ASSUME NEW c \in Stores, call'[c] = NoCall, pc'[c] = "idle"
      PROVE  Fine(c)
  BY <1>3 DEF CallType, NoCall
<1>4. ASSUME NEW c \in Stores, \A d \in Stores \ {c} : Fine(d), Fine(c),
             call' = [call EXCEPT ![c] = call'[c]]
      PROVE  CallOK'
  BY <1>4 DEF CallOK
<1>5. ASSUME NEW c \in Stores,
             call' = [call EXCEPT ![c] = call'[c]],
             pc' = [pc EXCEPT ![c] = pc'[c]], attempt' = [attempt EXCEPT ![c] = attempt'[c]],
             target' = [target EXCEPT ![c] = target'[c]], project' = [project EXCEPT ![c] = project'[c]],
             Fine(c)
      PROVE  CallOK'
  <2>1. ASSUME NEW d \in Stores \ {c} PROVE Fine(d)
    <3>1. /\ call'[d] = call[d] /\ pc'[d] = pc[d] /\ attempt'[d] = attempt[d]
          /\ target'[d] = target[d] /\ project'[d] = project[d]
      BY <1>5 DEF CallOK, TypeOK, ProjectOK
    <3> QED BY <1>2, <3>1
  <2> QED BY <1>4, <1>5, <2>1
<1> DEFINE StoreAction(c) ==
      \/ \E b \in Batches : BeginAppend(c, b)
      \/ \E s \in Streams : BeginLoad(c, s)
      \/ StoreStep(c) \/ RequestFails(c) \/ Restart(c)
<1>6. ASSUME NEW c \in Stores, StoreAction(c)
      PROVE  /\ call' = [call EXCEPT ![c] = call'[c]]
             /\ pc' = [pc EXCEPT ![c] = pc'[c]]
             /\ attempt' = [attempt EXCEPT ![c] = attempt'[c]]
             /\ target' = [target EXCEPT ![c] = target'[c]]
             /\ project' = [project EXCEPT ![c] = project'[c]]
  <2> USE DEF CallOK, TypeOK, ProjectOK, Goto, Return
  <2>1. CASE (\E b \in Batches : BeginAppend(c, b)) \/ (\E s \in Streams : BeginLoad(c, s))
    BY <2>1 DEF BeginAppend, BeginLoad, Begin
  <2>2. CASE Sync(c) \/ Replay(c) \/ AnswerLoad(c) \/ Prepare(c)
    BY <2>2 DEF Sync, Replay, AnswerLoad, Prepare
  <2>3. CASE Reload(c, "reload", "replay") \/ Reload(c, "reloadAgain", "replayAgain")
    BY <2>3 DEF Reload
  <2>4. CASE Publish(c) \/ Acknowledge(c) \/ Recheck(c)
    BY <2>4 DEF Publish, Acknowledge, Recheck
  <2>5. CASE RequestFails(c) \/ Restart(c)
    BY <2>5 DEF RequestFails, Restart
  <2> QED BY <1>6, <2>1, <2>2, <2>3, <2>4, <2>5 DEF StoreStep
<1>7. ASSUME NEW c \in Stores, StoreAction(c)
      PROVE  Fine(c)
  <2> USE DEF Goto, Return
  <2>0. c \in DOMAIN pc /\ call \in [Stores -> CallType] /\ c \in DOMAIN attempt /\ c \in DOMAIN target
    BY DEF TypeOK, CallOK
  <2>1. ASSUME NEW b \in Batches, BeginAppend(c, b) PROVE Fine(c)
    BY <2>0, <2>1 DEF BeginAppend, Begin, AppendCall, CallType
  <2>2. ASSUME NEW s \in Streams, BeginLoad(c, s) PROVE Fine(c)
    <3>1. Len(log) \in Nat
      BY DEF LogOK
    <3> QED BY <2>0, <2>2, <3>1 DEF BeginLoad, Begin, LoadCall, CallType
  <2>3. CASE Sync(c) \/ Reload(c, "reload", "replay") \/ Reload(c, "reloadAgain", "replayAgain")
    <3>1. \/ call'[c] = NoCall /\ pc'[c] = "idle"
          \/ call'[c] = call[c] /\ attempt' = attempt /\ pc[c] # "idle" /\ pc'[c] \notin {"publish", "ack"}
      BY <2>0, <2>3 DEF Sync, Reload
    <3> QED BY <1>3, <3>1 DEF CallOK
  <2>4. CASE Replay(c)
    <3>1. \/ call'[c] = NoCall /\ pc'[c] = "idle"
          \/ call'[c] = call[c] /\ attempt' = attempt /\ pc'[c] = pc[c] /\ pc'[c] \notin {"publish", "ack"}
      BY <2>0, <2>4 DEF Replay
    <3> QED BY <1>3, <3>1 DEF CallOK
  <2>5. CASE Prepare(c)
    <3>1. \/ call'[c] = NoCall /\ pc'[c] = "idle"
          \/ /\ call' = call /\ attempt' = attempt /\ project' = project /\ pc[c] = "replay" /\ pc'[c] = "publish"
             /\ call[c].kind = "append" /\ preconditionHolds(project[c], call[c].batch)
      BY <2>0, <2>5 DEF Prepare, Replayed
    <3> QED BY <1>3, <3>1 DEF CallOK
  <2>6. CASE Publish(c)
    <3>1. CASE pc'[c] = "ack"
      <4>1. /\ call' = call /\ attempt' = attempt /\ project' = project /\ pc[c] = "publish"
            /\ project[c].lastSeq = Len(log)
            /\ log' = Append(log, Message(project[c].streams, call[c].batch))
            /\ target'[c] = Len(log) + 1
        BY <2>0, <2>6, <3>1 DEF Publish
      <4>2. call[c].batch \in Batches /\ project[c].streams \in StreamsType
        BY <4>1 DEF CallOK, CallType, NoCall, LoadCall, AppendCall, ProjectOK, ProjectionType
      <4>3. log'[Len(log) + 1] = Message(project[c].streams, call[c].batch)
        BY <4>1, <4>2, MessageExtends DEF LogOK
      <4> QED BY <4>1, <4>3 DEF CallOK
    <3>2. CASE pc'[c] # "ack"
      <4>1. call' = call /\ attempt' = attempt /\ pc[c] = "publish" /\ pc'[c] = "reloadAgain"
        BY <2>0, <2>6, <3>2 DEF Publish
      <4> QED BY <4>1 DEF CallOK
    <3> QED BY <3>1, <3>2
  <2>7. CASE Recheck(c)
    <3>1. \/ call'[c] = NoCall /\ pc'[c] = "idle"
          \/ /\ call' = call /\ pc'[c] = "sync" /\ attempt'[c] = attempt[c] + 1
             /\ attempt[c] + 1 < MaxAppendRetries
      BY <2>0, <2>7 DEF Recheck
    <3> QED BY <1>3, <3>1 DEF CallOK
  <2>8. CASE AnswerLoad(c) \/ Acknowledge(c) \/ RequestFails(c) \/ Restart(c)
    <3>1. call'[c] = NoCall /\ pc'[c] = "idle"
      BY <2>0, <2>8 DEF AnswerLoad, Acknowledge, RequestFails, Restart
    <3> QED BY <1>3, <3>1
  <2> QED BY <1>7, <2>1, <2>2, <2>3, <2>4, <2>5, <2>6, <2>7, <2>8 DEF StoreStep
<1>8. CASE PublishForeign \/ Discard \/ UNCHANGED vars
  <2>1. \A c \in Stores : Fine(c)
    BY <1>2, <1>8 DEF PublishForeign, Discard, vars
  <2> QED BY <1>8, <2>1 DEF CallOK, PublishForeign, Discard, vars
<1>9. ASSUME NEW c \in Stores, StoreAction(c) PROVE CallOK'
  <2> HIDE DEF Fine, StoreAction
  <2> QED BY <1>5, <1>6, <1>7, <1>9
<1> QED BY <1>8, <1>9 DEF Next

(* Every step keeps acknowledged batches stored.                           *)
LEMMA ReplyStep ==
    ASSUME IInv, [Next]_vars
    PROVE  ReplyOK'
<1> USE DEF IInv
<1>1. /\ Len(log') >= Len(log) /\ Len(log) \in Nat /\ Len(log') \in Nat
      /\ \A n \in 1 .. Len(log) + 1 : history'[n] = history[n]
  BY LogStep
<1> DEFINE Stored(r) == r.outcome = "appended" =>
              /\ r.sequence \in 1 .. Len(log')
              /\ history'[r.sequence + 1] = EL!Extend(history'[r.sequence], r.batch)
              /\ EL!ExpectedHolds(history'[r.sequence], r.batch)
<1>2. \A c \in Stores : Stored(reply[c])
  BY <1>1 DEF ReplyOK, AcknowledgedIsStored
<1>3. ASSUME NEW c \in Stores, reply' = [reply EXCEPT ![c] = reply'[c]], Stored(reply'[c])
      PROVE  ReplyOK'
  <2>1. \A d \in Stores : Stored(reply'[d])
    BY <1>2, <1>3 DEF ReplyOK
  <2>2. reply' = [d \in Stores |-> reply'[d]]
    BY <1>3 DEF ReplyOK
  <2> QED BY <2>1, <2>2 DEF ReplyOK, AcknowledgedIsStored
<1>4. CASE UNCHANGED reply
  BY <1>2, <1>4 DEF ReplyOK, AcknowledgedIsStored
<1>5. ASSUME NEW c \in Stores, Acknowledge(c) PROVE ReplyOK'
  <2> DEFINE b == call[c].batch
             n == target[c]
  <2>1. /\ pc[c] = "ack"
        /\ reply' = [reply EXCEPT ![c] = [outcome |-> "appended", sequence |-> n, batch |-> b]]
    BY <1>5 DEF Acknowledge, Return
  <2>2. /\ n = project[c].lastSeq + 1 /\ log[n] = Message(project[c].streams, b)
        /\ call[c].kind = "append" /\ preconditionHolds(project[c], b)
    BY <2>1 DEF CallOK
  <2>3. /\ project[c].streams \in StreamsType /\ project[c].streams = history[n]
        /\ n \in 1 .. Len(log)
    BY <2>2 DEF ProjectOK, ProjectionType, ProjectionIsReplay, TypeOK
  <2>4. b \in Batches
    BY <2>2 DEF CallOK, CallType, NoCall, LoadCall, AppendCall
  <2>5. history[n + 1] = EL!Extend(history[n], b)
    BY <2>2, <2>3, <2>4, MessageExtends DEF LogOK
  <2>6. EL!ExpectedHolds(history[n], b)
    BY <2>2, <2>3 DEF preconditionHolds, EL!ExpectedHolds
  <2>7. reply'[c] = [outcome |-> "appended", sequence |-> n, batch |-> b]
    BY <2>1 DEF ReplyOK
  <2>8. /\ reply'[c].sequence = n /\ reply'[c].batch = b
        /\ history'[n] = history[n] /\ history'[n + 1] = history[n + 1] /\ n \in 1 .. Len(log')
    BY <1>1, <2>3, <2>7
  <2>9. Stored(reply'[c])
    BY <2>5, <2>6, <2>8
  <2>10. reply' = [reply EXCEPT ![c] = reply'[c]]
    BY <2>1, <2>7
  <2> HIDE DEF b, n, Stored
  <2> QED BY <1>3, <2>9, <2>10
<1>6. ASSUME NEW c \in Stores, NEW r, reply' = [reply EXCEPT ![c] = r], r.outcome # "appended"
      PROVE  ReplyOK'
  <2>1. reply'[c] = r
    BY <1>6 DEF ReplyOK
  <2> QED BY <1>3, <1>6, <2>1
<1>7. ASSUME NEW c \in Stores,
             \/ \E b \in Batches : BeginAppend(c, b)
             \/ \E s \in Streams : BeginLoad(c, s)
             \/ StoreStep(c) \/ RequestFails(c) \/ Restart(c)
      PROVE  \/ UNCHANGED reply \/ Acknowledge(c)
             \/ \E r : reply' = [reply EXCEPT ![c] = r] /\ r.outcome # "appended"
  <2> DEFINE Other == \E r : reply' = [reply EXCEPT ![c] = r] /\ r.outcome # "appended"
  <2>1. NoReply.outcome # "appended" /\ [outcome |-> "error"].outcome # "appended"
        /\ [outcome |-> "rejected"].outcome # "appended"
    BY DEF NoReply
  <2>2. \A s, k, rs : [outcome |-> "loaded", stream |-> s, since |-> k, records |-> rs].outcome # "appended"
    OBVIOUS
  <2>3. ASSUME AnswerLoad(c) PROVE Other
    BY <2>2, <2>3 DEF AnswerLoad, Return
  <2> QED BY <1>7, <2>1, <2>3
       DEF StoreStep, BeginAppend, BeginLoad, Begin, Sync, Reload, Replay, Prepare, Publish,
           Recheck, RequestFails, Restart, Return
<1> QED BY <1>4, <1>5, <1>6, <1>7 DEF Next, vars, PublishForeign, Discard

-----------------------------------------------------------------------------
(* Loads.  While the retention limits keep the newest message, an instance *)
(* that replays for a load replays at least up to the end the log had when *)
(* the load was called, and its answer is the log as it was then or later. *)
FreshCall(c) ==
    call[c].kind = "load" => /\ call[c].since \in 0 .. Len(log)
                             /\ pc[c] = "replay" => call[c].since <= target[c]
FreshReply(c) ==
    reply[c].outcome = "loaded" =>
        /\ reply[c].since \in Nat
        /\ \E n \in reply[c].since .. Len(log) : reply[c].records = history[n + 1][reply[c].stream]
FreshOK ==
    KeepsNewest => /\ first = 1 \/ first <= Len(log)
                   /\ \A c \in Stores : FreshCall(c) /\ FreshReply(c)

LEMMA FirstStep ==
    ASSUME IInv, [Next]_vars, KeepsNewest, first = 1 \/ first <= Len(log)
    PROVE  first' = 1 \/ first' <= Len(log')
<1>1. Len(log') >= Len(log) /\ Len(log) \in Nat /\ Len(log') \in Nat /\ first \in Nat
  BY LogStep DEF IInv, TypeOK
<1>2. first' = first \/ (Discard /\ log' = log /\ first' = first + 1 /\ first < Len(log))
  BY StoreAssumption DEF Next, vars, StoreStep, BeginAppend, BeginLoad, Begin, Sync, Reload, Replay,
     AnswerLoad, Prepare, Publish, Acknowledge, Recheck, RequestFails, Restart, PublishForeign, Discard
<1> QED BY <1>1, <1>2

LEMMA FreshStep ==
    ASSUME IInv, [Next]_vars, FreshOK
    PROVE  FreshOK'
<1> SUFFICES ASSUME KeepsNewest PROVE FreshOK'
  BY DEF FreshOK
<1>1. /\ Len(log') >= Len(log) /\ Len(log) \in Nat /\ Len(log') \in Nat
      /\ \A n \in 1 .. Len(log) + 1 : history'[n] = history[n]
  BY LogStep DEF IInv
<1>2. (first = 1 \/ first <= Len(log)) /\ (first' = 1 \/ first' <= Len(log')) /\ first \in Nat
  BY FirstStep DEF FreshOK, IInv, TypeOK
<1>3. /\ DOMAIN call = Stores /\ DOMAIN pc = Stores /\ DOMAIN target = Stores /\ DOMAIN reply = Stores
      /\ call \in [Stores -> CallType]
  BY DEF IInv, CallOK, TypeOK, ReplyOK
<1>4. ASSUME NEW c \in Stores PROVE FreshCall(c) /\ FreshReply(c)
  BY DEF FreshOK
<1>5. ASSUME NEW c \in Stores, reply'[c] = reply[c] PROVE FreshReply(c)'
  <2>1. CASE reply[c].outcome = "loaded"
    <3>1. reply[c].since \in Nat
      BY <1>4, <2>1 DEF FreshReply
    <3>2. PICK n \in reply[c].since .. Len(log) : reply[c].records = history[n + 1][reply[c].stream]
      BY <1>4, <2>1 DEF FreshReply
    <3>3. n \in reply[c].since .. Len(log') /\ history'[n + 1] = history[n + 1]
      BY <1>1, <3>1, <3>2
    <3> QED BY <1>5, <3>1, <3>2, <3>3 DEF FreshReply
  <2> QED BY <1>5, <2>1 DEF FreshReply
<1>6. ASSUME NEW c \in Stores, call'[c] = call[c], pc'[c] = "replay" => pc[c] = "replay" /\ target'[c] = target[c]
      PROVE  FreshCall(c)'
  BY <1>1, <1>4, <1>6 DEF FreshCall
<1>7. ASSUME NEW c \in Stores, call'[c] = NoCall PROVE FreshCall(c)'
  BY <1>7 DEF FreshCall, NoCall
<1>8. ASSUME NEW c \in Stores, NEW r, Return(c, r), r.outcome # "loaded"
      PROVE  FreshCall(c)' /\ FreshReply(c)'
  <2>1. call'[c] = NoCall /\ reply'[c] = r
    BY <1>3, <1>8 DEF Return
  <2> QED BY <1>7, <1>8, <2>1 DEF FreshReply
<1>9. [outcome |-> "error"].outcome # "loaded" /\ [outcome |-> "rejected"].outcome # "loaded"
      /\ NoReply.outcome # "loaded"
  BY DEF NoReply
<1> DEFINE StoreAction(c) ==
      \/ \E b \in Batches : BeginAppend(c, b)
      \/ \E s \in Streams : BeginLoad(c, s)
      \/ StoreStep(c) \/ RequestFails(c) \/ Restart(c)
<1>10. ASSUME NEW c \in Stores, StoreAction(c) PROVE FreshCall(c)' /\ FreshReply(c)'
  <2>1. ASSUME NEW b \in Batches, BeginAppend(c, b) PROVE FreshCall(c)' /\ FreshReply(c)'
    <3>1. call'[c] = AppendCall(b) /\ reply'[c] = NoReply
      BY <1>3, <2>1 DEF BeginAppend, Begin
    <3> QED BY <1>9, <3>1 DEF FreshCall, FreshReply, AppendCall
  <2>2. ASSUME NEW s \in Streams, BeginLoad(c, s) PROVE FreshCall(c)' /\ FreshReply(c)'
    <3>1. call'[c] = LoadCall(s, Len(log)) /\ reply'[c] = NoReply /\ pc'[c] = "sync" /\ log' = log
      BY <1>3, <2>2 DEF BeginLoad, Begin, Goto
    <3> QED BY <1>1, <1>9, <3>1 DEF FreshCall, FreshReply, LoadCall
  <2>3. CASE Sync(c) \/ (Reload(c, "reload", "replay") /\ UNCHANGED <<call, reply>>)
    <3>1. call'[c] = call[c] /\ reply'[c] = reply[c] /\ log' = log
      BY <1>3, <2>3 DEF Sync, Reload, Return, Goto
    <3>2. target'[c] = Len(log) \/ pc'[c] # "replay" \/ (target'[c] = 0 /\ first > Len(log))
      BY <1>3, <2>3 DEF Sync, Reload, Return, Goto
    <3>3. target'[c] = Len(log) \/ pc'[c] # "replay"
      BY <1>1, <1>2, <3>2
    <3>4. FreshCall(c)'
      BY <1>1, <1>4, <3>1, <3>3 DEF FreshCall
    <3> QED BY <1>5, <3>1, <3>4
  <2>4. CASE Reload(c, "reloadAgain", "replayAgain") \/ Replay(c) \/ Prepare(c) \/ Publish(c) \/ Recheck(c)
             \/ Reload(c, "reload", "replay")
    <3>1. \/ \E r : Return(c, r) /\ r.outcome # "loaded"
          \/ UNCHANGED reply /\ UNCHANGED call
      BY <1>9, <2>4 DEF Reload, Replay, Prepare, Publish, Recheck
    <3>2. CASE UNCHANGED reply /\ UNCHANGED call /\ ~Reload(c, "reload", "replay")
      <4>1. pc'[c] = "replay" => pc[c] = "replay" /\ target'[c] = target[c]
        BY <1>3, <2>4, <3>2 DEF Reload, Replay, Prepare, Publish, Recheck, Goto, Replayed, Return
      <4> QED BY <1>5, <1>6, <3>2, <4>1
    <3> QED BY <1>8, <2>3, <3>1, <3>2
  <2>5. CASE AnswerLoad(c)
    <3> DEFINE s == call[c].stream
               k == call[c].since
               n == project[c].lastSeq
    <3>1. /\ call[c].kind = "load" /\ pc[c] = "replay" /\ n >= target[c]
          /\ call'[c] = NoCall /\ history' = history /\ log' = log
          /\ reply'[c] = [outcome |-> "loaded", stream |-> s, since |-> k, records |-> project[c].streams[s]]
      BY <1>3, <2>5 DEF AnswerLoad, Replayed, Return
    <3>2. k \in 0 .. Len(log) /\ k <= target[c] /\ target[c] \in 0 .. Len(log)
      BY <1>4, <3>1 DEF FreshCall, IInv, TypeOK
    <3>3. n \in 0 .. Len(log) /\ project[c].streams = history[n + 1]
      BY DEF IInv, ProjectOK, ProjectionIsReplay
    <3>4. n \in k .. Len(log) /\ k \in Nat
      BY <1>1, <3>1, <3>2, <3>3
    <3>5. /\ reply'[c].since = k /\ reply'[c].stream = s /\ reply'[c].records = history[n + 1][s]
      BY <3>1, <3>3
    <3>6. FreshReply(c)'
      BY <3>1, <3>4, <3>5 DEF FreshReply
    <3> QED BY <1>7, <3>1, <3>6
  <2>6. CASE Acknowledge(c) \/ RequestFails(c) \/ Restart(c)
    <3>1. \A n, b : [outcome |-> "appended", sequence |-> n, batch |-> b].outcome # "loaded"
      OBVIOUS
    <3>2. \E r : Return(c, r) /\ r.outcome # "loaded"
      BY <1>9, <2>6, <3>1 DEF Acknowledge, RequestFails, Restart
    <3> QED BY <1>8, <3>2
  <2> QED BY <1>10, <2>1, <2>2, <2>3, <2>4, <2>5, <2>6 DEF StoreStep
<1>11. ASSUME NEW c \in Stores, StoreAction(c), NEW d \in Stores \ {c}
       PROVE  call'[d] = call[d] /\ pc'[d] = pc[d] /\ target'[d] = target[d] /\ reply'[d] = reply[d]
  <2> USE DEF Goto, Return
  <2>1. CASE (\E b \in Batches : BeginAppend(c, b)) \/ (\E s \in Streams : BeginLoad(c, s))
    BY <1>3, <2>1 DEF BeginAppend, BeginLoad, Begin
  <2>2. CASE Sync(c) \/ Replay(c) \/ AnswerLoad(c) \/ Prepare(c)
    BY <1>3, <2>2 DEF Sync, Replay, AnswerLoad, Prepare
  <2>3. CASE Reload(c, "reload", "replay") \/ Reload(c, "reloadAgain", "replayAgain")
    BY <1>3, <2>3 DEF Reload
  <2>4. CASE Publish(c) \/ Acknowledge(c) \/ Recheck(c)
    BY <1>3, <2>4 DEF Publish, Acknowledge, Recheck
  <2>5. CASE RequestFails(c) \/ Restart(c)
    BY <1>3, <2>5 DEF RequestFails, Restart
  <2> QED BY <1>11, <2>1, <2>2, <2>3, <2>4, <2>5 DEF StoreStep
<1>12. ASSUME NEW c \in Stores, StoreAction(c) PROVE \A d \in Stores : FreshCall(d)' /\ FreshReply(d)'
  <2> HIDE DEF StoreAction
  <2> QED BY <1>5, <1>6, <1>10, <1>11, <1>12
<1>13. CASE PublishForeign \/ Discard \/ UNCHANGED vars
  <2>1. UNCHANGED <<call, pc, target, reply>>
    BY <1>13 DEF PublishForeign, Discard, vars
  <2> QED BY <1>2, <1>5, <1>6, <2>1 DEF FreshOK
<1>14. CASE \E c \in Stores : StoreAction(c)
  BY <1>2, <1>12, <1>14 DEF FreshOK
<1> QED BY <1>13, <1>14 DEF Next

-----------------------------------------------------------------------------
(* The theorems.                                                           *)

(* The invariant holds initially.                                          *)
LEMMA InitInvariant == Init => IInv
<1> SUFFICES ASSUME Init PROVE IInv
  OBVIOUS
<1> USE StoreAssumption DEF Init
<1>1. EL!EmptyStreams \in StreamsType /\ EL!UsedIds(EL!EmptyStreams) = {}
  BY DEF EL!EmptyStreams, StreamsType, EL!UsedIds, EL!IdsOf
<1>2. TypeOK
  BY DEF TypeOK
<1>3. LogOK
  BY <1>1 DEF LogOK
<1>4. ProjectOK
  <2>1. newProjection = [loaded |-> FALSE, lastSeq |-> 0, expectedNext |-> 1,
                         streams |-> EL!EmptyStreams, ids |-> {}]
    BY DEF newProjection, emptyProjection
  <2>2. newProjection \in ProjectionType
    BY <1>1, <2>1 DEF ProjectionType
  <2>3. \A c \in Stores : project[c] = newProjection
    OBVIOUS
  <2>4. history[1] = EL!EmptyStreams /\ Len(log) = 0
    OBVIOUS
  <2>5. ASSUME NEW c \in Stores
        PROVE  /\ project[c].lastSeq = 0 /\ project[c].expectedNext = 1
               /\ project[c].streams = EL!EmptyStreams /\ project[c].ids = {}
    BY <2>1, <2>3
  <2>6. ProjectionIsReplay
    <3> SUFFICES ASSUME NEW c \in Stores
                 PROVE  /\ project[c].lastSeq \in 0 .. Len(log)
                        /\ project[c].expectedNext = project[c].lastSeq + 1
                        /\ project[c].streams = history[project[c].lastSeq + 1]
                        /\ project[c].ids = EL!UsedIds(project[c].streams)
      BY DEF ProjectionIsReplay
    <3> HIDE DEF Init
    <3>1. project[c].lastSeq = 0 /\ project[c].lastSeq + 1 = 1 /\ project[c].expectedNext = 1
      BY <2>5
    <3>2. project[c].streams = history[project[c].lastSeq + 1]
      BY <2>4, <2>5, <3>1
    <3>3. project[c].ids = EL!UsedIds(project[c].streams)
      BY <1>1, <2>5
    <3> QED BY <2>4, <3>1, <3>2, <3>3
  <2>7. project \in [Stores -> ProjectionType]
    BY <2>2
  <2> QED BY <2>6, <2>7 DEF ProjectOK
<1>5. CallOK
  BY DEF CallOK, CallType, NoCall
<1>6. ReplyOK
  BY DEF ReplyOK, AcknowledgedIsStored, NoReply
<1> QED BY <1>2, <1>3, <1>4, <1>5, <1>6 DEF IInv

(* The inductive invariant holds in every reachable state.                 *)
THEOREM Invariance == Spec => []IInv
<1>1. IInv /\ [Next]_vars => IInv'
  BY LogStep, ProjectStep, TypeStep, CallStep, ReplyStep DEF IInv
<1> QED BY InitInvariant, <1>1, PTL DEF Spec

(* Types, for every number of instances, streams, batches and retries.     *)
THEOREM TypeCorrect == Spec => []TypeOK
<1>1. IInv => TypeOK
  BY DEF IInv
<1> QED BY Invariance, <1>1, PTL

(* The projection of every instance is the replay of a prefix of the log.  *)
THEOREM ProjectionCorrect == Spec => []ProjectionIsReplay
<1>1. IInv => ProjectionIsReplay
  BY DEF IInv, ProjectOK
<1> QED BY Invariance, <1>1, PTL

(* An acknowledged batch is stored where its expected sequences said.      *)
THEOREM AcknowledgementCorrect == Spec => []AcknowledgedIsStored
<1>1. IInv => AcknowledgedIsStored
  BY DEF IInv, ReplyOK
<1> QED BY Invariance, <1>1, PTL

(* The JetStream store implements the event log.                           *)
THEOREM Refinement == Spec => ImplementsEventLog
<1>1. Init => EL!Init
  BY DEF Init, EL!Init
<1>2. ASSUME IInv, [Next]_vars PROVE [EL!Next]_(history[Len(history)])
  <2> USE <1>2 DEF IInv
  <2>1. ASSUME NEW c \in Stores, Publish(c), ~UNCHANGED history
        PROVE  EL!Next
    <3> DEFINE st == history[Len(history)]
               b == call[c].batch
    <3>1. /\ pc[c] = "publish" /\ project[c].lastSeq = Len(log)
          /\ history' = Append(history, EL!Extend(project[c].streams, b))
      BY <2>1 DEF Publish
    <3>2. st = project[c].streams /\ project[c].ids = EL!UsedIds(st) /\ st \in StreamsType
      BY <3>1 DEF ProjectOK, ProjectionIsReplay, ProjectionType, LogOK
    <3>3. /\ call[c].kind = "append" /\ preconditionHolds(project[c], b) /\ EL!DistinctIds(b)
      BY <3>1 DEF CallOK
    <3>4. b \in Batches
      BY <3>3 DEF CallOK, CallType, NoCall, LoadCall, AppendCall
    <3>5. EL!Extend(st, b) \in StreamsType
      BY <3>2, <3>4, MessageExtends
    <3>6. history'[Len(history')] = EL!Extend(st, b)
      BY <3>1, <3>2, <3>5 DEF LogOK
    <3>7. EL!ExpectedHolds(st, b) /\ EL!FreshIds(st, b)
      BY <3>2, <3>3 DEF preconditionHolds, EL!ExpectedHolds, EL!FreshIds
    <3>8. EL!AppendBatch(b)
      BY <3>3, <3>6, <3>7 DEF EL!AppendBatch
    <3> QED BY <3>4, <3>8 DEF EL!Next
  <2>2. CASE PublishForeign
    <3>1. history' = Append(history, history[Len(history)])
      BY <2>2 DEF PublishForeign
    <3>2. history'[Len(history')] = history[Len(history)]
      BY <3>1 DEF LogOK
    <3> QED BY <3>2
  <2>3. CASE UNCHANGED history
    BY <2>3
  <2>4. UNCHANGED history \/ PublishForeign \/ \E c \in Stores : Publish(c)
    BY DEF Next, vars, StoreStep, BeginAppend, BeginLoad, Begin, Sync, Reload, Replay,
           AnswerLoad, Prepare, Acknowledge, Recheck, RequestFails, Restart, Discard
  <2> QED BY <2>1, <2>2, <2>3, <2>4
<1> QED BY Invariance, <1>1, <1>2, PTL DEF Spec, ImplementsEventLog, EL!Spec

(* A load misses nothing that was stored before it was called, as long as  *)
(* the retention limits of the JetStream stream keep its newest message.   *)
THEOREM LoadsAreFresh == Spec => [](KeepsNewest => LoadIsFresh)
<1>1. Init => FreshOK
  <2> SUFFICES ASSUME Init PROVE \A c \in Stores : FreshCall(c) /\ FreshReply(c)
    BY DEF Init, FreshOK
  <2> QED BY DEF Init, FreshCall, FreshReply, NoCall, NoReply
<1>2. IInv /\ [Next]_vars /\ FreshOK => FreshOK'
  BY FreshStep
<1>3. FreshOK => (KeepsNewest => LoadIsFresh)
  BY DEF FreshOK, FreshReply, LoadIsFresh
<1> QED BY Invariance, <1>1, <1>2, <1>3, PTL DEF Spec
=============================================================================
