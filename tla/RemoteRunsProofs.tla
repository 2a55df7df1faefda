-------------------------- MODULE RemoteRunsProofs --------------------------
(***************************************************************************)
(* Proofs about RemoteRuns, for every capacity of the channels and every   *)
(* number of events and failures: the remote handle implements the         *)
(* contract of the client interface, and what it streams is the run.       *)
(***************************************************************************)
EXTENDS RemoteRuns, SequenceTheorems, TLAPS

-----------------------------------------------------------------------------
(* The handle: the result is there from the moment execute leaves the      *)
(* post, and the two channels are closed by its last two steps.            *)

Undecided == {"open", "post"}
Decided == {"cancel", "cancelling", "drain", "close", "done", "over"}

HandleInv ==
    /\ pc \in Undecided \cup {"await"} \cup Decided
    /\ pc \in Undecided => result = "none"
    /\ pc = "await" => result = "ok"
    /\ pc \in Decided => result \in {"ok", "failed"}
    /\ eventsClosed <=> pc \in {"done", "over"}
    /\ doneClosed <=> pc = "over"

LEMMA HandleInit == Init => HandleInv /\ Contract!Init
<1> SUFFICES ASSUME Init PROVE HandleInv /\ Contract!Init
  OBVIOUS
<1>1. HandleInv
  BY DEF Init, HandleInv, Undecided, Decided
<1>2. Contract!Init
  BY DEF Init, Contract!Init
<1> QED BY <1>1, <1>2

(* Every step is one of execute, or leaves the handle alone.               *)
LEMMA OthersLeaveHandle ==
    ASSUME [Next]_vars, ~Execute
    PROVE  UNCHANGED handleVars
BY DEF Next, Server, handleSubmit, RunEmits, RunCompletes, RunFails, Emits, ForeignEmits,
       StreamBreaks, Reader, ReaderReads, flushSSEEvent, DecodeFails, ReadFails, ReadEnds,
       ReaderEnds, Forward, ForwardTakes, ForwardFails, ForwardEmits, ForwardTimesOut,
       ForwardPanics, Forwarded, ReadEvent, ContextEnds, vars, handleVars

LEMMA HandleStep ==
    ASSUME HandleInv, [Next]_vars
    PROVE  HandleInv' /\ [Contract!Next]_(Contract!contractVars)
<1> USE DEF HandleInv, Undecided, Decided
<1> DEFINE told == IF pc = "await" THEN "none" ELSE result
<1>1. CASE ~Execute
  BY <1>1, OthersLeaveHandle DEF handleVars, Contract!contractVars
<1>2. ASSUME UNCHANGED <<told, doneClosed, eventsClosed>>
      PROVE  UNCHANGED Contract!contractVars
  BY <1>2 DEF Contract!contractVars
<1>3. ASSUME told = "none", told' \in {"ok", "failed"}, UNCHANGED <<doneClosed, eventsClosed>>
      PROVE  Contract!Next
  <2>1. \E k \in {"ok", "failed"} : Contract!SetResult(Run, k)
    BY <1>3 DEF Contract!SetResult
  <2> QED BY <2>1 DEF Contract!Next
<1>4. CASE openEventStream
  BY <1>2, <1>4 DEF openEventStream, Step
<1>5. CASE OpenFails
  BY <1>3, <1>5 DEF OpenFails, Step, SetResult
<1>6. CASE PostReturns
  <2>1. CASE Step("post", "await") /\ SetResult("ok") /\ UNCHANGED <<doneClosed, eventsClosed>>
    BY <1>2, <2>1 DEF Step, SetResult
  <2>2. CASE Step("post", "cancel") /\ SetResult("failed") /\ UNCHANGED <<doneClosed, eventsClosed>>
    BY <1>3, <2>2 DEF Step, SetResult
  <2> QED BY <1>6, <2>1, <2>2 DEF PostReturns
<1>7. CASE PostFails
  BY <1>3, <1>7 DEF PostFails, Step, SetResult
<1>8. CASE AwaitForwarder
  BY <1>3, <1>8 DEF AwaitForwarder, Step, SetResult
<1>9. CASE AwaitTimesOut
  BY <1>3, <1>9 DEF AwaitTimesOut, Step, SetResult
<1>10. CASE CancelStream \/ ReaderGone \/ Drained
  BY <1>2, <1>10 DEF CancelStream, ReaderGone, Drained, Step
<1>11. CASE CloseEvents
  <2>1. HandleInv' /\ told # "none" /\ ~eventsClosed /\ eventsClosed' /\ UNCHANGED <<told, doneClosed>>
    BY <1>11 DEF CloseEvents, Step
  <2>2. Contract!CloseEvents(Run)
    BY <2>1 DEF Contract!CloseEvents
  <2> QED BY <2>1, <2>2 DEF Contract!Next
<1>12. CASE CloseDone
  <2>1. HandleInv' /\ told # "none" /\ ~doneClosed /\ doneClosed' /\ UNCHANGED <<told, eventsClosed>>
    BY <1>12 DEF CloseDone, Step
  <2>2. Contract!CloseDone(Run)
    BY <2>1 DEF Contract!CloseDone
  <2> QED BY <2>1, <2>2 DEF Contract!Next
<1> QED
  BY <1>1, <1>4, <1>5, <1>6, <1>7, <1>8, <1>9, <1>10, <1>11, <1>12 DEF Execute

(* The remote handle is a run handle: its result is set once, before       *)
(* either of its channels is closed.                                       *)
THEOREM Refinement == Spec => ImplementsContract
<1> QED BY HandleInit, HandleStep, PTL DEF Spec, ImplementsContract, Contract!Spec

-----------------------------------------------------------------------------
(* The events on their way, from the channel of the handle back to the     *)
(* server.  Steps append to them, take the first, or drop some.            *)

Kinds == {"", "emitted", "RunCompleted", "RunFailed"}
EventType == [own : BOOLEAN, n : Nat, kind : Kinds]
Flow == carried \o out \o hand \o wire

(* The events of the run in s are increasing, between lo and hi.           *)
Ordered(s, lo, hi) ==
    /\ \A i \in 1 .. Len(s) : s[i].own => lo < s[i].n /\ s[i].n <= hi
    /\ \A i, j \in 1 .. Len(s) : i < j /\ s[i].own /\ s[j].own => s[i].n < s[j].n

(* They are all the events after the first lo, up to some event; up to hi  *)
(* when nothing has been cut off.                                          *)
Covers(s, lo, hi, whole) ==
    \E m \in Nat :
        /\ m <= hi /\ (whole => m = hi)
        /\ \A i \in 1 .. Len(s) : s[i].own => s[i].n <= m
        /\ \A n \in Nat : lo < n /\ n <= m => \E i \in 1 .. Len(s) : s[i].own /\ s[i].n = n

(* A terminal event of the run is its last, and tells how the run ended.   *)
Outcome(e, at) ==
    \/ e.kind = "RunCompleted" /\ at = "completed"
    \/ e.kind = "RunFailed" /\ at = "failed"
Closing(s, hi, at) ==
    \A i \in 1 .. Len(s) :
        s[i].own /\ s[i].kind \in Terminal => s[i].n = hi /\ Outcome(s[i], at)

LEMMA EventFields ==
    ASSUME NEW e \in EventType PROVE e.n \in Nat /\ e.own \in BOOLEAN /\ e.kind \in Kinds
BY DEF EventType

LEMMA EventsOf ==
    ASSUME NEW s \in Seq(EventType)
    PROVE  \A i \in 1 .. Len(s) : s[i] \in EventType /\ s[i].n \in Nat
<1>1. \A i \in 1 .. Len(s) : s[i] \in EventType
  OBVIOUS
<1> QED BY <1>1, EventFields

LEMMA SeqsOfEvents ==
    ASSUME NEW s \in Seq(EventType), NEW t \in Seq(EventType), NEW e \in EventType
    PROVE  /\ Append(s, e) \in Seq(EventType) /\ s \o t \in Seq(EventType)
           /\ << >> \in Seq(EventType) /\ <<e>> \in Seq(EventType)
OBVIOUS

LEMMA OrderedAppend ==
    ASSUME NEW s \in Seq(EventType), NEW e \in EventType, NEW lo \in Nat, NEW hi \in Nat,
           lo <= hi, Ordered(s, lo, hi), e.own => e.n = hi + 1
    PROVE  Ordered(Append(s, e), lo, hi + 1) /\ Ordered(s, lo, hi + 1)
<1> DEFINE t == Append(s, e)
<1>1. Len(t) = Len(s) + 1 /\ t[Len(t)] = e /\ \A i \in 1 .. Len(s) : t[i] = s[i]
  OBVIOUS
<1>2. e.n \in Nat /\ \A i \in 1 .. Len(s) : s[i].n \in Nat
  BY EventFields, EventsOf
<1> HIDE DEF t
<1>3. Ordered(s, lo, hi + 1)
  BY <1>2 DEF Ordered
<1>4. \A i \in 1 .. Len(t) : t[i].own => lo < t[i].n /\ t[i].n <= hi + 1
  BY <1>1, <1>2, <1>3 DEF Ordered
<1>5. ASSUME NEW i \in 1 .. Len(t), NEW j \in 1 .. Len(t), i < j, t[i].own, t[j].own
      PROVE  t[i].n < t[j].n
  <2>1. i \in 1 .. Len(s) /\ t[i] = s[i] /\ s[i].n <= hi
    BY <1>1, <1>5 DEF Ordered
  <2>2. CASE j = Len(t)
    BY <1>1, <1>2, <1>5, <2>1, <2>2
  <2>3. CASE j \in 1 .. Len(s)
    BY <1>1, <1>5, <2>1, <2>3 DEF Ordered
  <2> QED BY <1>1, <2>2, <2>3
<1> QED BY <1>3, <1>4, <1>5 DEF Ordered, t

LEMMA CoversAppend ==
    ASSUME NEW s \in Seq(EventType), NEW e \in EventType, NEW lo \in Nat, NEW hi \in Nat,
           NEW w \in BOOLEAN, w, Covers(s, lo, hi, w), e.own, e.n = hi + 1
    PROVE  Covers(Append(s, e), lo, hi + 1, w)
<1> DEFINE t == Append(s, e)
<1>1. Len(t) = Len(s) + 1 /\ t[Len(t)] = e /\ \A i \in 1 .. Len(s) : t[i] = s[i]
  OBVIOUS
<1>2. /\ \A i \in 1 .. Len(s) : s[i].own => s[i].n <= hi
      /\ \A n \in Nat : lo < n /\ n <= hi => \E i \in 1 .. Len(s) : s[i].own /\ s[i].n = n
  BY DEF Covers
<1>3. \A i \in 1 .. Len(t) : t[i].own => t[i].n <= hi + 1
  <2>1. \A i \in 1 .. Len(s) : s[i].n \in Nat
    BY EventsOf
  <2> HIDE DEF t
  <2> QED BY <1>1, <1>2, <2>1
<1>4. ASSUME NEW n \in Nat, lo < n, n <= hi + 1
      PROVE  \E i \in 1 .. Len(t) : t[i].own /\ t[i].n = n
  <2>1. CASE n = hi + 1
    BY <1>1, <2>1
  <2>2. CASE n <= hi
    BY <1>1, <1>2, <1>4, <2>2
  <2> QED BY <1>4, <2>1, <2>2
<1> QED BY <1>3, <1>4 DEF Covers

LEMMA CoversLess ==
    ASSUME NEW s \in Seq(EventType), NEW lo \in Nat, NEW hi \in Nat,
           NEW w \in BOOLEAN, ~w, Covers(s, lo, hi, w)
    PROVE  Covers(s, lo, hi + 1, w)
<1>1. PICK m \in Nat :
          /\ m <= hi /\ (w => m = hi)
          /\ \A i \in 1 .. Len(s) : s[i].own => s[i].n <= m
          /\ \A n \in Nat : lo < n /\ n <= m => \E i \in 1 .. Len(s) : s[i].own /\ s[i].n = n
  BY DEF Covers
<1>2. m <= hi + 1
  BY <1>1
<1> QED BY <1>1, <1>2 DEF Covers

LEMMA OrderedDrop ==
    ASSUME NEW a \in Seq(EventType), NEW b \in Seq(EventType), NEW c \in Seq(EventType),
           NEW lo, NEW hi, Ordered(a \o b \o c, lo, hi)
    PROVE  Ordered(a \o c, lo, hi)
<1> DEFINE t == a \o b \o c
           u == a \o c
           at(i) == IF i <= Len(a) THEN i ELSE i + Len(b)
<1>1. \A i \in 1 .. Len(u) : at(i) \in 1 .. Len(t) /\ u[i] = t[at(i)]
  OBVIOUS
<1>2. \A i, j \in 1 .. Len(u) : i < j => at(i) < at(j)
  OBVIOUS
<1> HIDE DEF at, t, u
<1> QED BY <1>1, <1>2 DEF Ordered, t, u

LEMMA OrderedTake ==
    ASSUME NEW s \in Seq(EventType), NEW e \in EventType, NEW lo \in Nat, NEW hi \in Nat,
           Ordered(<<e>> \o s, lo, hi)
    PROVE  /\ Ordered(s, lo, hi)
           /\ e.own => Ordered(s, e.n, hi) /\ lo < e.n /\ e.n <= hi
<1> DEFINE t == <<e>> \o s
<1>1. Len(t) = Len(s) + 1 /\ t[1] = e /\ \A i \in 1 .. Len(s) : t[i + 1] = s[i]
  OBVIOUS
<1> HIDE DEF t
<1>2. Ordered(t, lo, hi)
  BY DEF t
<1>3. e.n \in Nat /\ \A i \in 1 .. Len(s) : s[i].n \in Nat
  BY EventFields, EventsOf
<1>4. \A i \in 1 .. Len(s) : i + 1 \in 1 .. Len(t) /\ 1 < i + 1
  BY <1>1
<1>5. 1 \in 1 .. Len(t)
  BY <1>1
<1>6. e.own => /\ lo < e.n /\ e.n <= hi
               /\ \A i \in 1 .. Len(s) : s[i].own => e.n < s[i].n
  BY <1>1, <1>2, <1>4, <1>5 DEF Ordered
<1>7. \A i \in 1 .. Len(s) : s[i].own => lo < s[i].n /\ s[i].n <= hi
  BY <1>1, <1>2, <1>4 DEF Ordered
<1>8. \A i, j \in 1 .. Len(s) : i < j /\ s[i].own /\ s[j].own => s[i].n < s[j].n
  BY <1>1, <1>2, <1>4 DEF Ordered
<1> QED BY <1>6, <1>7, <1>8 DEF Ordered

(* What the steps of the reader and of the forwarder do to the flow.       *)
LEMMA ReadMoves ==
    ASSUME NEW a \in Seq(EventType), NEW w \in Seq(EventType), w # << >>
    PROVE  a \o <<Head(w)>> \o Tail(w) = a \o << >> \o w
<1>1. Head(w) \in EventType /\ Tail(w) \in Seq(EventType) /\ <<Head(w)>> \in Seq(EventType)
  OBVIOUS
<1>2. <<Head(w)>> \o Tail(w) = w
  BY <1>1
<1> QED BY <1>1, <1>2, ConcatAssociative, ConcatEmptySeq

LEMMA FlushMoves ==
    ASSUME NEW a \in Seq(EventType), NEW b \in Seq(EventType), NEW h \in Seq(EventType),
           NEW w \in Seq(EventType)
    PROVE  a \o (b \o h) \o << >> \o w = a \o b \o h \o w
<1>1. a \o (b \o h) \in Seq(EventType)
  OBVIOUS
<1> QED BY <1>1, ConcatAssociative, ConcatEmptySeq, SMTT(30)

LEMMA TakeFirst ==
    ASSUME NEW e \in EventType, NEW b \in Seq(EventType), NEW h \in Seq(EventType),
           NEW w \in Seq(EventType)
    PROVE  <<e>> \o b \o h \o w = <<e>> \o (<< >> \o b \o h \o w)
<1>1. <<e>> \in Seq(EventType) /\ << >> \o b = b /\ b \o h \in Seq(EventType)
  BY ConcatEmptySeq
<1> QED BY <1>1, ConcatAssociative, SMTT(30)

LEMMA AppendsLast ==
    ASSUME NEW a \in Seq(EventType), NEW w \in Seq(EventType), NEW e \in EventType
    PROVE  a \o Append(w, e) = Append(a \o w, e)
OBVIOUS

-----------------------------------------------------------------------------
(* Every channel holds events, and the two that are in somebody's hands    *)
(* are there while it sends them.                                          *)
ShapeInv ==
    /\ wire \in Seq(EventType) /\ out \in Seq(EventType) /\ hand \in Seq(EventType)
    /\ pc = "open" => reader = "none" /\ forwarder = "none"
    /\ reader = "sending" \/ hand = << >>
    /\ IF forwarder = "emitting" THEN \E e \in EventType : e.own /\ carried = <<e>>
                                 ELSE carried = << >>
    /\ stream \in [size : Nat, last : EventType] /\ published \in Nat

LEMMA ShapeStep ==
    ASSUME ShapeInv, [Next]_vars
    PROVE  ShapeInv'
<1> USE DEF ShapeInv, handleVars
<1>1. CASE UNCHANGED vars
  BY <1>1 DEF vars, serverVars, readerVars, forwardVars, handleVars
<1>2. CASE handleSubmit \/ StreamBreaks \/ ReadEvent \/ ContextEnds
  BY <1>2 DEF handleSubmit, StreamBreaks, ReadEvent, ContextEnds, serverVars, readerVars,
              forwardVars, handleVars
<1>3. ASSUME NEW kind \in Kinds, NEW next, Emits(kind, next) PROVE ShapeInv'
  <2>1. PICK e \in EventType : e = Event(TRUE, published + 1, kind)
    <3>1. published + 1 \in Nat
      OBVIOUS
    <3> QED BY <3>1 DEF Event, EventType
  <2>2. wire' = Append(wire, e) \/ wire' = wire
    BY <1>3, <2>1 DEF Emits, Deliver
  <2>3. wire' \in Seq(EventType)
    <3>1. wire \in Seq(EventType)
      OBVIOUS
    <3> QED BY ONLY <2>2, <3>1, SeqsOfEvents
  <2> QED BY <1>3, <2>3 DEF Emits, readerVars, forwardVars
<1>4. CASE RunFails
  <2>1. CASE Emits("RunFailed", "failed")
    BY <1>3, <2>1 DEF Kinds
  <2>2. CASE UNCHANGED <<published, foreign, wire, conn, readerVars, out, forwardVars, handleVars>>
    BY <2>2 DEF readerVars, forwardVars
  <2> QED BY <1>4, <2>1, <2>2 DEF RunFails
<1>5. CASE RunEmits \/ RunCompletes
  BY <1>3, <1>5 DEF RunEmits, RunCompletes, Kinds
<1>6. CASE ForeignEmits
  <2>1. PICK e \in EventType : e = Event(FALSE, 0, "RunCompleted")
    BY DEF Event, EventType, Kinds
  <2>2. wire' = Append(wire, e) \/ wire' = wire
    BY <1>6, <2>1 DEF ForeignEmits, Deliver
  <2>3. wire' \in Seq(EventType)
    <3>1. wire \in Seq(EventType)
      OBVIOUS
    <3> QED BY ONLY <2>2, <3>1, SeqsOfEvents
  <2> QED BY <1>6, <2>3 DEF ForeignEmits, readerVars, forwardVars
<1>7. CASE Execute
  <2>1. CASE openEventStream
    BY <2>1 DEF openEventStream, Step, serverVars
  <2>2. CASE PostReturns \/ ReaderGone
    <3>1. UNCHANGED <<wire, out, hand, reader, forwarder, carried, stream, published>>
      BY <2>2 DEF PostReturns, ReaderGone, WaitBegins, serverVars, readerVars
    <3>2. pc' # "open"
      BY <2>2 DEF PostReturns, ReaderGone, Step
    <3> QED BY <3>1, <3>2
  <2>3. CASE ~openEventStream /\ ~PostReturns /\ ~ReaderGone
    BY <1>7, <2>3 DEF Execute, OpenFails, PostFails, AwaitForwarder, AwaitTimesOut, CancelStream,
          Drained, CloseEvents, CloseDone, Step, serverVars, readerVars, forwardVars
  <2> QED BY <2>1, <2>2, <2>3
<1>8. CASE Reader
  <2>1. CASE ReaderReads
    BY <2>1 DEF ReaderReads, serverVars, forwardVars
  <2>2. CASE flushSSEEvent
    <3>1. out' \in Seq(EventType)
      <4>1. out \o hand \in Seq(EventType)
        BY ConcatProperties
      <4> QED BY <2>2, <4>1 DEF flushSSEEvent
    <3> QED BY <2>2, <3>1 DEF flushSSEEvent, serverVars, forwardVars
  <2>3. CASE DecodeFails \/ ReadFails \/ ReadEnds
    BY <2>3 DEF DecodeFails, ReadFails, ReadEnds, ReaderEnds, serverVars, forwardVars
  <2> QED BY <1>8, <2>1, <2>2, <2>3 DEF Reader
<1>9. CASE Forward
  <2>1. CASE ForwardTakes
    BY <2>1 DEF ForwardTakes, serverVars, readerVars
  <2>2. CASE ForwardFails \/ ForwardPanics
    BY <2>2 DEF ForwardFails, ForwardPanics, serverVars, readerVars, forwardVars
  <2>3. CASE ForwardEmits
    <3>1. PICK e \in EventType : carried = <<e>>
      BY <2>3 DEF ForwardEmits
    <3>2. stream.size \in Nat /\ carried[1] = e
      BY <3>1
    <3>3. stream' \in [size : Nat, last : EventType]
      BY <2>3, <3>2 DEF ForwardEmits
    <3> QED BY <2>3, <3>3 DEF ForwardEmits, Forwarded, serverVars, readerVars
  <2>4. CASE ForwardTimesOut
    BY <2>4 DEF ForwardTimesOut, Forwarded, serverVars, readerVars
  <2> QED BY <1>9, <2>1, <2>2, <2>3, <2>4 DEF Forward
<1> QED
  BY <1>1, <1>2, <1>4, <1>5, <1>6, <1>7, <1>8, <1>9 DEF Next, Server

-----------------------------------------------------------------------------
(* What is on its way continues what was streamed: in order, with the      *)
(* terminal event at the end, and without a gap as long as nothing was     *)
(* given up and the stream was not stopped.                                *)
FlowInv ==
    /\ stream.last.n <= published
    /\ Ordered(Flow, stream.last.n, published)
    /\ Closing(Flow, published, server)
    /\ ~lost /\ ~Stopped => /\ stream.last.n = stream.size
                            /\ Covers(Flow, stream.size, published, conn = "open")

LEMMA FlowIsSeq ==
    ASSUME ShapeInv
    PROVE  /\ carried \in Seq(EventType) /\ carried \o out \o hand \in Seq(EventType)
           /\ Flow \in Seq(EventType)
<1>1. carried \in Seq(EventType)
  <2>1. CASE forwarder = "emitting"
    <3>1. PICK e \in EventType : carried = <<e>>
      BY <2>1 DEF ShapeInv
    <3> QED BY <3>1
  <2>2. CASE forwarder # "emitting"
    BY <2>2 DEF ShapeInv
  <2> QED BY <2>1, <2>2
<1>2. carried \o out \in Seq(EventType)
  BY <1>1, ConcatProperties DEF ShapeInv
<1>3. carried \o out \o hand \in Seq(EventType)
  BY <1>2, ConcatProperties DEF ShapeInv
<1> QED BY <1>1, <1>2, <1>3, ConcatProperties DEF ShapeInv, Flow

(* A step that leaves the events on their way alone.                       *)
LEMMA QuietStep ==
    ASSUME ShapeInv, FlowInv, UNCHANGED <<carried, out, hand, wire, stream, published, lost>>,
           server' = server \/ server \in {"idle", "running"},
           Stopped => Stopped', conn' \in {conn, "broken", "ended"} \/ published = 0
    PROVE  FlowInv'
<1>1. Flow' = Flow
  BY DEF Flow
<1>2. Closing(Flow, published, server')
  BY DEF FlowInv, Closing, Outcome
<1>3. ASSUME Covers(Flow, stream.size, published, conn = "open")
      PROVE  Covers(Flow, stream.size, published, conn' = "open")
  <2>1. CASE conn' = conn
    BY <1>3, <2>1
  <2>2. CASE conn' \in {"broken", "ended"}
    BY <1>3, <2>2 DEF Covers
  <2>3. CASE published = 0
    BY <1>3, <2>3 DEF Covers
  <2> QED BY <2>1, <2>2, <2>3
<1> QED BY <1>1, <1>2, <1>3 DEF FlowInv

(* The server publishes an event of the run.                               *)
LEMMA PublishStep ==
    ASSUME ShapeInv, FlowInv, NEW kind \in Kinds, NEW next, Emits(kind, next),
           kind \in Terminal => (kind = "RunCompleted" /\ next = "completed")
                                 \/ (kind = "RunFailed" /\ next = "failed")
    PROVE  FlowInv'
<1> DEFINE a == carried \o out \o hand
<1>1. PICK e \in EventType : e = Event(TRUE, published + 1, kind)
  <2>1. published + 1 \in Nat
    BY DEF ShapeInv
  <2> QED BY <2>1 DEF Event, EventType
<1>2. e.own /\ e.n = published + 1 /\ e.kind = kind
  BY <1>1 DEF Event
<1>3. /\ UNCHANGED <<carried, out, hand, stream, lost, conn, ctxDone, cancelled>>
      /\ published' = published + 1 /\ server = "running" /\ server' = next
      /\ (wire' = Append(wire, e) /\ Connected) \/ (wire' = wire /\ ~Connected)
  BY <1>1 DEF Emits, Deliver, forwardVars, readerVars, handleVars
<1>4. (Flow' = Append(Flow, e) /\ Connected) \/ (Flow' = Flow /\ ~Connected)
  <2>1. a \in Seq(EventType)
    BY FlowIsSeq
  <2> HIDE DEF a
  <2>2. a \o Append(wire, e) = Append(a \o wire, e)
    BY <2>1, AppendsLast DEF ShapeInv
  <2> QED BY <1>3, <2>2 DEF Flow, a
<1>5. /\ Flow \in Seq(EventType) /\ published \in Nat /\ stream.last.n \in Nat
      /\ stream.size \in Nat
  BY FlowIsSeq, EventFields DEF ShapeInv
<1>6. Ordered(Flow', stream.last.n, published + 1)
  BY <1>2, <1>4, <1>5, OrderedAppend DEF FlowInv
<1>7. Closing(Flow', published + 1, next)
  <2>1. \A i \in 1 .. Len(Flow) : ~(Flow[i].own /\ Flow[i].kind \in Terminal)
    BY <1>3 DEF FlowInv, Closing, Outcome
  <2>2. CASE Flow' = Flow
    BY <2>1, <2>2 DEF Closing
  <2>3. CASE Flow' = Append(Flow, e)
    BY <1>2, <1>5, <2>1, <2>3 DEF Closing, Outcome
  <2> QED BY <1>4, <2>2, <2>3
<1>8. ASSUME ~lost, ~Stopped
      PROVE  Covers(Flow', stream.size, published + 1, conn = "open")
  <2> DEFINE w == conn = "open"
  <2>1. w \in BOOLEAN /\ w = Connected /\ Covers(Flow, stream.size, published, w)
    BY <1>8 DEF FlowInv, Connected
  <2> HIDE DEF w
  <2>2. CASE Flow' = Append(Flow, e) /\ Connected
    BY <1>2, <1>5, <2>1, <2>2, CoversAppend DEF w
  <2>3. CASE Flow' = Flow /\ ~Connected
    BY <1>5, <2>1, <2>3, CoversLess DEF w
  <2> QED BY <1>4, <2>2, <2>3
<1> QED BY <1>3, <1>5, <1>6, <1>7, <1>8 DEF FlowInv, Stopped

(* The same events, differently placed.                                    *)
LEMMA MovedStep ==
    ASSUME FlowInv, Flow' = Flow, UNCHANGED <<stream, published, lost, server, conn, Stopped>>
    PROVE  FlowInv'
BY DEF FlowInv

LEMMA CoversPasses ==
    ASSUME NEW s \in Seq(EventType), NEW e \in EventType, NEW lo \in Nat, NEW hi \in Nat,
           NEW w \in BOOLEAN, ~e.own, Covers(s, lo, hi, w)
    PROVE  Covers(Append(s, e), lo, hi, w)
<1> DEFINE t == Append(s, e)
<1>1. Len(t) = Len(s) + 1 /\ t[Len(t)] = e /\ \A i \in 1 .. Len(s) : t[i] = s[i]
  OBVIOUS
<1>2. 1 .. Len(t) = 1 .. Len(s) \cup {Len(t)}
  BY <1>1
<1> HIDE DEF t
<1>3. PICK m \in Nat :
          /\ m <= hi /\ (w => m = hi)
          /\ \A i \in 1 .. Len(s) : s[i].own => s[i].n <= m
          /\ \A n \in Nat : lo < n /\ n <= m => \E i \in 1 .. Len(s) : s[i].own /\ s[i].n = n
  BY DEF Covers
<1>4. \A i \in 1 .. Len(t) : t[i].own => t[i].n <= m
  BY <1>1, <1>2, <1>3
<1>5. \A n \in Nat : lo < n /\ n <= m => \E i \in 1 .. Len(t) : t[i].own /\ t[i].n = n
  BY <1>1, <1>2, <1>3
<1>6. Covers(t, lo, hi, w)
  BY <1>3, <1>4, <1>5 DEF Covers
<1> QED BY <1>6 DEF t

LEMMA CoversSkips ==
    ASSUME NEW s \in Seq(EventType), NEW e \in EventType, NEW lo \in Nat, NEW hi \in Nat,
           NEW w \in BOOLEAN, ~e.own, Covers(<<e>> \o s, lo, hi, w)
    PROVE  Covers(s, lo, hi, w)
<1> DEFINE t == <<e>> \o s
<1>1. Len(t) = Len(s) + 1 /\ t[1] = e /\ \A i \in 1 .. Len(s) : t[i + 1] = s[i]
  OBVIOUS
<1>2. PICK m \in Nat :
          /\ m <= hi /\ (w => m = hi)
          /\ \A i \in 1 .. Len(t) : t[i].own => t[i].n <= m
          /\ \A n \in Nat : lo < n /\ n <= m => \E i \in 1 .. Len(t) : t[i].own /\ t[i].n = n
  BY DEF Covers
<1> HIDE DEF t
<1>3. \A i \in 1 .. Len(s) : s[i].own => s[i].n <= m
  BY <1>1, <1>2
<1>4. ASSUME NEW n \in Nat, lo < n, n <= m
      PROVE  \E i \in 1 .. Len(s) : s[i].own /\ s[i].n = n
  <2>1. PICK i \in 1 .. Len(t) : t[i].own /\ t[i].n = n
    BY <1>2, <1>4
  <2>2. i - 1 \in 1 .. Len(s) /\ t[i] = s[i - 1]
    BY <1>1, <2>1
  <2> QED BY <2>1, <2>2
<1> QED BY <1>2, <1>3, <1>4 DEF Covers

(* Taking the first event, the next of the run, into the stream.           *)
LEMMA CoversTake ==
    ASSUME NEW s \in Seq(EventType), NEW e \in EventType, NEW lo \in Nat, NEW hi \in Nat,
           NEW w \in BOOLEAN, e.own, Ordered(<<e>> \o s, lo, hi), Covers(<<e>> \o s, lo, hi, w)
    PROVE  e.n = lo + 1 /\ Covers(s, lo + 1, hi, w)
<1> DEFINE t == <<e>> \o s
<1>1. Len(t) = Len(s) + 1 /\ t[1] = e /\ \A i \in 1 .. Len(s) : t[i + 1] = s[i]
  OBVIOUS
<1>2. PICK m \in Nat :
          /\ m <= hi /\ (w => m = hi)
          /\ \A i \in 1 .. Len(t) : t[i].own => t[i].n <= m
          /\ \A n \in Nat : lo < n /\ n <= m => \E i \in 1 .. Len(t) : t[i].own /\ t[i].n = n
  BY DEF Covers
<1>3. e.n \in Nat /\ \A i \in 1 .. Len(s) : s[i].n \in Nat
  BY EventFields, EventsOf
<1>4. Ordered(t, lo, hi)
  BY DEF t
<1> HIDE DEF t
<1>5. \A i \in 1 .. Len(t) : i # 1 => i - 1 \in 1 .. Len(s) /\ t[i] = s[i - 1]
  BY <1>1
<1>6. lo < e.n /\ e.n <= m /\ \A i \in 1 .. Len(t) : i # 1 /\ t[i].own => e.n < t[i].n
  BY <1>1, <1>2, <1>4 DEF Ordered
<1>7. e.n = lo + 1
  <2>1. PICK i \in 1 .. Len(t) : t[i].own /\ t[i].n = lo + 1
    <3>1. lo + 1 \in Nat /\ lo < lo + 1 /\ lo + 1 <= m
      BY <1>3, <1>6
    <3> QED BY <1>2, <3>1
  <2>2. ~(i # 1)
    BY <1>3, <1>6, <2>1
  <2> QED BY <1>1, <2>1, <2>2
<1>8. \A i \in 1 .. Len(s) : s[i].own => s[i].n <= m
  BY <1>1, <1>2
<1>9. ASSUME NEW n \in Nat, lo + 1 < n, n <= m
      PROVE  \E i \in 1 .. Len(s) : s[i].own /\ s[i].n = n
  <2>1. PICK i \in 1 .. Len(t) : t[i].own /\ t[i].n = n
    BY <1>2, <1>9
  <2>2. i # 1
    BY <1>1, <1>7, <1>9, <2>1
  <2> QED BY <1>5, <2>1, <2>2
<1> QED BY <1>2, <1>7, <1>8, <1>9 DEF Covers

LEMMA ClosingRest ==
    ASSUME NEW a \in Seq(EventType), NEW b \in Seq(EventType), NEW c \in Seq(EventType),
           NEW hi, NEW at, Closing(a \o b \o c, hi, at)
    PROVE  Closing(a \o c, hi, at)
<1> DEFINE t == a \o b \o c
           u == a \o c
<1>1. \A i \in 1 .. Len(u) : \E j \in 1 .. Len(t) : u[i] = t[j]
  <2> SUFFICES ASSUME NEW i \in 1 .. Len(u) PROVE \E j \in 1 .. Len(t) : u[i] = t[j]
    OBVIOUS
  <2>1. CASE i <= Len(a)
    <3>1. i \in 1 .. Len(t) /\ u[i] = t[i]
      BY <2>1
    <3> QED BY <3>1
  <2>2. CASE ~(i <= Len(a))
    <3>1. i + Len(b) \in 1 .. Len(t) /\ u[i] = t[i + Len(b)]
      BY <2>2
    <3> QED BY <3>1
  <2> QED BY <2>1, <2>2
<1> HIDE DEF t, u
<1>2. Closing(t, hi, at)
  BY DEF t
<1>3. Closing(u, hi, at)
  BY <1>1, <1>2 DEF Closing
<1> QED BY <1>3 DEF u

(* An event of another run is published.                                   *)
LEMMA ForeignStep ==
    ASSUME ShapeInv, FlowInv, ForeignEmits
    PROVE  FlowInv'
<1> DEFINE a == carried \o out \o hand
           w == conn = "open"
<1>1. PICK e \in EventType : e = Event(FALSE, 0, "RunCompleted")
  BY DEF Event, EventType, Kinds
<1>2. ~e.own
  BY <1>1 DEF Event
<1>3. /\ UNCHANGED <<carried, out, hand, stream, published, server, lost, conn, ctxDone, cancelled>>
      /\ wire' = Append(wire, e)
  BY <1>1 DEF ForeignEmits, Deliver, forwardVars, readerVars, handleVars
<1>4. Flow' = Append(Flow, e)
  <2>1. a \in Seq(EventType)
    BY FlowIsSeq
  <2> HIDE DEF a
  <2>2. a \o Append(wire, e) = Append(a \o wire, e)
    BY <2>1, AppendsLast DEF ShapeInv
  <2> QED BY <1>3, <2>2 DEF Flow, a
<1>5. /\ Flow \in Seq(EventType) /\ published \in Nat /\ stream.last.n \in Nat
      /\ stream.size \in Nat
  BY FlowIsSeq, EventFields DEF ShapeInv
<1> DEFINE t == Append(Flow, e)
<1>6. Len(t) = Len(Flow) + 1 /\ t[Len(t)] = e /\ \A i \in 1 .. Len(Flow) : t[i] = Flow[i]
  BY <1>5
<1>7. 1 .. Len(t) = 1 .. Len(Flow) \cup {Len(t)}
  BY <1>5, <1>6
<1> HIDE DEF t
<1>8. Ordered(t, stream.last.n, published)
  <2>1. Ordered(Flow, stream.last.n, published)
    BY DEF FlowInv
  <2>2. \A i \in 1 .. Len(t) : t[i].own => i \in 1 .. Len(Flow) /\ t[i] = Flow[i]
    BY <1>2, <1>6, <1>7
  <2> QED BY <2>1, <2>2 DEF Ordered
<1>9. Closing(t, published, server)
  BY <1>2, <1>6, <1>7 DEF FlowInv, Closing
<1>10. w \in BOOLEAN
  OBVIOUS
<1>11. ASSUME ~lost, ~Stopped
       PROVE  Covers(t, stream.size, published, w)
  <2>1. Covers(Flow, stream.size, published, w)
    BY <1>11 DEF FlowInv
  <2> HIDE DEF w
  <2>2. Covers(Append(Flow, e), stream.size, published, w)
    BY <1>2, <1>5, <1>10, <2>1, CoversPasses
  <2> QED BY <2>2 DEF t
<1> QED BY <1>3, <1>4, <1>5, <1>8, <1>9, <1>11 DEF FlowInv, Stopped, t

(* The reader moves an event on, or drops it when the stream is stopped.   *)
LEMMA ReaderStep ==
    ASSUME ShapeInv, FlowInv, ReaderReads \/ flushSSEEvent
    PROVE  FlowInv'
<1>1. UNCHANGED <<carried, stream, published, server, lost, conn, ctxDone, cancelled>>
  BY DEF ReaderReads, flushSSEEvent, serverVars, forwardVars, handleVars
<1>2. UNCHANGED Stopped
  BY <1>1 DEF Stopped
<1>3. CASE ReaderReads
  <2>1. hand = << >> /\ hand' = <<Head(wire)>> /\ wire' = Tail(wire) /\ out' = out /\ wire # << >>
    BY <1>3 DEF ReaderReads, ShapeInv
  <2>2. carried \o out \in Seq(EventType)
    BY FlowIsSeq, ConcatProperties DEF ShapeInv
  <2>3. Flow' = Flow
    BY <1>1, <2>1, <2>2, ReadMoves DEF Flow, ShapeInv
  <2> QED BY <1>1, <1>2, <2>3, MovedStep
<1>4. CASE flushSSEEvent /\ out' = out \o hand
  <2>1. hand' = << >> /\ wire' = wire
    BY <1>4 DEF flushSSEEvent
  <2>2. Flow' = Flow
    BY <1>1, <1>4, <2>1, FlowIsSeq, FlushMoves, SMTT(30) DEF Flow, ShapeInv
  <2> QED BY <1>1, <1>2, <2>2, MovedStep
<1>5. CASE flushSSEEvent /\ Stopped /\ out' = out
  <2> DEFINE a == carried \o out
  <2>1. hand' = << >> /\ wire' = wire
    BY <1>5 DEF flushSSEEvent
  <2>2. a \in Seq(EventType) /\ hand \in Seq(EventType) /\ wire \in Seq(EventType)
    BY FlowIsSeq, ConcatProperties DEF ShapeInv
  <2>3. Flow = a \o hand \o wire
    BY DEF Flow
  <2>4. Flow' = a \o wire
    BY <1>1, <1>5, <2>1, <2>2, ConcatEmptySeq DEF Flow
  <2> HIDE DEF a
  <2>5. Ordered(Flow', stream.last.n, published) /\ Closing(Flow', published, server)
    BY <2>2, <2>3, <2>4, OrderedDrop, ClosingRest DEF FlowInv
  <2> QED BY <1>1, <1>2, <1>5, <2>5 DEF FlowInv
<1> QED BY <1>3, <1>4, <1>5 DEF flushSSEEvent

(* The forwarder takes an event.                                           *)
LEMMA TakeStep ==
    ASSUME ShapeInv, FlowInv, ForwardTakes
    PROVE  FlowInv'
<1> DEFINE e == Head(out)
           w == conn = "open"
<1>1. /\ UNCHANGED <<hand, wire, stream, published, server, lost, conn, ctxDone, cancelled>>
      /\ carried = << >> /\ out # << >> /\ out' = Tail(out)
      /\ carried' = IF e.own THEN <<e>> ELSE << >>
  BY DEF ForwardTakes, ShapeInv, serverVars, readerVars, handleVars
<1>2. UNCHANGED Stopped
  BY <1>1 DEF Stopped
<1>3. e \in EventType /\ Tail(out) \in Seq(EventType) /\ out = <<e>> \o Tail(out)
  BY <1>1 DEF ShapeInv
<1>4. /\ Flow \in Seq(EventType) /\ published \in Nat /\ stream.last.n \in Nat
      /\ stream.size \in Nat
  BY FlowIsSeq, EventFields DEF ShapeInv
<1> HIDE DEF e
<1>5. Flow = <<e>> \o Tail(out) \o hand \o wire
  BY <1>1, <1>3, ConcatEmptySeq DEF Flow, ShapeInv
<1>6. CASE e.own
  <2>1. Flow' = Flow
    BY <1>1, <1>5, <1>6 DEF Flow
  <2> QED BY <1>1, <1>2, <2>1, MovedStep
<1>7. CASE ~e.own
  <2> DEFINE f == << >> \o Tail(out) \o hand \o wire
  <2>1. Flow' = f
    BY <1>1, <1>7 DEF Flow
  <2>2. Flow = <<e>> \o f
    <3>1. hand \in Seq(EventType) /\ wire \in Seq(EventType)
      BY DEF ShapeInv
    <3> QED BY <1>3, <1>5, <3>1, TakeFirst, Zenon
  <2>3. f \in Seq(EventType)
    <3>1. << >> \o Tail(out) \in Seq(EventType)
      BY <1>3, ConcatEmptySeq
    <3>2. << >> \o Tail(out) \o hand \in Seq(EventType)
      BY <3>1, ConcatProperties DEF ShapeInv
    <3> QED BY <3>2, ConcatProperties DEF ShapeInv
  <2> HIDE DEF f
  <2>4. Ordered(f, stream.last.n, published)
    BY <1>3, <1>4, <2>2, <2>3, OrderedTake DEF FlowInv
  <2>5. Closing(f, published, server)
    <3>1. << >> \in Seq(EventType) /\ <<e>> \in Seq(EventType) /\ << >> \o <<e>> = <<e>>
          /\ << >> \o f = f
      BY <1>3, <2>3, ConcatEmptySeq
    <3> QED BY <2>2, <2>3, <3>1, ClosingRest DEF FlowInv
  <2>6. w \in BOOLEAN
    OBVIOUS
  <2>7. ASSUME ~lost, ~Stopped PROVE Covers(f, stream.size, published, w)
    <3>1. Covers(Flow, stream.size, published, w)
      BY <2>7 DEF FlowInv
    <3> HIDE DEF w
    <3>2. ASSUME NEW lo \in Nat, NEW hi \in Nat, Covers(<<e>> \o f, lo, hi, w)
          PROVE  Covers(f, lo, hi, w)
      BY <1>3, <1>7, <2>3, <2>6, <3>2, CoversSkips
    <3> QED BY <1>4, <2>2, <3>1, <3>2
  <2> QED BY <1>1, <1>2, <2>1, <2>4, <2>5, <2>7 DEF FlowInv
<1> QED BY <1>6, <1>7

(* The forwarder puts its event into the stream, or gives up on it.  The   *)
(* terminal event ends it, and leaves the stream complete.                 *)
LEMMA EmitStep ==
    ASSUME ShapeInv, FlowInv, ForwardEmits \/ ForwardTimesOut
    PROVE  /\ FlowInv'
           /\ ForwardEmits => StreamInOrder
           /\ ForwardEmits /\ forwarder' = "ended" /\ ~lost /\ ~Stopped =>
                 stream'.size = published /\ Outcome(stream'.last, server)
<1> DEFINE f == << >> \o out \o hand \o wire
           w == conn = "open"
<1>1. PICK e \in EventType : e.own /\ carried = <<e>>
  BY DEF ForwardEmits, ForwardTimesOut, ShapeInv
<1>2. /\ UNCHANGED <<out, hand, wire, published, server, conn, ctxDone, cancelled>>
      /\ carried' = << >> /\ carried[1] = e
      /\ forwarder' = IF e.kind \in Terminal THEN "ended" ELSE "waiting"
  BY <1>1 DEF ForwardEmits, ForwardTimesOut, Forwarded, serverVars, readerVars, handleVars
<1>3. UNCHANGED Stopped
  BY <1>2 DEF Stopped
<1>4. Flow' = f
  BY <1>2 DEF Flow
<1>5. Flow = <<e>> \o f
  BY <1>1, TakeFirst, ZenonT(30) DEF Flow, ShapeInv
<1>6. f \in Seq(EventType)
  <2>1. << >> \o out \in Seq(EventType)
    BY ConcatEmptySeq DEF ShapeInv
  <2>2. << >> \o out \o hand \in Seq(EventType)
    BY <2>1, ConcatProperties DEF ShapeInv
  <2> QED BY <2>2, ConcatProperties DEF ShapeInv
<1>7. /\ published \in Nat /\ stream.last.n \in Nat /\ stream.size \in Nat /\ e.n \in Nat
      /\ w \in BOOLEAN
  BY EventFields DEF ShapeInv
<1> HIDE DEF f, w
<1>8. /\ Ordered(f, stream.last.n, published) /\ Ordered(f, e.n, published)
      /\ stream.last.n < e.n /\ e.n <= published
  BY <1>1, <1>5, <1>6, <1>7, OrderedTake DEF FlowInv
<1>9. Closing(f, published, server)
  <2>1. << >> \in Seq(EventType) /\ <<e>> \in Seq(EventType) /\ << >> \o <<e>> = <<e>>
        /\ << >> \o f = f
    BY <1>6, ConcatEmptySeq
  <2> QED BY <1>5, <1>6, <2>1, ClosingRest DEF FlowInv
<1>10. e.kind \in Terminal => e.n = published /\ Outcome(e, server)
  <2>1. 1 \in 1 .. Len(Flow) /\ Flow[1] = e
    BY <1>5, <1>6
  <2> QED BY <1>1, <2>1 DEF FlowInv, Closing
<1>11. CASE ForwardTimesOut
  <2>1. ~ForwardEmits
    <3>1. unread = Buffer
      BY <1>11 DEF ForwardTimesOut
    <3>2. ForwardEmits => unread < Buffer
      BY DEF ForwardEmits
    <3>3. ~(Buffer < Buffer)
      BY RemoteAssumption
    <3> QED BY <3>1, <3>2, <3>3
  <2>2. lost' /\ stream' = stream
    BY <1>11, Zenon DEF ForwardTimesOut
  <2> QED BY <1>2, <1>4, <1>8, <1>9, <2>1, <2>2 DEF FlowInv
<1>12. CASE ForwardEmits
  <2>1. stream' = [size |-> stream.size + 1, last |-> e] /\ lost' = lost
    BY <1>2, <1>12 DEF ForwardEmits
  <2>2. ASSUME ~lost, ~Stopped
        PROVE  e.n = stream.size + 1 /\ Covers(f, stream.size + 1, published, w)
    <3>1. Covers(<<e>> \o f, stream.size, published, w) /\ stream.last.n = stream.size
      BY <1>5, <2>2 DEF FlowInv, w
    <3>2. Ordered(<<e>> \o f, stream.size, published)
      BY <1>5, <3>1 DEF FlowInv
    <3> QED BY <1>1, <1>6, <1>7, <3>1, <3>2, CoversTake
  <2>3. FlowInv'
    BY <1>2, <1>3, <1>4, <1>8, <1>9, <2>1, <2>2 DEF FlowInv, w
  <2> QED BY <1>1, <1>2, <1>8, <1>10, <2>1, <2>2, <2>3 DEF StreamInOrder
<1> QED BY <1>11, <1>12

-----------------------------------------------------------------------------
(* A forwarder that has ended without an error has streamed the run to its *)
(* end, and a result that is decided was decided knowing that.             *)
Complete == stream.size = published /\ Outcome(stream.last, server)

OutcomeInv ==
    /\ pc = "open" => server = "idle" /\ published = 0
    /\ cancelled => pc \in Decided
    /\ pc = "await" => server = "completed"
    /\ forwarder = "ended" /\ ~forwardErr /\ ~lost /\ ~Stopped => Complete
    /\ result = "ok" /\ pc \in Decided =>
          /\ server = "completed" /\ forwarder = "ended" /\ ~forwardErr
          /\ lost \/ ctxDone \/ Complete

IInv == HandleInv /\ ShapeInv /\ FlowInv /\ OutcomeInv

(* A step of the server, which is not told of the stream.                  *)
LEMMA OutcomeServer ==
    ASSUME IInv, Server \/ ForeignEmits \/ StreamBreaks \/ ReadEvent
    PROVE  OutcomeInv' /\ UNCHANGED stream
<1>1. /\ UNCHANGED <<forwarder, forwardErr, lost, stream, handleVars, ctxDone>>
      /\ UNCHANGED <<server, published>> \/ server \in {"idle", "running"}
      /\ UNCHANGED <<server, published>> \/ pc # "open"
  BY DEF IInv, OutcomeInv, Server, handleSubmit, RunEmits, RunCompletes, RunFails, Emits,
         ForeignEmits, StreamBreaks, ReadEvent, serverVars, forwardVars
<1> QED BY <1>1 DEF IInv, OutcomeInv, Complete, Outcome, Stopped, handleVars, Decided

(* A step of execute.                                                      *)
LEMMA OutcomeExecute ==
    ASSUME IInv, Execute
    PROVE  OutcomeInv' /\ UNCHANGED stream
<1> USE DEF IInv, OutcomeInv, HandleInv, Undecided, Decided, Step, SetResult
<1>1. UNCHANGED <<serverVars, stream, lost, forwardErr, ctxDone>>
  BY DEF Execute, openEventStream, OpenFails, PostReturns, PostFails, AwaitForwarder,
         AwaitTimesOut, CancelStream, ReaderGone, Drained, CloseEvents, CloseDone, WaitBegins,
         forwardVars
<1>2. forwarder' = forwarder \/ openEventStream
  BY DEF Execute, openEventStream, OpenFails, PostReturns, PostFails, AwaitForwarder,
         AwaitTimesOut, CancelStream, ReaderGone, Drained, CloseEvents, CloseDone, WaitBegins,
         forwardVars
<1>3. Complete' = Complete /\ (Stopped => Stopped') /\ (cancelled' = cancelled \/ CancelStream)
  <2>1. Complete' = Complete
    BY <1>1 DEF Complete, serverVars
  <2>2. cancelled' = cancelled \/ CancelStream
    BY DEF Execute, openEventStream, OpenFails, PostReturns, PostFails, AwaitForwarder,
           AwaitTimesOut, ReaderGone, Drained, CloseEvents, CloseDone, handleVars
  <2>3. CancelStream => cancelled'
    BY Zenon DEF CancelStream
  <2> QED BY <1>1, <2>1, <2>2, <2>3 DEF Stopped
<1>4. CASE openEventStream
  BY <1>1, <1>3, <1>4 DEF openEventStream, CancelStream
<1>5. CASE OpenFails \/ PostFails \/ AwaitTimesOut
  BY <1>1, <1>2, <1>3, <1>5 DEF openEventStream, OpenFails, PostFails, AwaitTimesOut, CancelStream,
        serverVars
<1>6. CASE PostReturns
  BY <1>1, <1>2, <1>3, <1>6 DEF openEventStream, PostReturns, CancelStream, serverVars
<1>7. CASE AwaitForwarder
  <2>1. ~cancelled /\ server = "completed" /\ result = "ok" /\ forwarder = "ended"
    BY <1>7 DEF AwaitForwarder
  <2>2. ~forwardErr => lost \/ ctxDone \/ Complete
    BY <2>1 DEF Stopped
  <2> QED BY <1>1, <1>2, <1>3, <1>7, <2>1, <2>2 DEF AwaitForwarder, openEventStream, CancelStream,
             serverVars
<1>8. CASE CancelStream \/ ReaderGone \/ Drained \/ CloseEvents \/ CloseDone
  BY <1>1, <1>2, <1>3, <1>8 DEF CancelStream, ReaderGone, Drained, CloseEvents, CloseDone,
        openEventStream, serverVars
<1> QED BY <1>1, <1>4, <1>5, <1>6, <1>7, <1>8 DEF Execute

(* A step of the reader, or the end of the context.                        *)
LEMMA OutcomeReader ==
    ASSUME IInv, Reader \/ ContextEnds \/ UNCHANGED vars
    PROVE  OutcomeInv' /\ UNCHANGED stream
<1>1. /\ UNCHANGED <<serverVars, forwarder, forwardErr, lost, stream, handleVars>>
      /\ ctxDone => ctxDone'
  BY DEF Reader, ReaderReads, flushSSEEvent, DecodeFails, ReadFails, ReadEnds, ReaderEnds,
         ContextEnds, vars, forwardVars
<1> QED BY <1>1 DEF IInv, OutcomeInv, Complete, Stopped, serverVars, handleVars

(* A step of the forwarder.                                                *)
LEMMA OutcomeForward ==
    ASSUME IInv, Forward
    PROVE  OutcomeInv' /\ StreamInOrder
<1> USE DEF IInv
<1>1. UNCHANGED <<serverVars, handleVars, ctxDone>>
  BY DEF Forward, ForwardTakes, ForwardFails, ForwardEmits, ForwardTimesOut, ForwardPanics,
         Forwarded
<1>2. UNCHANGED Stopped
  BY <1>1 DEF Stopped, handleVars
<1>3. CASE ForwardTakes \/ ForwardFails \/ ForwardPanics
  <2>1. UNCHANGED <<stream, lost>> /\ forwarder # "ended"
    BY <1>3 DEF ForwardTakes, ForwardFails, ForwardPanics, forwardVars
  <2>2. ForwardFails => forwardErr'
    BY Zenon DEF ForwardFails
  <2>3. forwarder' = "ended" => forwardErr'
    BY <1>3, <2>2 DEF ForwardTakes, ForwardPanics, forwardVars
  <2> QED BY <1>1, <1>2, <2>1, <2>3 DEF OutcomeInv, StreamInOrder, serverVars, handleVars
<1>4. CASE ForwardEmits
  <2>1. UNCHANGED <<lost, forwardErr>> /\ forwarder = "emitting"
    BY <1>4 DEF ForwardEmits, Forwarded
  <2>2. forwarder' = "ended" /\ ~lost /\ ~Stopped => Complete'
    BY <1>1, <1>4, EmitStep DEF Complete, serverVars
  <2> QED BY <1>1, <1>2, <1>4, <2>1, <2>2, EmitStep DEF OutcomeInv, serverVars, handleVars
<1>5. CASE ForwardTimesOut
  <2>1. lost' /\ stream' = stream
    BY <1>5, Zenon DEF ForwardTimesOut
  <2>2. forwarder = "emitting"
    BY <1>5 DEF ForwardTimesOut
  <2> QED BY <1>1, <2>1, <2>2 DEF OutcomeInv, StreamInOrder, serverVars, handleVars
<1> QED BY <1>3, <1>4, <1>5 DEF Forward

(* Events on their way: one case per step.                                 *)
LEMMA FlowStep ==
    ASSUME IInv, [Next]_vars
    PROVE  FlowInv'
<1> USE DEF IInv
<1>1. CASE RunEmits \/ RunCompletes \/ Emits("RunFailed", "failed")
  BY <1>1, PublishStep DEF RunEmits, RunCompletes, Kinds, Terminal
<1>2. CASE ForeignEmits
  BY <1>2, ForeignStep
<1>3. CASE ReaderReads \/ flushSSEEvent
  BY <1>3, ReaderStep
<1>4. CASE ForwardTakes
  BY <1>4, TakeStep
<1>5. CASE ForwardEmits \/ ForwardTimesOut
  BY <1>5, EmitStep
<1>6. CASE handleSubmit \/ (RunFails /\ ~Emits("RunFailed", "failed"))
  <2>1. /\ UNCHANGED <<carried, out, hand, wire, stream, published, lost, conn, ctxDone, cancelled>>
        /\ server \in {"idle", "running"}
    BY <1>6 DEF handleSubmit, RunFails, readerVars, forwardVars, handleVars
  <2> QED BY <2>1, QuietStep DEF Stopped
<1>7. CASE StreamBreaks \/ ReadEvent
  <2>1. /\ UNCHANGED <<carried, out, hand, wire, stream, published, lost, server, ctxDone, cancelled>>
        /\ conn' \in {conn, "broken", "ended"}
    BY <1>7 DEF StreamBreaks, ReadEvent, serverVars, readerVars, forwardVars, handleVars
  <2> QED BY <2>1, QuietStep DEF Stopped
<1>8. CASE Execute
  <2>1. /\ UNCHANGED <<carried, out, hand, wire, stream, published, lost, server, ctxDone>>
        /\ conn' = conn \/ pc = "open"
    BY <1>8 DEF Execute, openEventStream, OpenFails, PostReturns, PostFails, AwaitForwarder,
           AwaitTimesOut, CancelStream, ReaderGone, Drained, CloseEvents, CloseDone, WaitBegins,
           Step, serverVars, readerVars, forwardVars
  <2>2. CancelStream => cancelled'
    BY Zenon DEF CancelStream
  <2>3. cancelled => cancelled'
    BY <1>8, <2>2 DEF Execute, openEventStream, OpenFails, PostReturns, PostFails, AwaitForwarder,
           AwaitTimesOut, ReaderGone, Drained, CloseEvents, CloseDone, handleVars
  <2> QED BY <2>1, <2>3, QuietStep DEF Stopped, OutcomeInv
<1>9. CASE DecodeFails \/ ReadFails \/ ReadEnds \/ ForwardFails \/ ForwardPanics \/ ContextEnds
           \/ UNCHANGED vars
  <2>1. /\ UNCHANGED <<carried, out, hand, wire, stream, published, lost, server, conn, cancelled>>
        /\ ctxDone => ctxDone'
    BY <1>9 DEF DecodeFails, ReadFails, ReadEnds, ReaderEnds, ForwardFails, ForwardPanics,
           ContextEnds, vars, serverVars, readerVars, forwardVars, handleVars
  <2> QED BY <2>1, QuietStep DEF Stopped
<1> QED
  BY <1>1, <1>2, <1>3, <1>4, <1>5, <1>6, <1>7, <1>8, <1>9
     DEF Next, Server, RunFails, Reader, Forward

LEMMA NoEvents ==
    /\ << >> \in Seq(EventType) /\ << >> \o << >> = << >> /\ 1 .. Len(<< >>) = {}
<1>1. << >> \in Seq(EventType)
  OBVIOUS
<1>2. << >> \o << >> = << >>
  BY <1>1, ConcatEmptySeq
<1>3. 1 .. Len(<< >>) = {}
  OBVIOUS
<1> QED BY <1>1, <1>2, <1>3

LEMMA Initially == Init => IInv
<1> SUFFICES ASSUME Init PROVE IInv
  OBVIOUS
<1>1. /\ wire = << >> /\ out = << >> /\ hand = << >> /\ carried = << >>
      /\ stream = [size |-> 0, last |-> Event(TRUE, 0, "")] /\ published = 0
      /\ reader = "none" /\ forwarder = "none"
  BY DEF Init
<1>2. Event(TRUE, 0, "") \in EventType /\ Event(TRUE, 0, "").n = 0
  BY DEF Event, EventType, Kinds
<1>3. stream.last.n = 0 /\ stream.size = 0 /\ stream \in [size : Nat, last : EventType]
  BY <1>1, <1>2
<1>4. ShapeInv
  BY <1>1, <1>3, NoEvents DEF ShapeInv
<1>5. 1 .. Len(Flow) = {}
  BY <1>1, NoEvents DEF Flow
<1>6. Ordered(Flow, 0, 0) /\ Closing(Flow, 0, server)
  BY <1>5 DEF Ordered, Closing
<1>7. Covers(Flow, 0, 0, conn = "open")
  <2>1. \A n \in Nat : ~(0 < n /\ n <= 0)
    OBVIOUS
  <2> QED BY <1>5, <2>1 DEF Covers
<1>8. FlowInv
  <2>1. published = 0 /\ stream.last.n = 0 /\ stream.size = 0
    BY <1>1, <1>3
  <2> QED BY ONLY <1>6, <1>7, <2>1 DEF FlowInv
<1>9. OutcomeInv
  BY DEF Init, OutcomeInv, Decided
<1> QED BY <1>4, <1>8, <1>9, HandleInit DEF IInv

LEMMA Inductive ==
    ASSUME IInv, [Next]_vars
    PROVE  IInv' /\ StreamInOrder
<1>1. HandleInv' /\ ShapeInv' /\ FlowInv'
  BY HandleStep, ShapeStep, FlowStep DEF IInv
<1>2. OutcomeInv' /\ StreamInOrder
  BY OutcomeServer, OutcomeExecute, OutcomeReader, OutcomeForward DEF Next, StreamInOrder
<1> QED BY <1>1, <1>2 DEF IInv

LEMMA Invariance == Spec => []IInv
<1> QED BY Initially, Inductive, PTL DEF Spec

(* What the client of a remote run reads is of its run and in the order of *)
(* publication, and a success is reported only of a run that completed,    *)
(* with every event of it streamed, unless the client gave up or did not   *)
(* keep up.                                                                *)
THEOREM StreamCorrect == Spec => StreamIsFaithful
<1>1. IInv => OkIsComplete
  BY DEF IInv, HandleInv, OutcomeInv, OkIsComplete, Complete, Outcome, Decided
<1>2. ASSUME IInv, [Next]_vars PROVE [StreamInOrder /\ OkIsComplete']_vars
  <2>1. IInv' /\ StreamInOrder
    BY <1>2, Inductive
  <2>2. IInv' => OkIsComplete'
    BY DEF IInv, HandleInv, OutcomeInv, OkIsComplete, Complete, Outcome, Decided
  <2> QED BY <2>1, <2>2
<1> QED BY Invariance, <1>2, PTL DEF Spec, StreamIsFaithful
=============================================================================
