-------------------------- MODULE SessionRunsProofs --------------------------
(***************************************************************************)
(* Proofs about SessionRuns, for any finite number of requests, any inputs *)
(* and profiles, any limit and any number of events of the children: the   *)
(* slots are counted exactly, and the events of a request tell its run.    *)
(***************************************************************************)
EXTENDS SessionRuns, FiniteSetTheorems, SequenceTheorems, TLAPS

Places == Holding \cup {"idle", "returned"}
Labels == Terminal \cup {"requested", "started", "progressed"}

TypeInv ==
    /\ at \in [Requests -> Places]
    /\ emitted \in [Requests -> Seq(Labels)]
    /\ reply \in [Requests -> Terminal \cup {"none", "refused", "at_capacity"}]
    /\ reported \in [Requests -> Seq(Nat)]
    /\ latest \in [Requests -> Seq(Nat)]
    /\ stream \in [Requests -> Seq(Nat)]
    /\ produced \in [Requests -> Nat]
    /\ result \in [Requests -> {"none", "ok", "failed"}]
    /\ eventsClosed \in [Requests -> BOOLEAN]

(* What a step does to the variables of one request.                       *)
LEMMA EmitTypes ==
    ASSUME TypeInv, NEW q \in Requests, NEW e \in Labels, Emit(q, e)
    PROVE  /\ emitted' \in [Requests -> Seq(Labels)] /\ emitted'[q] = Append(emitted[q], e)
           /\ \A p \in Requests \ {q} : emitted'[p] = emitted[p]
<1>1. Append(emitted[q], e) \in Seq(Labels)
  BY AppendProperties DEF TypeInv
<1> QED BY <1>1 DEF TypeInv, Emit

LEMMA GotoTypes ==
    ASSUME TypeInv, NEW q \in Requests, NEW a \in Places, Goto(q, a)
    PROVE  /\ at' \in [Requests -> Places] /\ at'[q] = a
           /\ \A p \in Requests \ {q} : at'[p] = at[p]
BY DEF TypeInv, Goto

LEMMA ConcludeTypes ==
    ASSUME TypeInv, NEW q \in Requests, NEW e \in Terminal, Conclude(q, e)
    PROVE  /\ at' \in [Requests -> Places] /\ at'[q] \in {"close", "release"}
           /\ emitted' \in [Requests -> Seq(Labels)] /\ emitted'[q] = Append(emitted[q], e)
           /\ reply' \in [Requests -> Terminal \cup {"none", "refused", "at_capacity"}]
           /\ reply'[q] = e /\ running' = running /\ reported' = reported
           /\ \A p \in Requests \ {q} : at'[p] = at[p] /\ emitted'[p] = emitted[p] /\ reply'[p] = reply[p]
<1>1. e \in Labels
  BY DEF Labels
<1>2. \E a \in {"close", "release"} : Goto(q, a)
  BY DEF Conclude
<1>3. {"close", "release"} \subseteq Places
  BY DEF Places, Holding
<1>4. Emit(q, e) /\ reply' = [reply EXCEPT ![q] = e] /\ running' = running /\ reported' = reported
  BY DEF Conclude
<1>5. reply' \in [Requests -> Terminal \cup {"none", "refused", "at_capacity"}]
      /\ reply'[q] = e /\ \A p \in Requests \ {q} : reply'[p] = reply[p]
  BY <1>4 DEF TypeInv
<1> QED BY <1>1, <1>2, <1>3, <1>4, <1>5, EmitTypes, GotoTypes

-----------------------------------------------------------------------------
(* The slots.                                                              *)

LEMMA HoldersFinite == IsFiniteSet(Holders)
BY SessionRunAssumption, FS_Subset DEF Holders

LEMMA SameHolders ==
    ASSUME TypeInv, NEW q \in Requests, NEW a \in Places, at' = [at EXCEPT ![q] = a],
           at[q] \in Holding <=> a \in Holding, running' = running, CapacityExact
    PROVE  CapacityExact'
<1>1. Holders' = Holders
  BY DEF TypeInv, Holders
<1> QED BY <1>1 DEF CapacityExact, limit

LEMMA AcquireCounts ==
    ASSUME TypeInv, CapacityExact, NEW q \in Requests, NEW i \in Inputs, acquire(q, i)
    PROVE  CapacityExact'
<1>1. Holders' = Holders \cup {q} /\ q \notin Holders
  BY DEF acquire, Goto, TypeInv, Holders, Holding
<1>2. Cardinality(Holders') = Cardinality(Holders) + 1
  BY <1>1, HoldersFinite, FS_AddElement
<1>3. running < limit /\ running \in Nat /\ limit \in Int
  <2>1. running \in Nat
    BY HoldersFinite, FS_CardinalityType DEF CapacityExact
  <2>2. limit \in Int
    BY SessionRunAssumption DEF limit
  <2>3. Allowance(i) \in Int /\ Allowance(i) <= limit
    BY <2>2, SessionRunAssumption DEF Allowance, InputType, PolicyType
  <2>4. running < Allowance(i)
    BY DEF acquire
  <2> QED BY <2>1, <2>2, <2>3, <2>4
<1>4. running' = running + 1
  BY DEF acquire
<1> QED BY <1>2, <1>3, <1>4 DEF CapacityExact, limit

LEMMA ReleaseCounts ==
    ASSUME TypeInv, CapacityExact, NEW q \in Requests, release(q)
    PROVE  CapacityExact'
<1>1. Holders' = Holders \ {q} /\ q \in Holders
  BY DEF release, Goto, TypeInv, Holders, Holding
<1>2. Cardinality(Holders') = Cardinality(Holders) - 1
  BY <1>1, HoldersFinite, FS_RemoveElement
<1>3. running \in Nat /\ running # 0
  BY <1>1, HoldersFinite, FS_CardinalityType, FS_EmptySet DEF CapacityExact
<1>4. running' = running - 1
  BY <1>3 DEF release
<1>5. limit \in Int
  BY SessionRunAssumption DEF limit
<1> QED BY <1>2, <1>3, <1>4, <1>5 DEF CapacityExact, limit

LEMMA CapacityStep ==
    ASSUME TypeInv, CapacityExact, [Next]_vars
    PROVE  CapacityExact'
<1>1. CASE UNCHANGED <<at, running>>
  BY <1>1 DEF CapacityExact, Holders, limit
<1>2. ASSUME NEW q \in Requests, Start(q) PROVE CapacityExact'
  <2>1. PICK i \in Inputs : Refuse(q, i) \/ AtCapacity(q, i) \/ acquire(q, i)
    BY <1>2 DEF Start
  <2>2. CASE Refuse(q, i) \/ AtCapacity(q, i)
    BY <2>2, SameHolders DEF Refuse, AtCapacity, Goto, Holding, Places
  <2> QED BY <2>1, <2>2, AcquireCounts
<1>3. ASSUME NEW q \in Requests, Run(q) PROVE CapacityExact'
  <2>1. CASE release(q)
    BY <2>1, ReleaseCounts
  <2>2. ASSUME NEW e, Conclude(q, e), at[q] \in {"open", "send", "select", "wait"}
        PROVE  CapacityExact'
    BY <2>2, SameHolders DEF Conclude, Goto, Holding, Places
  <2>3. CASE OpenFails(q) \/ SendFails(q) \/ SelectDone(q)
    BY <2>2, <2>3 DEF OpenFails, SendFails, SelectDone
  <2>4. CASE Wait(q)
    BY <2>2, <2>4 DEF Wait
  <2>5. CASE Open(q) \/ SendInput(q) \/ CallEvents(q) \/ SelectEvent(q) \/ SelectSilentEvent(q)
             \/ SelectClosed(q) \/ Close(q)
    BY <2>5, SameHolders DEF Open, SendInput, CallEvents, SelectEvent, SelectSilentEvent,
          SelectClosed, Close, Goto, Holding, Places
  <2> QED BY <1>3, <2>1, <2>3, <2>4, <2>5 DEF Run, Follow
<1>4. ASSUME NEW q \in Requests,
             Fetch(q) \/ FetchStale(q) \/ ChildEvent(q) \/ ChildEnds(q) \/ Expire(q)
      PROVE  UNCHANGED <<at, running>>
  BY <1>4 DEF Fetch, FetchStale, ChildEvent, ChildEnds, Expire, runVars
<1> QED BY <1>1, <1>2, <1>3, <1>4 DEF Next, vars, runVars

-----------------------------------------------------------------------------
(* Types.                                                                  *)

(* The step of a request that changes nothing of its child and its feed.   *)
LEMMA OwnTypes ==
    ASSUME TypeInv, NEW q \in Requests, UNCHANGED <<latest, stream, produced, childVars>>,
           at' \in [Requests -> Places], emitted' \in [Requests -> Seq(Labels)],
           reply' \in [Requests -> Terminal \cup {"none", "refused", "at_capacity"}],
           reported' = reported
    PROVE  TypeInv'
BY DEF TypeInv, childVars

LEMMA SeqOfNats ==
    ASSUME NEW s \in Seq(Nat), NEW n \in Nat
    PROVE  /\ Append(s, n) \in Seq(Nat) /\ << >> \in Seq(Nat)
           /\ s # << >> => Head(s) \in Nat /\ Tail(s) \in Seq(Nat)
OBVIOUS

LEMMA TypeStep ==
    ASSUME TypeInv, [Next]_vars
    PROVE  TypeInv'
<1>1. CASE UNCHANGED vars
  BY <1>1 DEF TypeInv, vars, runVars, feedVars, childVars
<1>2. ASSUME NEW q \in Requests, Start(q) PROVE TypeInv'
  <2>1. PICK i \in Inputs : Refuse(q, i) \/ AtCapacity(q, i) \/ acquire(q, i)
    BY <1>2 DEF Start
  <2>2. {"returned", "open"} \subseteq Places /\ "requested" \in Labels
    BY DEF Places, Holding, Labels
  <2>3. CASE Refuse(q, i) \/ AtCapacity(q, i)
    <3>1. at' \in [Requests -> Places]
      BY <2>2, <2>3, GotoTypes DEF Refuse, AtCapacity
    <3>2. reply' \in [Requests -> Terminal \cup {"none", "refused", "at_capacity"}]
      BY <2>3 DEF Refuse, AtCapacity, TypeInv
    <3> QED BY <2>3, <3>1, <3>2, OwnTypes DEF Refuse, AtCapacity, feedVars, TypeInv
  <2>4. CASE acquire(q, i)
    <3>1. at' \in [Requests -> Places] /\ emitted' \in [Requests -> Seq(Labels)]
      BY <2>2, <2>4, GotoTypes, EmitTypes DEF acquire
    <3> QED BY <2>4, <3>1, OwnTypes DEF acquire, feedVars, TypeInv
  <2> QED BY <2>1, <2>3, <2>4
<1>3. ASSUME NEW q \in Requests, Run(q) PROVE TypeInv'
  <2>1. {"send", "loop", "select", "wait", "release", "returned"} \subseteq Places
        /\ {"started", "progressed"} \subseteq Labels
    BY DEF Places, Holding, Labels
  <2>2. ASSUME NEW e \in Terminal, Conclude(q, e), UNCHANGED <<feedVars, childVars>>
        PROVE  TypeInv'
    BY <2>2, ConcludeTypes, OwnTypes DEF feedVars
  <2>3. CASE OpenFails(q) \/ SendFails(q) \/ SelectDone(q) \/ Wait(q)
    <3>1. \E e \in Terminal : Conclude(q, e) /\ UNCHANGED <<feedVars, childVars>>
      BY <2>3 DEF OpenFails, SendFails, SelectDone, Wait, Terminal
    <3> QED BY <2>2, <3>1
  <2>4. CASE Open(q)
    <3>1. at' \in [Requests -> Places] /\ emitted' \in [Requests -> Seq(Labels)]
      BY <2>1, <2>4, GotoTypes, EmitTypes DEF Open
    <3> QED BY <2>4, <3>1, OwnTypes DEF Open, feedVars, TypeInv
  <2>5. CASE SendInput(q) \/ CallEvents(q) \/ SelectClosed(q) \/ Close(q) \/ release(q)
    <3>1. at' \in [Requests -> Places]
      BY <2>1, <2>5, GotoTypes DEF SendInput, CallEvents, SelectClosed, Close, release
    <3> QED BY <2>5, <3>1, OwnTypes DEF SendInput, CallEvents, SelectClosed, Close, release,
               feedVars, TypeInv
  <2>6. CASE SelectEvent(q) \/ SelectSilentEvent(q)
    <3>1. at' \in [Requests -> Places]
      BY <2>1, <2>6, GotoTypes DEF SelectEvent, SelectSilentEvent
    <3>2. emitted' \in [Requests -> Seq(Labels)]
      BY <2>1, <2>6, EmitTypes DEF SelectEvent, SelectSilentEvent, TypeInv
    <3>3. latest' \in [Requests -> Seq(Nat)]
      BY <2>6, SeqOfNats DEF SelectEvent, SelectSilentEvent, TypeInv
    <3>4. Append(reported[q], Head(latest[q])) \in Seq(Nat)
      BY <2>6, SeqOfNats DEF SelectEvent, SelectSilentEvent, TypeInv
    <3>5. reported' \in [Requests -> Seq(Nat)]
      BY <2>6, <3>4 DEF SelectEvent, SelectSilentEvent, TypeInv
    <3> QED BY <2>6, <3>1, <3>2, <3>3, <3>5 DEF SelectEvent, SelectSilentEvent, childVars, TypeInv
  <2> QED BY <1>3, <2>3, <2>4, <2>5, <2>6 DEF Run, Follow
<1>4. ASSUME NEW q \in Requests, Fetch(q) PROVE TypeInv'
  <2>1. Append(latest[q], Head(stream[q])) \in Seq(Nat) /\ Tail(stream[q]) \in Seq(Nat)
    BY <1>4, SeqOfNats DEF Fetch, TypeInv
  <2> QED BY <1>4, <2>1 DEF Fetch, TypeInv, runVars, childVars
<1>5. ASSUME NEW q \in Requests, FetchStale(q) PROVE TypeInv'
  <2>1. Tail(stream[q]) \in Seq(Nat)
    BY <1>5, SeqOfNats DEF FetchStale, TypeInv
  <2> QED BY <1>5, <2>1 DEF FetchStale, TypeInv, runVars, childVars
<1>6. ASSUME NEW q \in Requests, ChildEvent(q) PROVE TypeInv'
  <2>1. produced[q] + 1 \in Nat /\ Append(stream[q], produced[q] + 1) \in Seq(Nat)
    BY SeqOfNats DEF TypeInv
  <2> QED BY <1>6, <2>1 DEF ChildEvent, TypeInv, runVars, childVars
<1>7. ASSUME NEW q \in Requests, ChildEnds(q) PROVE TypeInv'
  BY <1>7 DEF ChildEnds, Child!SetResult, Child!CloseDone, Child!CloseEvents, TypeInv, runVars,
        feedVars
<1>8. ASSUME NEW q \in Requests, Expire(q) PROVE TypeInv'
  BY <1>8 DEF Expire, TypeInv, runVars, feedVars, childVars
<1> QED BY <1>1, <1>2, <1>3, <1>4, <1>5, <1>6, <1>7, <1>8 DEF Next

-----------------------------------------------------------------------------
(* The events of a request, as a function of where it stands: nothing at   *)
(* first, no terminal event while it works, and from the terminal event on *)
(* the reply that goes with it.                                            *)
Working == {"open", "send", "loop", "select", "wait"}

Story(place, events, answer, left, outcome, closed) ==
    /\ place = "idle" => events = << >> /\ answer = "none"
    /\ place \in Working => /\ answer = "none"
                            /\ \A n \in 1 .. Len(events) : events[n] \notin Terminal
    /\ place \in {"close", "release"} => answer \in Terminal
    /\ place = "returned" => answer # "none"
    /\ place = "wait" => closed /\ left = << >>
    /\ \A n \in 1 .. Len(events) :
          events[n] \in Terminal => n = Len(events) /\ events[n] = answer
    /\ answer \in Terminal => events # << >> /\ events[Len(events)] = answer
    /\ answer \in {"refused", "at_capacity"} => events = << >>
    /\ answer = "completed" => outcome = "ok" /\ closed /\ left = << >>

StoryOf(q) == Story(at[q], emitted[q], reply[q], stream[q], result[q], eventsClosed[q])
StoryInv == \A q \in Requests : StoryOf(q)

(* Only the request that steps is concerned.                               *)
LEMMA OthersStory ==
    ASSUME StoryInv, NEW q \in Requests,
           \A p \in Requests \ {q} :
              /\ at'[p] = at[p] /\ emitted'[p] = emitted[p] /\ reply'[p] = reply[p]
              /\ stream'[p] = stream[p] /\ result'[p] = result[p]
              /\ eventsClosed'[p] = eventsClosed[p],
           Story(at'[q], emitted'[q], reply'[q], stream'[q], result'[q], eventsClosed'[q])
    PROVE  StoryInv'
BY DEF StoryInv, StoryOf

(* A working request emits an event that is not terminal, or a terminal    *)
(* one with its reply.                                                     *)
LEMMA StoryEmits ==
    ASSUME NEW events \in Seq(Labels), NEW e \in Labels, NEW left, NEW outcome, NEW closed,
           NEW from \in Working, NEW to \in Working, e \notin Terminal,
           Story(from, events, "none", left, outcome, closed), to # "wait"
    PROVE  Story(to, Append(events, e), "none", left, outcome, closed)
<1> DEFINE t == Append(events, e)
<1>1. Len(t) = Len(events) + 1 /\ t[Len(t)] = e /\ \A n \in 1 .. Len(events) : t[n] = events[n]
  OBVIOUS
<1>2. 1 .. Len(t) = 1 .. Len(events) \cup {Len(t)}
  BY <1>1
<1> HIDE DEF t
<1>3. \A n \in 1 .. Len(t) : t[n] \notin Terminal
  BY <1>1, <1>2 DEF Story
<1>4. to \notin {"idle", "close", "release", "returned"} /\ "none" \notin Terminal
  BY DEF Working, Terminal
<1>5. Story(to, t, "none", left, outcome, closed)
  BY <1>3, <1>4 DEF Story
<1> QED BY <1>5 DEF t

LEMMA StoryConcludes ==
    ASSUME NEW events \in Seq(Labels), NEW e \in Terminal, NEW left, NEW outcome, NEW closed,
           NEW from \in Working, NEW to \in {"close", "release"},
           Story(from, events, "none", left, outcome, closed),
           e = "completed" => outcome = "ok" /\ closed /\ left = << >>
    PROVE  Story(to, Append(events, e), e, left, outcome, closed)
<1> DEFINE t == Append(events, e)
<1>1. Len(t) = Len(events) + 1 /\ t[Len(t)] = e /\ \A n \in 1 .. Len(events) : t[n] = events[n]
      /\ t # << >>
  OBVIOUS
<1>2. 1 .. Len(t) = 1 .. Len(events) \cup {Len(t)}
  BY <1>1
<1> HIDE DEF t
<1>3. \A n \in 1 .. Len(t) : t[n] \in Terminal => n = Len(t) /\ t[n] = e
  BY <1>1, <1>2 DEF Story
<1>4. to \notin {"idle", "returned", "wait"} /\ to \notin Working
      /\ e \notin {"none", "refused", "at_capacity"}
  BY DEF Working, Terminal
<1>5. Story(to, t, e, left, outcome, closed)
  BY <1>1, <1>3, <1>4 DEF Story
<1> QED BY <1>5 DEF t

(* The events on their way into the reports are increasing.                *)
Increasing(s, hi) ==
    /\ \A i \in 1 .. Len(s) : s[i] <= hi
    /\ \A i, j \in 1 .. Len(s) : i < j => s[i] < s[j]
Feed(q) == reported[q] \o latest[q] \o stream[q]
FeedInv == \A q \in Requests : Increasing(Feed(q), produced[q])

LEMMA IncreasingDrop ==
    ASSUME NEW a \in Seq(Nat), NEW b \in Seq(Nat), NEW c \in Seq(Nat), NEW hi,
           Increasing(a \o b \o c, hi)
    PROVE  Increasing(a \o c, hi)
<1> DEFINE t == a \o b \o c
           u == a \o c
           place(i) == IF i <= Len(a) THEN i ELSE i + Len(b)
<1>1. \A i \in 1 .. Len(u) : place(i) \in 1 .. Len(t) /\ u[i] = t[place(i)]
  OBVIOUS
<1>2. \A i, j \in 1 .. Len(u) : i < j => place(i) < place(j)
  OBVIOUS
<1> HIDE DEF place, t, u
<1> QED BY <1>1, <1>2 DEF Increasing, t, u

LEMMA IncreasingAppend ==
    ASSUME NEW s \in Seq(Nat), NEW hi \in Nat, Increasing(s, hi)
    PROVE  Increasing(Append(s, hi + 1), hi + 1)
<1> DEFINE t == Append(s, hi + 1)
<1>1. Len(t) = Len(s) + 1 /\ t[Len(t)] = hi + 1 /\ \A i \in 1 .. Len(s) : t[i] = s[i]
  OBVIOUS
<1>2. \A i \in 1 .. Len(s) : s[i] \in Nat /\ s[i] <= hi
  BY DEF Increasing
<1> HIDE DEF t
<1>3. \A i \in 1 .. Len(t) : t[i] <= hi + 1
  BY <1>1, <1>2
<1>4. ASSUME NEW i \in 1 .. Len(t), NEW j \in 1 .. Len(t), i < j PROVE t[i] < t[j]
  <2>1. i \in 1 .. Len(s)
    BY <1>1, <1>4
  <2>2. CASE j = Len(t)
    BY <1>1, <1>2, <2>1, <2>2
  <2>3. CASE j \in 1 .. Len(s)
    BY <1>1, <1>4, <2>1, <2>3 DEF Increasing
  <2> QED BY <1>1, <2>2, <2>3
<1>5. Increasing(t, hi + 1)
  BY <1>3, <1>4 DEF Increasing
<1> QED BY <1>5 DEF t

LEMMA IncreasingFirst ==
    ASSUME NEW a \in Seq(Nat), NEW b \in Seq(Nat), NEW hi, Increasing(a \o b, hi)
    PROVE  \A i, j \in 1 .. Len(a) : i < j => a[i] < a[j]
<1>1. \A i \in 1 .. Len(a) : i \in 1 .. Len(a \o b) /\ (a \o b)[i] = a[i]
  OBVIOUS
<1> QED BY <1>1 DEF Increasing

LEMMA StoryStep ==
    ASSUME TypeInv, StoryInv, [Next]_vars
    PROVE  StoryInv'
<1>1. CASE UNCHANGED <<at, emitted, reply, stream, result, eventsClosed>>
  BY <1>1 DEF StoryInv, StoryOf
<1>2. ASSUME NEW q \in Requests, Start(q) PROVE StoryInv'
  <2>1. PICK i \in Inputs : Refuse(q, i) \/ AtCapacity(q, i) \/ acquire(q, i)
    BY <1>2 DEF Start
  <2>2. /\ StoryOf(q) /\ at[q] = "idle" /\ emitted[q] = << >> /\ reply[q] = "none"
        /\ UNCHANGED <<stream, result, eventsClosed>>
    BY <2>1 DEF StoryInv, StoryOf, Story, Refuse, AtCapacity, acquire, feedVars, childVars
  <2>3. CASE Refuse(q, i) \/ AtCapacity(q, i)
    <3>1. /\ at'[q] = "returned" /\ reply'[q] \in {"refused", "at_capacity"} /\ emitted' = emitted
          /\ \A p \in Requests \ {q} : at'[p] = at[p] /\ reply'[p] = reply[p]
      BY <2>3 DEF Refuse, AtCapacity, Goto, TypeInv
    <3>2. Len(<< >>) = 0 /\ 1 .. 0 = {}
      OBVIOUS
    <3>3. Story(at'[q], emitted'[q], reply'[q], stream'[q], result'[q], eventsClosed'[q])
      BY <2>2, <3>1, <3>2 DEF Story, Terminal, Working
    <3> QED BY <2>2, <3>1, <3>3, OthersStory
  <2>4. CASE acquire(q, i)
    <3>1. /\ at'[q] = "open" /\ reply' = reply /\ emitted'[q] = <<"requested">>
          /\ \A p \in Requests \ {q} : at'[p] = at[p] /\ emitted'[p] = emitted[p]
      BY <2>2, <2>4 DEF acquire, Goto, Emit, TypeInv
    <3>2. Len(<<"requested">>) = 1 /\ 1 .. 1 = {1} /\ <<"requested">>[1] = "requested"
      OBVIOUS
    <3>3. Story(at'[q], emitted'[q], reply'[q], stream'[q], result'[q], eventsClosed'[q])
      BY <2>2, <3>1, <3>2 DEF Story, Terminal, Working
    <3> QED BY <2>2, <3>1, <3>3, OthersStory
  <2> QED BY <2>1, <2>3, <2>4
<1>3. ASSUME NEW q \in Requests, NEW e \in Terminal, Conclude(q, e), at[q] \in Working,
             UNCHANGED <<feedVars, childVars>>,
             e = "completed" => result[q] = "ok" /\ at[q] = "wait"
      PROVE  StoryInv'
  <2>1. StoryOf(q) /\ reply[q] = "none" /\ UNCHANGED <<stream, result, eventsClosed>>
    BY <1>3 DEF StoryInv, StoryOf, Story, feedVars, childVars
  <2>2. at[q] = "wait" => eventsClosed[q] /\ stream[q] = << >>
    BY <2>1 DEF StoryOf, Story
  <2>3. emitted[q] \in Seq(Labels)
    BY DEF TypeInv
  <2>4. /\ at'[q] \in {"close", "release"} /\ emitted'[q] = Append(emitted[q], e) /\ reply'[q] = e
        /\ \A p \in Requests \ {q} : at'[p] = at[p] /\ emitted'[p] = emitted[p] /\ reply'[p] = reply[p]
    BY <1>3, ConcludeTypes
  <2>5. Story(at'[q], emitted'[q], e, stream[q], result[q], eventsClosed[q])
    BY <1>3, <2>1, <2>2, <2>3, <2>4, StoryConcludes DEF StoryOf
  <2> QED BY <2>1, <2>4, <2>5, OthersStory
<1>4. ASSUME NEW q \in Requests, Run(q) PROVE StoryInv'
  <2>1. StoryOf(q)
    BY DEF StoryInv
  <2>2. CASE OpenFails(q) \/ SendFails(q) \/ SelectDone(q) \/ Wait(q)
    <3>1. \E e \in Terminal :
            /\ Conclude(q, e) /\ UNCHANGED <<feedVars, childVars>> /\ at[q] \in Working
            /\ e = "completed" => result[q] = "ok" /\ at[q] = "wait"
      BY <2>2 DEF OpenFails, SendFails, SelectDone, Wait, Terminal, Working
    <3> QED BY <1>3, <3>1
  <2>3. CASE Open(q) \/ SelectEvent(q)
    <3>1. PICK a \in {"send", "loop"}, e \in {"started", "progressed"} : Goto(q, a) /\ Emit(q, e)
      BY <2>3 DEF Open, SelectEvent
    <3>2. /\ at[q] \in {"open", "select"} /\ UNCHANGED <<reply, stream, result, eventsClosed>>
      BY <2>3 DEF Open, SelectEvent, feedVars, childVars
    <3>3. a \in Working /\ a \in Places /\ a # "wait" /\ e \in Labels /\ e \notin Terminal
          /\ at[q] \in Working
      BY <3>2 DEF Working, Places, Holding, Labels, Terminal
    <3>4. reply[q] = "none" /\ emitted[q] \in Seq(Labels)
      BY <2>1, <3>3 DEF StoryOf, Story, TypeInv
    <3>5. Story(a, Append(emitted[q], e), "none", stream[q], result[q], eventsClosed[q])
      BY <2>1, <3>3, <3>4, StoryEmits DEF StoryOf
    <3>6. /\ at'[q] = a /\ emitted'[q] = Append(emitted[q], e)
          /\ \A p \in Requests \ {q} : at'[p] = at[p] /\ emitted'[p] = emitted[p]
      BY <3>1, <3>3, GotoTypes, EmitTypes
    <3> QED BY <3>2, <3>4, <3>5, <3>6, OthersStory
  <2>4. CASE SendInput(q) \/ CallEvents(q) \/ SelectSilentEvent(q) \/ SelectClosed(q)
    <3>1. /\ at[q] \in {"send", "loop", "select"}
          /\ UNCHANGED <<emitted, reply, stream, result, eventsClosed>>
      BY <2>4 DEF SendInput, CallEvents, SelectSilentEvent, SelectClosed, feedVars, childVars
    <3>2. /\ at'[q] \in {"loop", "select", "wait"} /\ \A p \in Requests \ {q} : at'[p] = at[p]
          /\ at'[q] = "wait" => FeedEnded(q)
      BY <2>4 DEF SendInput, CallEvents, SelectSilentEvent, SelectClosed, Goto, TypeInv
    <3>3. Story(at'[q], emitted'[q], reply'[q], stream'[q], result'[q], eventsClosed'[q])
      BY <2>1, <3>1, <3>2 DEF StoryOf, Story, Working, Terminal, FeedEnded
    <3> QED BY <3>1, <3>2, <3>3, OthersStory
  <2>5. CASE Close(q) \/ release(q)
    <3>1. at[q] \in {"close", "release"} /\ UNCHANGED <<emitted, reply, stream, result, eventsClosed>>
      BY <2>5 DEF Close, release, feedVars, childVars
    <3>2. at'[q] \in {"release", "returned"} /\ \A p \in Requests \ {q} : at'[p] = at[p]
      BY <2>5 DEF Close, release, Goto, TypeInv
    <3>3. Story(at'[q], emitted'[q], reply'[q], stream'[q], result'[q], eventsClosed'[q])
      BY <2>1, <3>1, <3>2 DEF StoryOf, Story, Working, Terminal
    <3> QED BY <3>1, <3>2, <3>3, OthersStory
  <2> QED BY <1>4, <2>2, <2>3, <2>4, <2>5 DEF Run, Follow
<1>5. ASSUME NEW q \in Requests, Fetch(q) \/ FetchStale(q) \/ ChildEvent(q)
      PROVE  StoryInv'
  <2>1. StoryOf(q)
    BY DEF StoryInv
  <2>2. /\ UNCHANGED <<at, emitted, reply, result, eventsClosed>>
        /\ \A p \in Requests \ {q} : stream'[p] = stream[p]
        /\ stream[q] # << >> \/ ~eventsClosed[q]
    BY <1>5 DEF Fetch, FetchStale, ChildEvent, runVars, childVars, TypeInv
  <2>3. Story(at'[q], emitted'[q], reply'[q], stream'[q], result'[q], eventsClosed'[q])
    BY <2>1, <2>2 DEF StoryOf, Story
  <2> QED BY <2>2, <2>3, OthersStory
<1>6. ASSUME NEW q \in Requests, ChildEnds(q) PROVE StoryInv'
  <2>1. StoryOf(q)
    BY DEF StoryInv
  <2>2. /\ UNCHANGED <<at, emitted, reply, stream>>
        /\ \A p \in Requests \ {q} : result'[p] = result[p] /\ eventsClosed'[p] = eventsClosed[p]
        /\ result[q] = "ok" => result'[q] = "ok"
        /\ eventsClosed[q] => eventsClosed'[q]
    BY <1>6 DEF ChildEnds, Child!SetResult, Child!CloseDone, Child!CloseEvents, TypeInv, runVars,
          feedVars
  <2>3. Story(at'[q], emitted'[q], reply'[q], stream'[q], result'[q], eventsClosed'[q])
    BY <2>1, <2>2 DEF StoryOf, Story
  <2> QED BY <2>2, <2>3, OthersStory
<1>7. ASSUME NEW q \in Requests, Expire(q) PROVE StoryInv'
  BY <1>1, <1>7 DEF Expire, runVars, feedVars, childVars
<1> QED BY <1>1, <1>2, <1>4, <1>5, <1>6, <1>7 DEF Next, vars, runVars, feedVars, childVars

(* How the steps of the feed rearrange the three parts of a request's.     *)
LEMMA HeadAndTail ==
    ASSUME NEW s \in Seq(Nat), s # << >>
    PROVE  s = <<Head(s)>> \o Tail(s) /\ Head(s) \in Nat /\ Tail(s) \in Seq(Nat)
OBVIOUS

LEMMA Joined ==
    ASSUME NEW a \in Seq(Nat), NEW b \in Seq(Nat), NEW c \in Seq(Nat)
    PROVE  (a \o b) \o c = a \o (b \o c) /\ b \o c \in Seq(Nat)
<1>1. (a \o b) \o c = a \o (b \o c)
  BY ONLY a \in Seq(Nat), b \in Seq(Nat), c \in Seq(Nat), ConcatAssociative, SMTT(20)
<1>2. b \o c \in Seq(Nat)
  OBVIOUS
<1> QED BY <1>1, <1>2

LEMMA FeedTaken ==
    ASSUME NEW r \in Seq(Nat), NEW l \in Seq(Nat), NEW s \in Seq(Nat), NEW hi, l # << >>,
           Increasing(r \o l \o s, hi)
    PROVE  Increasing(Append(r, Head(l)) \o << >> \o s, hi)
<1> DEFINE h == Head(l)
           t == Tail(l)
<1>1. l = <<h>> \o t /\ h \in Nat /\ t \in Seq(Nat)
  BY HeadAndTail
<1> HIDE DEF h, t
<1>2. <<h>> \in Seq(Nat) /\ Append(r, h) = r \o <<h>> /\ Append(r, h) \in Seq(Nat)
  BY <1>1
<1>3. r \o l = Append(r, h) \o t
  <2>1. (r \o <<h>>) \o t = r \o (<<h>> \o t)
    BY <1>1, <1>2, Joined
  <2> QED BY <1>1, <1>2, <2>1
<1>4. Increasing(Append(r, h) \o s, hi)
  BY <1>1, <1>2, <1>3, IncreasingDrop
<1>5. Append(r, h) \o << >> = Append(r, h)
  BY <1>2, ConcatEmptySeq
<1> QED BY <1>4, <1>5 DEF h

LEMMA FeedDropped ==
    ASSUME NEW r \in Seq(Nat), NEW l \in Seq(Nat), NEW s \in Seq(Nat), NEW hi,
           Increasing(r \o l \o s, hi)
    PROVE  Increasing(r \o << >> \o s, hi)
BY IncreasingDrop, ConcatEmptySeq

LEMMA FeedFetched ==
    ASSUME NEW r \in Seq(Nat), NEW l \in Seq(Nat), NEW s \in Seq(Nat), s # << >>
    PROVE  r \o Append(l, Head(s)) \o Tail(s) = r \o l \o s
<1> DEFINE h == Head(s)
           t == Tail(s)
<1>1. s = <<h>> \o t /\ h \in Nat /\ t \in Seq(Nat)
  BY HeadAndTail
<1> HIDE DEF h, t
<1>2. <<h>> \in Seq(Nat) /\ Append(l, h) = l \o <<h>> /\ r \o l \in Seq(Nat)
  BY <1>1
<1>3. r \o Append(l, h) = (r \o l) \o <<h>>
  BY <1>2, Joined, SMTT(30)
<1>4. ((r \o l) \o <<h>>) \o t = (r \o l) \o s
  BY <1>1, <1>2, Joined, SMTT(30)
<1> QED BY <1>3, <1>4 DEF h, t

LEMMA FeedLost ==
    ASSUME NEW r \in Seq(Nat), NEW l \in Seq(Nat), NEW s \in Seq(Nat), NEW hi, s # << >>,
           Increasing(r \o l \o s, hi)
    PROVE  Increasing(r \o l \o Tail(s), hi)
<1> DEFINE h == Head(s)
           t == Tail(s)
           a == r \o l
<1>1. s = <<h>> \o t /\ h \in Nat /\ t \in Seq(Nat)
  BY HeadAndTail
<1>2. a \in Seq(Nat)
  OBVIOUS
<1> HIDE DEF h, t
<1>3. <<h>> \in Seq(Nat)
  BY <1>1
<1>4. Increasing(a \o s, hi)
  OBVIOUS
<1> HIDE DEF a
<1>5. Increasing(a \o <<h>> \o t, hi)
  <2>1. (a \o <<h>>) \o t = a \o (<<h>> \o t)
    BY <1>1, <1>2, <1>3, Joined, SMTT(30)
  <2> QED BY <1>1, <1>4, <2>1
<1>6. Increasing(a \o t, hi)
  BY <1>1, <1>2, <1>3, <1>5, IncreasingDrop
<1> QED BY <1>6 DEF a, t

LEMMA FeedSent ==
    ASSUME NEW r \in Seq(Nat), NEW l \in Seq(Nat), NEW s \in Seq(Nat), NEW hi \in Nat,
           Increasing(r \o l \o s, hi)
    PROVE  Increasing(r \o l \o Append(s, hi + 1), hi + 1)
<1> DEFINE a == r \o l
<1>1. a \in Seq(Nat) /\ a \o s \in Seq(Nat)
  OBVIOUS
<1>2. a \o Append(s, hi + 1) = Append(a \o s, hi + 1)
  <2> HIDE DEF a
  <2> QED BY <1>1, SMTT(30)
<1> QED BY <1>1, <1>2, IncreasingAppend

LEMMA FeedStep ==
    ASSUME TypeInv, FeedInv, [Next]_vars
    PROVE  FeedInv'
<1>1. CASE UNCHANGED <<reported, latest, stream, produced>>
  BY <1>1 DEF FeedInv, Feed
<1>2. \A p \in Requests : /\ reported[p] \in Seq(Nat) /\ latest[p] \in Seq(Nat)
                          /\ stream[p] \in Seq(Nat) /\ produced[p] \in Nat
                          /\ Increasing(reported[p] \o latest[p] \o stream[p], produced[p])
  BY DEF TypeInv, FeedInv, Feed
<1>3. ASSUME NEW q \in Requests,
             \A p \in Requests \ {q} : /\ reported'[p] = reported[p] /\ latest'[p] = latest[p]
                                       /\ stream'[p] = stream[p] /\ produced'[p] = produced[p],
             Increasing(reported'[q] \o latest'[q] \o stream'[q], produced'[q])
      PROVE  FeedInv'
  <2>1. ASSUME NEW p \in Requests
        PROVE  Increasing(reported'[p] \o latest'[p] \o stream'[p], produced'[p])
    BY <1>2, <1>3
  <2> QED BY <2>1 DEF FeedInv, Feed
<1>4. ASSUME NEW q \in Requests, SelectEvent(q) PROVE FeedInv'
  <2>1. /\ reported'[q] = Append(reported[q], Head(latest[q])) /\ latest'[q] = << >>
        /\ latest[q] # << >> /\ UNCHANGED <<stream, produced>>
        /\ \A p \in Requests \ {q} : reported'[p] = reported[p] /\ latest'[p] = latest[p]
    BY <1>4 DEF SelectEvent, TypeInv
  <2>2. Increasing(reported'[q] \o latest'[q] \o stream'[q], produced'[q])
    BY <1>2, <2>1, FeedTaken
  <2> QED BY <1>3, <2>1, <2>2
<1>5. ASSUME NEW q \in Requests, SelectSilentEvent(q) PROVE FeedInv'
  <2>1. /\ latest'[q] = << >> /\ UNCHANGED <<reported, stream, produced>>
        /\ \A p \in Requests \ {q} : latest'[p] = latest[p]
    BY <1>5 DEF SelectSilentEvent, TypeInv
  <2>2. Increasing(reported'[q] \o latest'[q] \o stream'[q], produced'[q])
    BY <1>2, <2>1, FeedDropped
  <2> QED BY <1>3, <2>1, <2>2
<1>6. ASSUME NEW q \in Requests, Fetch(q) PROVE FeedInv'
  <2>1. /\ latest'[q] = Append(latest[q], Head(stream[q])) /\ stream'[q] = Tail(stream[q])
        /\ stream[q] # << >> /\ UNCHANGED <<reported, produced>>
        /\ \A p \in Requests \ {q} : latest'[p] = latest[p] /\ stream'[p] = stream[p]
    BY <1>6 DEF Fetch, TypeInv, runVars
  <2>2. reported[q] \o Append(latest[q], Head(stream[q])) \o Tail(stream[q])
          = reported[q] \o latest[q] \o stream[q]
    BY <1>2, <2>1, FeedFetched
  <2>3. Increasing(reported'[q] \o latest'[q] \o stream'[q], produced'[q])
    BY <1>2, <2>1, <2>2
  <2> QED BY <1>3, <2>1, <2>3
<1>7. ASSUME NEW q \in Requests, FetchStale(q) PROVE FeedInv'
  <2>1. /\ stream'[q] = Tail(stream[q]) /\ stream[q] # << >>
        /\ UNCHANGED <<reported, latest, produced>>
        /\ \A p \in Requests \ {q} : stream'[p] = stream[p]
    BY <1>7 DEF FetchStale, TypeInv, runVars
  <2>2. Increasing(reported'[q] \o latest'[q] \o stream'[q], produced'[q])
    BY <1>2, <2>1, FeedLost
  <2> QED BY <1>3, <2>1, <2>2
<1>8. ASSUME NEW q \in Requests, ChildEvent(q) PROVE FeedInv'
  <2>1. /\ stream'[q] = Append(stream[q], produced[q] + 1) /\ produced'[q] = produced[q] + 1
        /\ UNCHANGED <<reported, latest>>
        /\ \A p \in Requests \ {q} : stream'[p] = stream[p] /\ produced'[p] = produced[p]
    BY <1>8 DEF ChildEvent, TypeInv, runVars
  <2>2. Increasing(reported'[q] \o latest'[q] \o stream'[q], produced'[q])
    BY <1>2, <2>1, FeedSent
  <2> QED BY <1>3, <2>1, <2>2
<1>9. ASSUME NEW q \in Requests,
             \/ Start(q) \/ OpenFails(q) \/ Open(q) \/ SendFails(q) \/ SendInput(q)
             \/ CallEvents(q) \/ SelectClosed(q) \/ SelectDone(q) \/ Wait(q) \/ Close(q)
             \/ release(q) \/ ChildEnds(q) \/ Expire(q)
      PROVE  UNCHANGED <<reported, latest, stream, produced>>
  BY <1>9 DEF Start, Refuse, AtCapacity, acquire, OpenFails, Open, SendFails, SendInput, CallEvents,
        SelectClosed, SelectDone, Wait, Conclude, Close, release, ChildEnds, Expire, runVars, feedVars
<1>10. CASE UNCHANGED vars
  BY <1>1, <1>10 DEF vars, runVars, feedVars
<1> QED BY <1>1, <1>4, <1>5, <1>6, <1>7, <1>8, <1>9, <1>10 DEF Next, Run, Follow

-----------------------------------------------------------------------------
(* The theorems.                                                           *)
IInv == TypeInv /\ CapacityExact /\ StoryInv /\ FeedInv

LEMMA Initially == Init => IInv
<1> SUFFICES ASSUME Init PROVE IInv
  OBVIOUS
<1>1. TypeInv
  BY DEF Init, Child!Init, TypeInv, Places, Labels
<1>2. CapacityExact
  <2>1. Holders = {}
    BY DEF Init, Holders, Holding
  <2>2. limit \in Nat
    BY SessionRunAssumption DEF limit
  <2> QED BY <2>1, <2>2, FS_EmptySet DEF Init, CapacityExact
<1>3. ASSUME NEW q \in Requests PROVE StoryOf(q) /\ Increasing(Feed(q), produced[q])
  <2>1. /\ at[q] = "idle" /\ emitted[q] = << >> /\ reply[q] = "none" /\ reported[q] = << >>
        /\ latest[q] = << >> /\ stream[q] = << >>
    BY DEF Init
  <2>2. Len(<< >>) = 0 /\ 1 .. 0 = {} /\ << >> \o << >> = << >>
    OBVIOUS
  <2>3. StoryOf(q)
    BY <2>1, <2>2 DEF StoryOf, Story, Terminal, Working
  <2>4. Feed(q) = << >>
    BY <2>1, <2>2 DEF Feed
  <2> QED BY <2>2, <2>3, <2>4 DEF Increasing
<1> QED BY <1>1, <1>2, <1>3 DEF IInv, StoryInv, FeedInv

(***************************************************************************)
(* The invariant the properties rest on holds in every reachable state.    *)
(***************************************************************************)
THEOREM Invariance == Spec => []IInv
<1>1. IInv /\ [Next]_vars => IInv'
  BY TypeStep, CapacityStep, StoryStep, FeedStep DEF IInv
<1> QED BY Initially, <1>1, PTL DEF Spec

(***************************************************************************)
(* However many requests run at once and however each one ends, Runner's   *)
(* counter is the number of requests that hold a slot and never exceeds    *)
(* the limit: no path through Run keeps a slot or gives one back twice.    *)
(***************************************************************************)
THEOREM CapacityCorrect == Spec => []CapacityExact
<1>1. IInv => CapacityExact
  BY DEF IInv
<1> QED BY Invariance, <1>1, PTL

LEMMA EventsFollow == IInv => EventsTellRun
<1> SUFFICES ASSUME IInv PROVE EventsTellRun
  OBVIOUS
<1>1. OutcomeTold
  BY DEF IInv, StoryInv, StoryOf, Story, OutcomeTold, Terminal, Working
<1>2. ASSUME NEW q \in Requests
      PROVE  \A m, n \in 1 .. Len(reported[q]) : m < n => reported[q][m] < reported[q][n]
  <2>1. /\ reported[q] \in Seq(Nat) /\ latest[q] \in Seq(Nat) /\ stream[q] \in Seq(Nat)
        /\ Increasing(reported[q] \o latest[q] \o stream[q], produced[q])
    BY DEF IInv, TypeInv, FeedInv, Feed
  <2>2. /\ reported[q] \o latest[q] \o stream[q] = reported[q] \o (latest[q] \o stream[q])
        /\ latest[q] \o stream[q] \in Seq(Nat)
    BY <2>1, Joined
  <2> QED BY <2>1, <2>2, IncreasingFirst
<1> QED BY <1>1, <1>2 DEF EventsTellRun, ProgressInOrder

(***************************************************************************)
(* The lifecycle events of a request and what Run returns agree, whichever *)
(* of the child's end, the close of its events and the end of the context  *)
(* comes first, and the progress reported follows the order in which the   *)
(* child sent it although older fetchers take events away.                 *)
(***************************************************************************)
THEOREM EventsCorrect == Spec => []EventsTellRun
BY Invariance, EventsFollow, PTL

-----------------------------------------------------------------------------
(* The policy.                                                             *)

IsSpec(spec) == \E a, b, c, f : spec = [name |-> a, agent |-> b, operations |-> c, limited |-> f]

LEMMA ResolvedByName ==
    ASSUME NEW policy, NEW name, NEW required
    PROVE  /\ IsSpec(resolveProfileSpec(policy, name, required).spec)
           /\ \/ resolveProfileSpec(policy, name, required).resolved
              \/ resolveProfileSpec(policy, name, required).spec = NoSpec
<1>1. IsSpec(NoSpec)
  BY DEF NoSpec, IsSpec
<1>2. ASSUME NEW n \in DOMAIN Registry PROVE IsSpec(Registry[n])
  BY <1>2, SessionRunAssumption DEF SpecType, IsSpec
<1> QED BY <1>1, <1>2 DEF resolveProfileSpec

LEMMA ResolvedSpec ==
    ASSUME NEW i \in Inputs
    PROVE  /\ IsSpec(resolveProfile(i).spec)
           /\ resolveProfile(i).resolved \/ resolveProfile(i).spec = NoSpec
<1>1. IsSpec(i.profile) /\ IsSpec(NoSpec)
  BY SessionRunAssumption DEF InputType, SpecType, IsSpec, NoSpec
<1>2. ASSUME NEW x, NEW y PROVE IsSpec([i.profile EXCEPT !.name = x, !.agent = y])
  <2>1. PICK a, b, c, f : i.profile = [name |-> a, agent |-> b, operations |-> c, limited |-> f]
    BY <1>1 DEF IsSpec
  <2>2. [i.profile EXCEPT !.name = x] = [name |-> x, agent |-> b, operations |-> c, limited |-> f]
    BY <2>1
  <2>3. [i.profile EXCEPT !.name = x, !.agent = y]
          = [[name |-> x, agent |-> b, operations |-> c, limited |-> f] EXCEPT !.agent = y]
    BY <2>2
  <2>4. [[name |-> x, agent |-> b, operations |-> c, limited |-> f] EXCEPT !.agent = y]
          = [name |-> x, agent |-> y, operations |-> c, limited |-> f]
    OBVIOUS
  <2> QED BY <2>3, <2>4 DEF IsSpec
<1>3. CASE i.agent # NoName
  BY <1>2, <1>3 DEF resolveProfile
<1>4. CASE i.agent = NoName /\ i.profile.name # NoName
  BY <1>1, <1>4 DEF resolveProfile
<1>5. CASE i.agent = NoName /\ i.profile.name = NoName /\ i.session # NoName
  <2>1. resolveProfile(i) = resolveProfileSpec(i.policy, i.session, i.enforce)
    BY <1>5 DEF resolveProfile
  <2> QED BY <2>1, ResolvedByName
<1>6. CASE i.agent = NoName /\ i.profile.name = NoName /\ i.session = NoName
  <2>1. \/ resolveProfile(i) = resolveProfileSpec(i.policy, i.policy.profiles[1], TRUE)
        \/ resolveProfile(i) = [ok |-> FALSE, name |-> NoName, spec |-> NoSpec, resolved |-> FALSE]
    BY <1>6 DEF resolveProfile
  <2>2. CASE resolveProfile(i) = resolveProfileSpec(i.policy, i.policy.profiles[1], TRUE)
    BY <2>2, ResolvedByName
  <2>3. CASE resolveProfile(i)
               = [ok |-> FALSE, name |-> NoName, spec |-> NoSpec, resolved |-> FALSE]
    BY <1>1, <2>3
  <2> QED BY <2>1, <2>2, <2>3
<1> QED BY <1>3, <1>4, <1>5, <1>6

(* What the policy of an enforced request leaves of a profile.             *)
Obeys(i, spec) ==
    /\ i.policy.agents # << >> => spec.agent \in ToSet(i.policy.agents)
    /\ Agree(Lists(i, spec)) => \A l \in Lists(i, spec) : Reachable(spec) \subseteq l

(* Narrowing keeps what all lists have in common, so that it ends in an    *)
(* empty list, which is no list to FilterTools, only when that is nothing. *)
LEMMA NarrowedTools ==
    ASSUME NEW own, NEW policy, NEW base, NEW spec,
           spec.operations = narrow(own, policy),
           spec.limited = (own # {} \/ policy # {}),
           NEW o \in UNION ({own, policy, base} \ {{}}),
           \A l \in {own, policy, base} \ {{}} : o \in l,
           NEW l \in {own, policy, base} \ {{}}
    PROVE  FilterTools(ApplySessionProfile(base, spec)) \subseteq l
<1>1. /\ own # {} => o \in own
      /\ policy # {} => o \in policy
      /\ base # {} => o \in base
  OBVIOUS
<1>2. /\ own # {} \/ policy # {} => o \in narrow(own, policy)
      /\ own # {} => narrow(own, policy) \subseteq own
      /\ policy # {} => narrow(own, policy) \subseteq policy
  BY <1>1 DEF narrow
<1>3. PICK ops : ops = ApplySessionProfile(base, spec)
  OBVIOUS
<1>4. CASE own # {} \/ policy # {}
  <2>1. ops = IF base = {} THEN narrow(own, policy) ELSE base \intersect narrow(own, policy)
    BY <1>3, <1>4 DEF ApplySessionProfile
  <2>2. o \in ops /\ ops \subseteq narrow(own, policy) /\ (base # {} => ops \subseteq base)
    BY <1>1, <1>2, <1>4, <2>1
  <2>3. ops \subseteq l
    BY <1>2, <2>2
  <2> QED  BY <1>3, <2>2, <2>3 DEF FilterTools
<1>5. CASE own = {} /\ policy = {}
  <2>1. ops = base /\ l = base
    BY <1>3, <1>5 DEF ApplySessionProfile
  <2> QED  BY <1>3, <2>1 DEF FilterTools
<1> QED  BY <1>4, <1>5

LEMMA ContainsElement ==
    ASSUME NEW s \in Seq(STRING), NEW x, Contains(s, x)
    PROVE  x \in ToSet(s)
BY DEF Contains, ToSet

LEMMA NarrowedProfile ==
    ASSUME NEW i \in Inputs, Permitted(i), i.enforce
    PROVE  Obeys(i, effectiveProfile(i))
<1>1. PICK p : p = resolveProfile(i)
  OBVIOUS
<1>2. PICK a, b, c, f : p.spec = [name |-> a, agent |-> b, operations |-> c, limited |-> f]
  BY <1>1, ResolvedSpec DEF IsSpec
<1>3. effectiveProfile(i) = narrowProfile(i, p)
  BY <1>1 DEF effectiveProfile
<1>4. (IF p.resolved THEN p.spec ELSE NoSpec) = p.spec
  BY <1>1, ResolvedSpec
<1>5. PICK x : x = FirstName(<<p.spec.name, p.name>>)
  OBVIOUS
<1>6. narrowProfile(i, p) = [p.spec EXCEPT !.name = x,
                                           !.operations = narrow(p.spec.operations, i.policy.operations),
                                           !.limited = p.spec.operations # {} \/ i.policy.operations # {}]
  BY <1>4, <1>5 DEF narrowProfile
<1>7. /\ narrowProfile(i, p).agent = b
      /\ narrowProfile(i, p).operations = narrow(c, i.policy.operations)
      /\ narrowProfile(i, p).limited = (c # {} \/ i.policy.operations # {})
  BY <1>2, <1>6
<1>8. PICK spec : spec = effectiveProfile(i)
  OBVIOUS
<1>9. i.policy.agents \in Seq(STRING)
  BY SessionRunAssumption DEF InputType, PolicyType
<1>10. i.policy.agents # << >> => b \in ToSet(i.policy.agents)
  <2>1. authorizeAgent(i, p)
    BY <1>1 DEF Permitted
  <2>2. i.policy.agents # << >> => Contains(i.policy.agents, b)
    BY <2>1, <1>2 DEF authorizeAgent
  <2> QED BY <2>2, <1>9, ContainsElement
<1>11. resolveProfile(i).spec.operations = c
  BY <1>1, <1>2
<1>12. Lists(i, spec) = {c, i.policy.operations, agentOperations(spec.agent)} \ {{}}
  BY <1>11 DEF Lists
<1>13. ASSUME Agree(Lists(i, spec)), NEW l \in Lists(i, spec)
       PROVE  Reachable(spec) \subseteq l
  <2>1. PICK o \in UNION Lists(i, spec) : \A k \in Lists(i, spec) : o \in k
    BY <1>13 DEF Agree
  <2>2. spec.operations = narrow(c, i.policy.operations)
        /\ spec.limited = (c # {} \/ i.policy.operations # {})
    BY <1>3, <1>7, <1>8
  <2>3. PICK base : base = agentOperations(spec.agent)
    OBVIOUS
  <2>4. PICK policy : policy = i.policy.operations
    OBVIOUS
  <2>5. Lists(i, spec) = {c, policy, base} \ {{}}
    BY <1>12, <2>3, <2>4
  <2>6. /\ o \in UNION ({c, policy, base} \ {{}}) /\ l \in {c, policy, base} \ {{}}
        /\ \A k \in {c, policy, base} \ {{}} : o \in k
    BY <1>13, <2>1, <2>5, Zenon
  <2>7. spec.operations = narrow(c, policy) /\ spec.limited = (c # {} \/ policy # {})
    BY <2>2, <2>4, Zenon
  <2>8. FilterTools(ApplySessionProfile(base, spec)) \subseteq l
    BY <2>6, <2>7, NarrowedTools
  <2> QED  BY <2>3, <2>8 DEF Reachable
<1> QED BY <1>3, <1>7, <1>8, <1>10, <1>13 DEF Obeys

(* A request that has a slot was permitted, and its child session, while   *)
(* it is open, has the profile that was worked out for it.                 *)
Opened == {"send", "loop", "select", "wait", "close"}
PolicyOf(q) ==
    /\ at[q] \in Holding => input[q] \in Inputs /\ Permitted(input[q])
    /\ opened[q] => at[q] \in Opened /\ profile[q] = effectiveProfile(input[q])
PolicyInv ==
    /\ input = [q \in Requests |-> input[q]]
    /\ opened = [q \in Requests |-> opened[q]]
    /\ profile = [q \in Requests |-> profile[q]]
    /\ \A q \in Requests : PolicyOf(q)

LEMMA PolicyStep ==
    ASSUME TypeInv, PolicyInv, [Next]_vars
    PROVE  PolicyInv'
<1>1. ASSUME UNCHANGED <<at, input, opened, profile>> PROVE PolicyInv'
  <2>1. at' = at /\ input' = input /\ opened' = opened /\ profile' = profile
    BY <1>1
  <2> QED BY <2>1 DEF PolicyInv, PolicyOf
<1>2. ASSUME NEW q \in Requests, NEW a \in Places, at' = [at EXCEPT ![q] = a],
             UNCHANGED <<input, profile>>,
             \/ opened' = opened
             \/ opened' = [opened EXCEPT ![q] = FALSE],
             a \in Holding => at[q] \in Holding,
             opened'[q] => a \in Opened
      PROVE  PolicyInv'
  <2>1. input' = input /\ profile' = profile
    BY <1>2
  <2>2. ASSUME NEW p \in Requests PROVE PolicyOf(p)'
    <3>1. p # q => at'[p] = at[p] /\ opened'[p] = opened[p]
      BY <1>2 DEF TypeInv, PolicyInv
    <3>2. CASE p # q
      BY <2>1, <3>1, <3>2 DEF PolicyInv, PolicyOf
    <3>3. CASE p = q
      <4>1. at'[q] = a /\ (opened'[q] => opened[q])
        BY <1>2 DEF TypeInv, PolicyInv
      <4> QED BY <2>1, <3>3, <4>1, <1>2 DEF PolicyInv, PolicyOf
    <3> QED BY <3>2, <3>3
  <2>3. opened' = [r \in Requests |-> opened'[r]]
    BY <1>2 DEF PolicyInv
  <2> QED BY <2>1, <2>2, <2>3 DEF PolicyInv
<1>3. ASSUME NEW q \in Requests, NEW i \in Inputs, acquire(q, i) PROVE PolicyInv'
  <2>1. /\ at'[q] = "open" /\ input'[q] = i /\ Permitted(i) /\ at[q] = "idle"
        /\ opened' = opened /\ profile' = profile
        /\ \A p \in Requests \ {q} : at'[p] = at[p] /\ input'[p] = input[p]
        /\ input' = [r \in Requests |-> input'[r]]
    BY <1>3 DEF acquire, Goto, TypeInv, PolicyInv
  <2>2. ~opened[q]
    BY <2>1 DEF PolicyInv, PolicyOf, Opened
  <2>3. PolicyOf(q)'
    BY <2>1, <2>2 DEF PolicyOf
  <2>4. ASSUME NEW p \in Requests \ {q} PROVE PolicyOf(p)'
    BY <2>1 DEF PolicyInv, PolicyOf
  <2> QED BY <2>1, <2>3, <2>4 DEF PolicyInv
<1>4. ASSUME NEW q \in Requests, Open(q) PROVE PolicyInv'
  <2>1. /\ at'[q] = "send" /\ opened'[q] /\ profile'[q] = effectiveProfile(input[q])
        /\ at[q] = "open" /\ input' = input
        /\ \A p \in Requests \ {q} :
              at'[p] = at[p] /\ opened'[p] = opened[p] /\ profile'[p] = profile[p]
        /\ opened' = [r \in Requests |-> opened'[r]]
        /\ profile' = [r \in Requests |-> profile'[r]]
    BY <1>4 DEF Open, Goto, TypeInv, PolicyInv
  <2>2. PolicyOf(q)'
    BY <2>1 DEF PolicyInv, PolicyOf, Holding, Opened
  <2>3. ASSUME NEW p \in Requests \ {q} PROVE PolicyOf(p)'
    BY <2>1 DEF PolicyInv, PolicyOf
  <2> QED BY <2>1, <2>2, <2>3 DEF PolicyInv
<1>5. ASSUME NEW q \in Requests, NEW e, Conclude(q, e), at[q] \in Holding PROVE PolicyInv'
  <2>1. PICK a \in {"close", "release"} : Goto(q, a) /\ (opened[q] => a = "close")
    BY <1>5 DEF Conclude
  <2>2. a \in Places /\ (opened[q] => a \in Opened)
    BY <2>1 DEF Places, Holding, Opened
  <2>3. UNCHANGED <<input, profile>> /\ opened' = opened /\ at' = [at EXCEPT ![q] = a]
    BY <1>5, <2>1 DEF Conclude, Goto
  <2> QED BY <1>2, <1>5, <2>2, <2>3
<1>6. ASSUME NEW q \in Requests, Close(q) PROVE PolicyInv'
  <2>1. /\ at' = [at EXCEPT ![q] = "release"] /\ UNCHANGED <<input, profile>>
        /\ opened' = [opened EXCEPT ![q] = FALSE] /\ at[q] \in Holding
    BY <1>6 DEF Close, Goto, Holding
  <2>2. ~opened'[q] /\ "release" \in Places
    BY <2>1 DEF PolicyInv, Places, Holding
  <2> QED BY <1>2, <2>1, <2>2
<1>7. ASSUME NEW q \in Requests,
             \/ release(q)
             \/ \E i \in Inputs : Refuse(q, i) \/ AtCapacity(q, i)
      PROVE  PolicyInv'
  <2>1. /\ at' = [at EXCEPT ![q] = "returned"] /\ UNCHANGED <<input, profile>> /\ opened' = opened
        /\ at[q] \in {"release", "idle"}
    BY <1>7 DEF release, Refuse, AtCapacity, Goto
  <2>2. ~opened'[q] /\ "returned" \in Places /\ "returned" \notin Holding
    BY <2>1 DEF PolicyInv, PolicyOf, Opened, Places, Holding
  <2> QED BY <1>2, <2>1, <2>2
<1>8. ASSUME NEW q \in Requests,
             \/ SendInput(q) \/ CallEvents(q) \/ SelectEvent(q) \/ SelectSilentEvent(q)
             \/ SelectClosed(q)
      PROVE  PolicyInv'
  <2>1. PICK a \in {"loop", "select", "wait"} : Goto(q, a)
    BY <1>8 DEF SendInput, CallEvents, SelectEvent, SelectSilentEvent, SelectClosed
  <2>2. UNCHANGED <<input, profile>> /\ opened' = opened /\ at[q] \in Holding
    BY <1>8 DEF SendInput, CallEvents, SelectEvent, SelectSilentEvent, SelectClosed, Holding
  <2>3. at' = [at EXCEPT ![q] = a] /\ a \in Places /\ a \in Opened
    BY <2>1 DEF Goto, Places, Holding, Opened
  <2> QED BY <1>2, <2>2, <2>3
<1>9. ASSUME NEW q \in Requests,
             \/ OpenFails(q) \/ SendFails(q) \/ SelectDone(q) \/ Wait(q)
      PROVE  PolicyInv'
  <2>1. at[q] \in Holding /\ \E e : Conclude(q, e)
    BY <1>9 DEF OpenFails, SendFails, SelectDone, Wait, Holding
  <2> QED BY <1>5, <2>1
<1>10. ASSUME NEW q \in Requests,
              \/ Fetch(q) \/ FetchStale(q) \/ ChildEvent(q) \/ ChildEnds(q) \/ Expire(q)
       PROVE  PolicyInv'
  <2>1. UNCHANGED runVars
    BY <1>10 DEF Fetch, FetchStale, ChildEvent, ChildEnds, Expire
  <2> QED BY <1>1, <2>1 DEF runVars
<1>11. CASE UNCHANGED vars
  BY <1>1, <1>11 DEF vars, runVars
<1> QED BY <1>3, <1>4, <1>6, <1>7, <1>8, <1>9, <1>10, <1>11 DEF Next, Start, Run, Follow

(***************************************************************************)
(* Run opens a child session with the profile that resolveProfile,         *)
(* authorizeProfile and narrowProfile left: under an enforced policy its   *)
(* agent is one the policy lists, and the tools that ApplySessionProfile   *)
(* and FilterTools leave it reach only what every list of operations has,  *)
(* provided the lists agree on one, while other requests start and end.    *)
(***************************************************************************)
THEOREM DelegationCorrect == Spec => []DelegationHolds
<1>1. Init => PolicyInv
  BY DEF Init, PolicyInv, PolicyOf, Holding
<1>2. TypeInv /\ PolicyInv /\ [Next]_vars => PolicyInv'
  BY PolicyStep
<1>3. IInv => TypeInv
  BY DEF IInv
<1>4. PolicyInv => DelegationHolds
  <2> SUFFICES ASSUME PolicyInv, NEW q \in Requests, opened[q], input[q].enforce
               PROVE  Obeys(input[q], profile[q])
    BY DEF DelegationHolds, Obeys
  <2>1. /\ profile[q] = effectiveProfile(input[q])
        /\ input[q] \in Inputs /\ Permitted(input[q])
    BY DEF PolicyInv, PolicyOf, Opened, Holding
  <2> QED BY <2>1, NarrowedProfile
<1> QED BY <1>1, <1>2, <1>3, <1>4, Invariance, PTL DEF Spec
=============================================================================
