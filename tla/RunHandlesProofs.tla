------------------------- MODULE RunHandlesProofs -------------------------
(***************************************************************************)
(* Theorems about RunHandles: subscribers are lossless and in order, what  *)
(* the client of a run reads is faithful, nothing is emitted on a closed   *)
(* channel, and a handle implements RunContract.                           *)
(*                                                                         *)
(* The argument has two layers.  Subscriptions is seen through SubStep,    *)
(* the ways in which a step of the whole system changes its variables, and *)
(* SubInv is inductive for those.  HandleInv then follows the events of a  *)
(* run from its publication to its handle.                                 *)
(***************************************************************************)
EXTENDS RunHandles, FiniteSetTheorems, TLAPS

Events == [by : Publishers, n : Nat, kind : AllKinds]

(* The events of p in evs have increasing numbers above lo and up to hi.   *)
Increasing(p, evs, lo, hi) ==
    /\ lo \in Nat /\ hi \in Nat /\ lo <= hi
    /\ \A i \in DOMAIN evs : evs[i].by = p =>
          /\ lo < evs[i].n /\ evs[i].n <= hi
          /\ \A j \in DOMAIN evs : evs[j].by = p /\ i < j => evs[i].n < evs[j].n

(* None of these numbers is missing.                                       *)
Complete(p, evs, lo, hi) ==
    \A n \in Nat : lo < n /\ n <= hi => \E i \in DOMAIN evs : evs[i].by = p /\ evs[i].n = n

-----------------------------------------------------------------------------
(* Sequences of events.                                                    *)

(* The event subscriber.run moves on stays where it is among the pending.  *)
LEMMA MoveOn ==
    ASSUME NEW S, NEW c \in Seq(S), NEW q \in Seq(S), q # << >>
    PROVE  Append(c, Head(q)) \o Tail(q) = c \o q
  OBVIOUS

LEMMA AppendLast ==
    ASSUME NEW S, NEW c \in Seq(S), NEW q \in Seq(S), NEW e \in S
    PROVE  c \o Append(q, e) = Append(c \o q, e)
  OBVIOUS

LEMMA TailFirst ==
    ASSUME NEW S, NEW c \in Seq(S), NEW q \in Seq(S), c # << >>
    PROVE  /\ Tail(c) \o q = Tail(c \o q) /\ Head(c \o q) = Head(c)
           /\ c \o q # << >> /\ c \o q \in Seq(S)
  OBVIOUS

LEMMA NoQueue ==
    ASSUME NEW S, NEW c \in Seq(S)
    PROVE  c \o << >> = c
  OBVIOUS

LEMMA TailFacts ==
    ASSUME NEW S, NEW l \in Seq(S), l # << >>
    PROVE  /\ 1 \in DOMAIN l /\ Head(l) = l[1] /\ Head(l) \in S
           /\ \A i \in DOMAIN Tail(l) : i + 1 \in DOMAIN l /\ Tail(l)[i] = l[i + 1] /\ i + 1 # 1
           /\ \A i \in DOMAIN l : i # 1 => i - 1 \in DOMAIN Tail(l) /\ Tail(l)[i - 1] = l[i]
           /\ DOMAIN Tail(l) \subseteq Nat
           /\ Tail(l) \in Seq(S) /\ (Len(l) = 1 => Tail(l) = << >>)
<1>1. Len(l) \in Nat /\ Len(l) >= 1 /\ DOMAIN l = 1 .. Len(l) /\ Head(l) = l[1] /\ Head(l) \in S
  OBVIOUS
<1>2. Tail(l) \in Seq(S) /\ DOMAIN Tail(l) = 1 .. Len(l) - 1 /\ Len(Tail(l)) = Len(l) - 1
  OBVIOUS
<1>2a. \A q \in Seq(S) : Len(q) = 0 => q = << >>
  OBVIOUS
<1>3. \A i \in 1 .. Len(l) - 1 : Tail(l)[i] = l[i + 1]
  OBVIOUS
<1> QED  BY <1>1, <1>2, <1>2a, <1>3

(* An event behind the others, the next one of its publisher.              *)
LEMMA IncreasingAppend ==
    ASSUME NEW p, NEW evs \in Seq(Events), NEW e \in Events, NEW lo, NEW hi,
           Increasing(p, evs, lo, hi), e.by = p => e.n = hi + 1
    PROVE  /\ e.by = p => Increasing(p, Append(evs, e), lo, hi + 1)
           /\ e.by # p => Increasing(p, Append(evs, e), lo, hi)
<1>1. /\ \A i \in DOMAIN evs : /\ i \in DOMAIN Append(evs, e) /\ Append(evs, e)[i] = evs[i]
                                 /\ evs[i] \in Events /\ i < Len(evs) + 1
      /\ \A i \in DOMAIN Append(evs, e) : i \in DOMAIN evs \/ i = Len(evs) + 1
      /\ Len(evs) + 1 \in Nat /\ Append(evs, e)[Len(evs) + 1] = e
  OBVIOUS
<1>2. \A x \in Events : x.n \in Nat
  BY DEF Events
<1>3. DOMAIN evs \subseteq Nat
  OBVIOUS
<1>4. ASSUME e.by # p
      PROVE  Increasing(p, Append(evs, e), lo, hi)
  BY <1>1, <1>4 DEF Increasing
<1>5. ASSUME e.by = p
      PROVE  Increasing(p, Append(evs, e), lo, hi + 1)
  <2>1. lo \in Nat /\ hi \in Nat /\ lo <= hi /\ e.n = hi + 1
    BY <1>5 DEF Increasing
  <2>2. \A i \in DOMAIN evs : evs[i].by = p => lo < evs[i].n /\ evs[i].n < hi + 1
    BY <1>1, <1>2, <2>1 DEF Increasing
  <2>3. ASSUME NEW i \in DOMAIN Append(evs, e), Append(evs, e)[i].by = p
        PROVE  /\ lo < Append(evs, e)[i].n /\ Append(evs, e)[i].n <= hi + 1
               /\ \A j \in DOMAIN Append(evs, e) : Append(evs, e)[j].by = p /\ i < j
                     => Append(evs, e)[i].n < Append(evs, e)[j].n
    <3>1. CASE i = Len(evs) + 1
      BY <1>1, <1>3, <2>1, <3>1
    <3>2. CASE i \in DOMAIN evs
      <4>1. lo < evs[i].n /\ evs[i].n < hi + 1 /\ evs[i].n \in Nat
        BY <1>1, <1>2, <2>2, <2>3, <3>2
      <4>2. \A j \in DOMAIN evs : evs[j].by = p /\ i < j => evs[i].n < evs[j].n
        BY <1>1, <2>3, <3>2 DEF Increasing
      <4> QED  BY <1>1, <2>1, <3>2, <4>1, <4>2
    <3> QED  BY <1>1, <3>1, <3>2
  <2> QED  BY <2>1, <2>3 DEF Increasing
<1> QED  BY <1>4, <1>5

LEMMA CompleteAppend ==
    ASSUME NEW p, NEW evs \in Seq(Events), NEW e \in Events, NEW lo \in Nat, NEW hi \in Nat,
           Complete(p, evs, lo, hi), e.by = p => e.n = hi + 1
    PROVE  /\ e.by = p => Complete(p, Append(evs, e), lo, hi + 1)
           /\ e.by # p => Complete(p, Append(evs, e), lo, hi)
<1>1. /\ \A i \in DOMAIN evs : i \in DOMAIN Append(evs, e) /\ Append(evs, e)[i] = evs[i]
      /\ Len(Append(evs, e)) \in DOMAIN Append(evs, e)
      /\ Append(evs, e)[Len(Append(evs, e))] = e
  OBVIOUS
<1>2. ASSUME e.by = p
      PROVE  Complete(p, Append(evs, e), lo, hi + 1)
  <2> SUFFICES ASSUME NEW n \in Nat, lo < n, n <= hi + 1
               PROVE  \E i \in DOMAIN Append(evs, e) : /\ Append(evs, e)[i].by = p
                                                       /\ Append(evs, e)[i].n = n
    BY DEF Complete
  <2>1. CASE n = hi + 1
    BY <1>1, <1>2, <2>1
  <2>2. CASE n # hi + 1
    BY <1>1, <2>2 DEF Complete
  <2> QED  BY <2>1, <2>2
<1>3. Complete(p, Append(evs, e), lo, hi)
  BY <1>1 DEF Complete
<1> QED  BY <1>2, <1>3

(* The first event is taken.                                               *)
LEMMA IncreasingTail ==
    ASSUME NEW p, NEW evs \in Seq(Events), evs # << >>, NEW lo, NEW hi,
           Increasing(p, evs, lo, hi)
    PROVE  /\ Head(evs).by = p => /\ Increasing(p, Tail(evs), Head(evs).n, hi)
                                  /\ lo < Head(evs).n /\ Head(evs).n <= hi
           /\ Increasing(p, Tail(evs), lo, hi)
<1>1. \A i \in DOMAIN Tail(evs) : i + 1 \in DOMAIN evs /\ Tail(evs)[i] = evs[i + 1]
  OBVIOUS
<1>2. 1 \in DOMAIN evs /\ Head(evs) = evs[1] /\ Head(evs) \in Events
  OBVIOUS
<1>3. \A i \in DOMAIN Tail(evs) : i \in Nat /\ 1 < i + 1
  OBVIOUS
<1>4. Increasing(p, Tail(evs), lo, hi)
  BY <1>1, <1>3 DEF Increasing
<1>5. ASSUME Head(evs).by = p
      PROVE  /\ Increasing(p, Tail(evs), Head(evs).n, hi)
             /\ lo < Head(evs).n /\ Head(evs).n <= hi
  <2>1. lo < evs[1].n /\ evs[1].n <= hi /\ evs[1].n \in Nat
    BY <1>2, <1>5 DEF Increasing, Events
  <2>2. \A i \in DOMAIN Tail(evs) : Tail(evs)[i].by = p => evs[1].n < Tail(evs)[i].n
    BY <1>1, <1>2, <1>3, <1>5 DEF Increasing
  <2> QED  BY <1>2, <1>4, <2>1, <2>2 DEF Increasing
<1> QED  BY <1>4, <1>5

LEMMA CompleteTail ==
    ASSUME NEW p, NEW evs \in Seq(Events), evs # << >>, NEW lo, NEW hi,
           Increasing(p, evs, lo, hi), Complete(p, evs, lo, hi)
    PROVE  /\ Head(evs).by = p => /\ Complete(p, Tail(evs), Head(evs).n, hi)
                                  /\ Head(evs).n = lo + 1
           /\ Head(evs).by # p => Complete(p, Tail(evs), lo, hi)
<1>1. \A i \in DOMAIN evs : i # 1 => i - 1 \in DOMAIN Tail(evs) /\ Tail(evs)[i - 1] = evs[i]
  OBVIOUS
<1>2. 1 \in DOMAIN evs /\ Head(evs) = evs[1] /\ Head(evs) \in Events
      /\ \A i \in DOMAIN evs : evs[i] \in Events /\ i \in Nat /\ (i # 1 => 1 < i)
  OBVIOUS
<1>3. ASSUME Head(evs).by # p
      PROVE  Complete(p, Tail(evs), lo, hi)
  <2> SUFFICES ASSUME NEW n \in Nat, lo < n, n <= hi
               PROVE  \E i \in DOMAIN Tail(evs) : Tail(evs)[i].by = p /\ Tail(evs)[i].n = n
    BY DEF Complete
  <2>1. PICK i \in DOMAIN evs : evs[i].by = p /\ evs[i].n = n
    BY DEF Complete
  <2>2. i # 1
    BY <1>2, <1>3, <2>1
  <2> QED  BY <1>1, <2>1, <2>2
<1>4. ASSUME Head(evs).by = p
      PROVE  Complete(p, Tail(evs), Head(evs).n, hi) /\ Head(evs).n = lo + 1
  <2>1. lo \in Nat /\ hi \in Nat /\ lo < evs[1].n /\ evs[1].n <= hi /\ evs[1].n \in Nat
    BY <1>2, <1>4 DEF Increasing, Events
  <2>2. evs[1].n = lo + 1
    <3>1. PICK i \in DOMAIN evs : evs[i].by = p /\ evs[i].n = lo + 1
      BY <2>1 DEF Complete
    <3>2. CASE i # 1
      <4>1. evs[1].n < evs[i].n
        BY <1>2, <1>4, <3>1, <3>2 DEF Increasing
      <4> QED  BY <2>1, <3>1, <4>1
    <3> QED  BY <3>1, <3>2
  <2>3. ASSUME NEW n \in Nat, evs[1].n < n, n <= hi
        PROVE  \E i \in DOMAIN Tail(evs) : Tail(evs)[i].by = p /\ Tail(evs)[i].n = n
    <3>1. PICK i \in DOMAIN evs : evs[i].by = p /\ evs[i].n = n
      BY <2>1, <2>3 DEF Complete
    <3>2. i # 1
      BY <2>1, <2>3, <3>1
    <3> QED  BY <1>1, <3>1, <3>2
  <2> QED  BY <1>2, <2>2, <2>3 DEF Complete
<1> QED  BY <1>3, <1>4

(* A prefix of increasing events is increasing.                            *)
LEMMA IncreasingPrefix ==
    ASSUME NEW p, NEW c \in Seq(Events), NEW q \in Seq(Events), NEW lo, NEW hi,
           Increasing(p, c \o q, lo, hi)
    PROVE  Increasing(p, c, lo, hi)
<1>1. \A i \in DOMAIN c : i \in DOMAIN (c \o q) /\ (c \o q)[i] = c[i]
  OBVIOUS
<1> QED  BY <1>1 DEF Increasing

LEMMA IncreasingMore ==
    ASSUME NEW p, NEW evs \in Seq(Events), NEW lo, NEW hi,
           Increasing(p, evs, lo, hi)
    PROVE  Increasing(p, evs, lo, hi + 1)
<1>1. \A i \in DOMAIN evs : evs[i] \in Events
  OBVIOUS
<1> QED  BY <1>1 DEF Increasing, Events

(* publish visits every subscriber of the snapshot once and nobody else.   *)
LEMMA OrderOnto ==
    ASSUME NEW S, IsFiniteSet(S), NEW f \in SetToSeqs(S)
    PROVE  /\ f \in Seq(S)
           /\ \A i, j \in DOMAIN f : f[i] = f[j] => i = j
           /\ \A s \in S : \E i \in DOMAIN f : f[i] = s
<1> DEFINE D == 1 .. Cardinality(S)
<1>1. Cardinality(S) \in Nat
  BY FS_CardinalityType
<1>2. f \in [D -> S] /\ \A i, j \in D : i # j => f[i] # f[j]
  BY DEF SetToSeqs
<1>3. f \in Injection(D, S)
  BY <1>2 DEF Injection, IsInjective
<1>4. IsFiniteSet(D) /\ Cardinality(D) = Cardinality(S)
  BY <1>1, FS_Interval
<1>5. f \in Surjection(D, S)
  BY <1>3, <1>4, FS_Injection
<1>6. \A s \in S : \E i \in D : f[i] = s
  BY <1>5 DEF Surjection
<1> QED  BY <1>1, <1>2, <1>6

LEMMA OrderFacts ==
    ASSUME NEW S \in SUBSET Subs, NEW order \in Orders(S)
    PROVE  /\ order \in Seq(Subs)
           /\ \A i, j \in DOMAIN order : order[i] = order[j] => i = j
           /\ \A s : s \in S <=> \E i \in DOMAIN order : order[i] = s
<1> DEFINE A == S \intersect AllSubs
           B == S \ AllSubs
<1>1. IsFiniteSet(A) /\ IsFiniteSet(B)
  BY SubscriptionAssumption, FS_Subset
<1>2. PICK a \in SetToSeqs(A) : \E b \in SetToSeqs(B) : order = a \o b
  BY DEF Orders
<1>2a. PICK b \in SetToSeqs(B) : order = a \o b
  BY <1>2
<1>3. /\ a \in Seq(A)
      /\ \A i, j \in DOMAIN a : a[i] = a[j] => i = j
      /\ \A s \in A : \E i \in DOMAIN a : a[i] = s
  BY <1>1, OrderOnto
<1>4. /\ b \in Seq(B)
      /\ \A i, j \in DOMAIN b : b[i] = b[j] => i = j
      /\ \A s \in B : \E i \in DOMAIN b : b[i] = s
  BY <1>1, OrderOnto
<1>5. a \in Seq(Subs) /\ b \in Seq(Subs)
  BY <1>3, <1>4
<1>6. /\ order \in Seq(Subs) /\ DOMAIN order = 1 .. Len(a) + Len(b)
      /\ \A i \in 1 .. Len(a) : order[i] = a[i]
      /\ \A i \in Len(a) + 1 .. Len(a) + Len(b) : order[i] = b[i - Len(a)]
  BY <1>2a, <1>5
<1>7. /\ DOMAIN a = 1 .. Len(a) /\ Len(a) \in Nat /\ \A i \in 1 .. Len(a) : a[i] \in A
      /\ DOMAIN b = 1 .. Len(b) /\ Len(b) \in Nat /\ \A i \in 1 .. Len(b) : b[i] \in B
  BY <1>3, <1>4
<1>8. \A i \in DOMAIN order : \/ i \in DOMAIN a /\ order[i] = a[i] /\ order[i] \in A
                              \/ /\ i - Len(a) \in DOMAIN b /\ order[i] = b[i - Len(a)]
                                 /\ order[i] \in B
  BY <1>6, <1>7
<1>9. /\ \A i \in DOMAIN a : i \in DOMAIN order /\ order[i] = a[i]
      /\ \A i \in DOMAIN b : i + Len(a) \in DOMAIN order /\ order[i + Len(a)] = b[i]
  BY <1>6, <1>7
<1>10. ASSUME NEW i \in DOMAIN order, NEW j \in DOMAIN order, order[i] = order[j]
       PROVE  i = j
  BY <1>3, <1>4, <1>6, <1>7, <1>8, <1>10
<1>11. \A s : s \in S => \E i \in DOMAIN order : order[i] = s
  <2> SUFFICES ASSUME NEW s \in S PROVE \E i \in DOMAIN order : order[i] = s
    OBVIOUS
  <2>1. s \in A \/ s \in B
    OBVIOUS
  <2>2. CASE s \in A
    BY <1>3, <1>9, <2>2
  <2>3. CASE s \in B
    BY <1>4, <1>9, <2>3
  <2> QED  BY <2>1, <2>2, <2>3
<1>12. \A i \in DOMAIN order : order[i] \in S
  BY <1>8
<1> QED  BY <1>6, <1>10, <1>11, <1>12

-----------------------------------------------------------------------------
(* The layer of the subscriptions.                                         *)

SubType ==
    /\ subscribers \subseteq Subs
    /\ queue \in [Subs -> Seq(Events)] /\ ch \in [Subs -> Seq(Events)]
    /\ ended \in [Subs -> BOOLEAN] /\ chClosed \in [Subs -> BOOLEAN]
    /\ count \in [Publishers -> Nat]
    /\ got \in [Subs -> [Publishers -> Nat]]
    /\ publishing \in [Publishers -> [event : Events \union {Event("", 0, "")}, left : Seq(Subs)]]

(* A subscription begins, is active, and has ended; nothing is on its way  *)
(* to one that has not begun, and nothing is queued for one whose          *)
(* goroutine has returned.                                                 *)
Lifecycle ==
    \A s \in Subs :
        /\ s \in subscribers => ~ended[s]
        /\ chClosed[s] => ended[s] /\ queue[s] = << >>
        /\ s \notin subscribers /\ ~ended[s] =>
              /\ queue[s] = << >> /\ ch[s] = << >>
              /\ \A p \in Publishers : ~Awaits(p, s)

(* What a publisher sends is its last event, to everybody once.            *)
InPublication ==
    \A p \in Publishers : Publishing(p) =>
        /\ publishing[p].event \in Events /\ publishing[p].event.by = p
        /\ publishing[p].event.n = count[p] /\ count[p] > 0
        /\ \A i, j \in DOMAIN publishing[p].left :
              publishing[p].left[i] = publishing[p].left[j] => i = j

Ordered(s, p) == Increasing(p, Pending(s), got[s][p], Upto(p, s))
Covered(s, p) == Complete(p, Pending(s), got[s][p], Upto(p, s))

SubInv ==
    /\ SubType /\ Lifecycle /\ InPublication
    /\ \A s \in Subs, p \in Publishers : Ordered(s, p)
    /\ \A s \in subscribers, p \in Publishers : Covered(s, p)

CancelOnly(s) == Cancel(s) /\ UNCHANGED <<queue, ch, chClosed, publishing, count, got>>
PublishNext(p, k) == ~Publishing(p) /\ Publish(p, k)

(* What a step does to the subscriptions.                                  *)
SubStep ==
    \/ \E s \in Subs : \/ Subscribe(s) \/ CancelOnly(s) \/ Abandon(s) \/ Receive(s)
                        \/ RunMoves(s) \/ RunEnds(s)
    \/ \E p \in Publishers : Send(p) \/ \E k \in AllKinds : PublishNext(p, k)
    \/ UNCHANGED subVars

(* Who waits for an event and up to which number a client is served.       *)
LEMMA PublicationKept ==
    ASSUME publishing' = publishing, count' = count
    PROVE  \A p, s : (Awaits(p, s)' <=> Awaits(p, s)) /\ Upto(p, s)' = Upto(p, s)
  BY DEF Awaits, Upto

LEMMA InPublicationKept ==
    ASSUME publishing' = publishing, count' = count, InPublication
    PROVE  InPublication'
  BY DEF InPublication, Publishing

LEMMA PendingType ==
    ASSUME SubType, NEW s \in Subs
    PROVE  Pending(s) \in Seq(Events) /\ ch[s] \in Seq(Events) /\ queue[s] \in Seq(Events)
<1>1. ch[s] \in Seq(Events) /\ queue[s] \in Seq(Events)
  BY DEF SubType
<1> QED  BY <1>1 DEF Pending

LEMMA UptoType ==
    ASSUME SubType, InPublication, NEW s \in Subs, NEW p \in Publishers
    PROVE  Upto(p, s) \in Nat /\ Upto(p, s) <= count[p] /\ (Awaits(p, s) => Publishing(p))
<1>1. Awaits(p, s) => Publishing(p)
  BY DEF Awaits, Publishing
<1>2. count[p] \in Nat /\ (Publishing(p) => count[p] > 0)
  BY DEF SubType, InPublication
<1> QED  BY <1>1, <1>2 DEF Upto

LEMMA InitSub ==
    ASSUME SubInit
    PROVE  SubInv
<1>1. \A p \in Publishers : publishing[p].left = << >> /\ count[p] = 0
  BY DEF SubInit, Idle, Event
<1>2. \A p \in Publishers : ~Publishing(p) /\ \A s \in Subs : ~Awaits(p, s) /\ Upto(p, s) = 0
  BY <1>1 DEF Awaits, Upto, Publishing
<1>3. SubType
  <2>1. Idle \in [event : Events \union {Event("", 0, "")}, left : Seq(Subs)]
    BY DEF Idle
  <2>2. publishing \in [Publishers -> [event : Events \union {Event("", 0, "")}, left : Seq(Subs)]]
    BY <2>1 DEF SubInit
  <2>3. /\ queue \in [Subs -> Seq(Events)] /\ ch \in [Subs -> Seq(Events)]
        /\ subscribers \subseteq Subs
    BY DEF SubInit
  <2>4. /\ ended \in [Subs -> BOOLEAN] /\ chClosed \in [Subs -> BOOLEAN]
        /\ count \in [Publishers -> Nat] /\ got \in [Subs -> [Publishers -> Nat]]
    BY DEF SubInit
  <2> QED  BY <2>2, <2>3, <2>4 DEF SubType
<1>4. Lifecycle
  BY <1>2 DEF Lifecycle, SubInit
<1>5. InPublication
  BY <1>2 DEF InPublication
<1>6. \A s \in Subs, p \in Publishers : Ordered(s, p)
  BY <1>2 DEF Ordered, Increasing, Pending, SubInit
<1>7. subscribers = {}
  BY DEF SubInit
<1> QED  BY <1>3, <1>4, <1>5, <1>6, <1>7 DEF SubInv

(* Registration: the subscription starts with what is published next.      *)
LEMMA SubscribeStep ==
    ASSUME SubInv, NEW s \in Subs, Subscribe(s)
    PROVE  SubInv'
<1> USE DEF SubInv
<1>1. /\ s \notin subscribers /\ ~ended[s] /\ subscribers' = subscribers \union {s}
      /\ got' = [got EXCEPT ![s] = count]
      /\ queue' = queue /\ ch' = ch /\ ended' = ended /\ chClosed' = chClosed
      /\ publishing' = publishing /\ count' = count
  BY DEF Subscribe
<1>2. SubType'
  BY <1>1 DEF SubType
<1>3. Lifecycle'
  BY <1>1, PublicationKept DEF Lifecycle
<1>4. InPublication'
  BY <1>1, InPublicationKept
<1>5. queue[s] = << >> /\ ch[s] = << >> /\ \A p \in Publishers : ~Awaits(p, s)
  BY <1>1 DEF Lifecycle
<1>6. \A p \in Publishers : Upto(p, s)' = count[p] /\ got'[s][p] = count[p] /\ count[p] \in Nat
  BY <1>1, <1>5, PublicationKept DEF Upto, SubType
<1>7. Pending(s)' = << >>
  BY <1>1, <1>5 DEF Pending
<1>8. \A p \in Publishers : Ordered(s, p)' /\ Covered(s, p)'
  BY <1>6, <1>7 DEF Ordered, Covered, Increasing, Complete
<1>9. ASSUME NEW t \in Subs, t # s, NEW p \in Publishers
      PROVE  Ordered(t, p)' /\ (t \in subscribers' => t \in subscribers /\ Covered(t, p)')
  <2>1. Pending(t)' = Pending(t) /\ got'[t] = got[t] /\ Upto(p, t)' = Upto(p, t)
    BY <1>1, <1>9, PublicationKept DEF Pending, SubType
  <2> QED  BY <1>1, <1>9, <2>1 DEF Ordered, Covered
<1>10. subscribers' \subseteq Subs
  BY <1>1 DEF SubType
<1> QED  BY <1>2, <1>3, <1>4, <1>8, <1>9, <1>10

(* The end of a subscription; what is on its way stays.                    *)
LEMMA CancelStep ==
    ASSUME SubInv, NEW s \in Subs, CancelOnly(s)
    PROVE  SubInv'
<1> USE DEF SubInv
<1>1. /\ subscribers' = subscribers \ {s} /\ ended' = [ended EXCEPT ![s] = TRUE]
      /\ queue' = queue /\ ch' = ch /\ got' = got /\ chClosed' = chClosed
      /\ publishing' = publishing /\ count' = count
  BY DEF CancelOnly, Cancel
<1>2. SubType'
  BY <1>1 DEF SubType
<1>3. Lifecycle'
  BY <1>1, PublicationKept DEF Lifecycle, SubType
<1>4. InPublication'
  BY <1>1, InPublicationKept
<1>5. ASSUME NEW t \in Subs, NEW p \in Publishers
      PROVE  Ordered(t, p)' /\ (t \in subscribers' => t \in subscribers /\ Covered(t, p)')
  <2>1. Pending(t)' = Pending(t) /\ got'[t] = got[t] /\ Upto(p, t)' = Upto(p, t)
    BY <1>1, PublicationKept DEF Pending
  <2> QED  BY <1>1, <2>1 DEF Ordered, Covered
<1>6. subscribers' \subseteq Subs
  BY <1>1 DEF SubType
<1> QED  BY <1>2, <1>3, <1>4, <1>5, <1>6

LEMMA AbandonStep ==
    ASSUME SubInv, NEW s \in Subs, Abandon(s)
    PROVE  SubInv'
<1> USE DEF SubInv
<1>1. /\ subscribers' = subscribers \ {s} /\ ended' = [ended EXCEPT ![s] = TRUE]
      /\ queue' = [queue EXCEPT ![s] = << >>] /\ ch' = [ch EXCEPT ![s] = << >>]
      /\ chClosed' = [chClosed EXCEPT ![s] = TRUE]
      /\ got' = [got EXCEPT ![s] = [p \in Publishers |-> 0]]
      /\ publishing' = publishing /\ count' = count
  BY DEF Abandon, Cancel
<1>2. SubType'
  <2>1. << >> \in Seq(Events) /\ [p \in Publishers |-> 0] \in [Publishers -> Nat]
    OBVIOUS
  <2> QED  BY <1>1, <2>1 DEF SubType
<1>3. Lifecycle'
  BY <1>1, PublicationKept DEF Lifecycle, SubType
<1>4. InPublication'
  BY <1>1, InPublicationKept
<1>5. ASSUME NEW t \in Subs, t # s, NEW p \in Publishers
      PROVE  Ordered(t, p)' /\ (t \in subscribers' => t \in subscribers /\ Covered(t, p)')
  <2>1. Pending(t)' = Pending(t) /\ got'[t] = got[t] /\ Upto(p, t)' = Upto(p, t)
    BY <1>1, <1>5, PublicationKept DEF Pending, SubType
  <2> QED  BY <1>1, <2>1 DEF Ordered, Covered
<1>6. ASSUME NEW p \in Publishers
      PROVE  Ordered(s, p)'
  <2>1. ch'[s] = << >> /\ queue'[s] = << >> /\ got'[s][p] = 0
    BY <1>1 DEF SubType
  <2>2. Upto(p, s)' \in Nat
    BY <1>1, PublicationKept, UptoType
  <2>3. Pending(s)' = << >>
    BY <2>1 DEF Pending
  <2> QED  BY <2>1, <2>2, <2>3 DEF Ordered, Increasing
<1>7. subscribers' \subseteq Subs /\ s \notin subscribers'
  BY <1>1 DEF SubType
<1> QED  BY <1>2, <1>3, <1>4, <1>5, <1>6, <1>7

(* The client reads the first of the pending events.                       *)
LEMMA ReceiveStep ==
    ASSUME SubInv, NEW s \in Subs, Receive(s)
    PROVE  /\ SubInv'
           /\ ch[s] # << >> /\ Head(ch[s]) \in Events
           /\ Head(Pending(s)) = Head(ch[s]) /\ Pending(s) # << >>
           /\ \A t \in Subs, p \in Publishers :
                 got'[t][p] = IF t = s /\ p = Head(ch[s]).by THEN Head(ch[s]).n ELSE got[t][p]
<1> USE DEF SubInv
<1> DEFINE e == Head(ch[s])
<1>1. /\ ch[s] # << >> /\ ch' = [ch EXCEPT ![s] = Tail(ch[s])]
      /\ got' = [got EXCEPT ![s][e.by] = e.n]
      /\ subscribers' = subscribers /\ queue' = queue /\ ended' = ended /\ chClosed' = chClosed
      /\ publishing' = publishing /\ count' = count
  BY DEF Receive, SubType
<1>2. ch[s] \in Seq(Events) /\ queue[s] \in Seq(Events) /\ Pending(s) \in Seq(Events)
  BY PendingType
<1>3. e \in Events /\ Tail(ch[s]) \in Seq(Events)
  BY <1>1, <1>2
<1>4. e.by \in Publishers /\ e.n \in Nat
  BY <1>3 DEF Events
<1>5. \A t \in Subs, p \in Publishers :
         got'[t][p] = IF t = s /\ p = e.by THEN e.n ELSE got[t][p]
  BY <1>1, <1>4 DEF SubType
<1>6. got' \in [Subs -> [Publishers -> Nat]]
  BY <1>1, <1>4 DEF SubType
<1>7. SubType'
  <2>1. ch' \in [Subs -> Seq(Events)]
    BY <1>1, <1>3 DEF SubType
  <2> QED  BY <1>1, <1>6, <2>1 DEF SubType
<1>8. Lifecycle'
  BY <1>1, PublicationKept DEF Lifecycle, SubType
<1>9. InPublication'
  BY <1>1, InPublicationKept
<1>10. /\ Pending(s)' = Tail(Pending(s)) /\ Head(Pending(s)) = e /\ Pending(s) # << >>
  <2>1. ch'[s] = Tail(ch[s]) /\ queue'[s] = queue[s]
    BY <1>1 DEF SubType
  <2>2. Pending(s)' = Tail(ch[s]) \o queue[s]
    BY <2>1 DEF Pending
  <2> QED  BY <1>1, <1>2, <2>2, TailFirst DEF Pending
<1>11. ASSUME NEW t \in Subs, NEW p \in Publishers
       PROVE  Ordered(t, p)' /\ (t \in subscribers => Covered(t, p)')
  <2>1. Upto(p, t)' = Upto(p, t)
    BY <1>1, PublicationKept
  <2>2. CASE t # s
    <3>1. Pending(t)' = Pending(t) /\ got'[t][p] = got[t][p]
      BY <1>1, <1>5, <2>2 DEF Pending, SubType
    <3> QED  BY <2>1, <3>1 DEF Ordered, Covered
  <2>3. CASE t = s /\ e.by = p
    <3>1. got'[s][p] = e.n
      BY <1>5, <2>3
    <3>2. /\ Increasing(p, Pending(s), got[s][p], Upto(p, s))
          /\ s \in subscribers => Complete(p, Pending(s), got[s][p], Upto(p, s))
      BY DEF Ordered, Covered
    <3>3. Increasing(p, Tail(Pending(s)), e.n, Upto(p, s))
      BY <1>2, <1>10, <2>3, <3>2, IncreasingTail
    <3>4. s \in subscribers => Complete(p, Tail(Pending(s)), e.n, Upto(p, s))
      BY <1>2, <1>10, <2>3, <3>2, CompleteTail
    <3> QED  BY <1>10, <2>1, <2>3, <3>1, <3>3, <3>4 DEF Ordered, Covered
  <2>4. CASE t = s /\ e.by # p
    <3>1. got'[s][p] = got[s][p]
      BY <1>5, <2>4
    <3>2. /\ Increasing(p, Pending(s), got[s][p], Upto(p, s))
          /\ s \in subscribers => Complete(p, Pending(s), got[s][p], Upto(p, s))
      BY DEF Ordered, Covered
    <3>3. Increasing(p, Tail(Pending(s)), got[s][p], Upto(p, s))
      BY <1>2, <1>10, <2>4, <3>2, IncreasingTail
    <3>4. s \in subscribers => Complete(p, Tail(Pending(s)), got[s][p], Upto(p, s))
      BY <1>2, <1>10, <2>4, <3>2, CompleteTail
    <3> QED  BY <1>10, <2>1, <2>4, <3>1, <3>3, <3>4 DEF Ordered, Covered
  <2> QED  BY <2>2, <2>3, <2>4
<1>12. subscribers \subseteq Subs
  BY DEF SubType
<1> QED  BY <1>1, <1>3, <1>5, <1>7, <1>8, <1>9, <1>10, <1>11, <1>12

(* subscriber.run moves an event from the queue to the channel.            *)
LEMMA RunMovesStep ==
    ASSUME SubInv, NEW s \in Subs, RunMoves(s)
    PROVE  SubInv'
<1> USE DEF SubInv
<1>1. /\ ~chClosed[s] /\ queue[s] # << >>
      /\ ch' = [ch EXCEPT ![s] = Append(ch[s], Head(queue[s]))]
      /\ queue' = [queue EXCEPT ![s] = Tail(queue[s])]
      /\ subscribers' = subscribers /\ ended' = ended /\ chClosed' = chClosed
      /\ publishing' = publishing /\ count' = count /\ got' = got
  BY DEF RunMoves, SubType
<1>2. ch[s] \in Seq(Events) /\ queue[s] \in Seq(Events)
  BY PendingType
<1>3. Append(ch[s], Head(queue[s])) \in Seq(Events) /\ Tail(queue[s]) \in Seq(Events)
  BY <1>1, <1>2
<1>4. /\ ch' \in [Subs -> Seq(Events)] /\ queue' \in [Subs -> Seq(Events)]
      /\ ch'[s] = Append(ch[s], Head(queue[s])) /\ queue'[s] = Tail(queue[s])
      /\ \A t \in Subs : t # s => ch'[t] = ch[t] /\ queue'[t] = queue[t]
  BY <1>1, <1>3 DEF SubType
<1>5. SubType'
  BY <1>1, <1>4 DEF SubType
<1>6. Lifecycle'
  <2>1. s \in subscribers \/ ended[s]
    BY <1>1 DEF Lifecycle
  <2> QED  BY <1>1, <1>4, <2>1, PublicationKept DEF Lifecycle
<1>7. InPublication'
  BY <1>1, InPublicationKept
<1>8. ASSUME NEW t \in Subs
      PROVE  Pending(t)' = Pending(t)
  <2>1. CASE t = s
    BY <1>1, <1>2, <1>4, <2>1, MoveOn DEF Pending
  <2>2. CASE t # s
    BY <1>4, <2>2 DEF Pending
  <2> QED  BY <2>1, <2>2
<1>9. ASSUME NEW t \in Subs, NEW p \in Publishers
      PROVE  Ordered(t, p)' /\ (t \in subscribers => Covered(t, p)')
  BY <1>1, <1>8, PublicationKept DEF Ordered, Covered
<1>10. subscribers \subseteq Subs
  BY DEF SubType
<1> QED  BY <1>1, <1>5, <1>6, <1>7, <1>9, <1>10

(* subscriber.run returns: what was queued is lost, to one that has ended. *)
LEMMA RunEndsStep ==
    ASSUME SubInv, NEW s \in Subs, RunEnds(s)
    PROVE  SubInv'
<1> USE DEF SubInv
<1>1. /\ ended[s] /\ chClosed' = [chClosed EXCEPT ![s] = TRUE]
      /\ queue' = [queue EXCEPT ![s] = << >>]
      /\ subscribers' = subscribers /\ ended' = ended /\ ch' = ch
      /\ publishing' = publishing /\ count' = count /\ got' = got
  BY DEF RunEnds
<1>2. ch[s] \in Seq(Events) /\ queue[s] \in Seq(Events)
  BY PendingType
<1>3. /\ queue' \in [Subs -> Seq(Events)] /\ queue'[s] = << >>
      /\ \A t \in Subs : t # s => queue'[t] = queue[t]
  <2>1. << >> \in Seq(Events)
    OBVIOUS
  <2> QED  BY <1>1, <2>1 DEF SubType
<1>4. SubType'
  BY <1>1, <1>3 DEF SubType
<1>5. Lifecycle'
  BY <1>1, <1>3, PublicationKept DEF Lifecycle, SubType
<1>6. InPublication'
  BY <1>1, InPublicationKept
<1>7. s \notin subscribers
  BY <1>1 DEF Lifecycle
<1>8. ASSUME NEW t \in Subs, t # s, NEW p \in Publishers
      PROVE  Ordered(t, p)' /\ (t \in subscribers => Covered(t, p)')
  BY <1>1, <1>3, <1>8, PublicationKept DEF Ordered, Covered, Pending
<1>9. ASSUME NEW p \in Publishers
      PROVE  Ordered(s, p)'
  <2>1. Pending(s)' = ch[s]
    BY <1>1, <1>2, <1>3, NoQueue DEF Pending
  <2>2. Increasing(p, ch[s] \o queue[s], got[s][p], Upto(p, s))
    BY DEF Ordered, Pending
  <2>3. Increasing(p, ch[s], got[s][p], Upto(p, s))
    BY <1>2, <2>2, IncreasingPrefix
  <2> QED  BY <1>1, <2>1, <2>3, PublicationKept DEF Ordered
<1>10. subscribers \subseteq Subs
  BY DEF SubType
<1> QED  BY <1>1, <1>4, <1>5, <1>6, <1>7, <1>8, <1>9, <1>10

(* A publisher has sent to the first of those it must reach: the others    *)
(* are still to come.                                                      *)
LEMMA SentFacts ==
    ASSUME SubType, InPublication, NEW p \in Publishers, Publishing(p), Sent(p), count' = count,
           NEW h, h = Head(publishing[p].left)
    PROVE  /\ publishing' \in [Publishers -> [event : Events \union {Event("", 0, "")},
                                              left : Seq(Subs)]]
           /\ InPublication'
           /\ h \in Subs /\ Awaits(p, h) /\ ~Awaits(p, h)'
           /\ \A s : s # h => (Awaits(p, s)' <=> Awaits(p, s))
           /\ \A r \in Publishers : \A s : r # p => (Awaits(r, s)' <=> Awaits(r, s))
<1> DEFINE T == [event : Events \union {Event("", 0, "")}, left : Seq(Subs)]
           l == publishing[p].left
           rec == [event |-> publishing[p].event, left |-> Tail(l)]
<1>1. /\ l \in Seq(Subs) /\ l # << >> /\ publishing[p] \in T
      /\ publishing[p].event \in Events \union {Event("", 0, "")}
  BY DEF SubType, Publishing
<1>2. publishing' = [publishing EXCEPT ![p] = IF Len(l) = 1 THEN Idle ELSE rec]
  BY DEF Sent, SubType
<1>3. Idle \in T /\ Idle.left = << >>
  BY DEF Idle
<1>4. Tail(l) \in Seq(Subs) /\ (Len(l) = 1 => Tail(l) = << >>)
  BY <1>1, TailFacts
<1>5. rec \in T /\ rec.left = Tail(l) /\ rec.event = publishing[p].event
  BY <1>1, <1>4
<1>6. /\ publishing' \in [Publishers -> T]
      /\ \A r \in Publishers : r # p => publishing'[r] = publishing[r]
      /\ publishing'[p].left = Tail(l)
      /\ Tail(l) # << >> => publishing'[p].event = publishing[p].event
  <2> HIDE DEF rec, l
  <2> QED  BY <1>2, <1>3, <1>4, <1>5 DEF SubType
<1>7. \A i, j \in DOMAIN l : l[i] = l[j] => i = j
  BY DEF InPublication
<1>8. /\ 1 \in DOMAIN l /\ Head(l) = l[1] /\ Head(l) \in Subs
      /\ \A i \in DOMAIN Tail(l) : i + 1 \in DOMAIN l /\ Tail(l)[i] = l[i + 1] /\ i + 1 # 1
      /\ \A i \in DOMAIN l : i # 1 => i - 1 \in DOMAIN Tail(l) /\ Tail(l)[i - 1] = l[i]
      /\ DOMAIN Tail(l) \subseteq Nat
  BY <1>1, TailFacts
<1>9. \A i, j \in DOMAIN Tail(l) : Tail(l)[i] = Tail(l)[j] => i = j
  <2> SUFFICES ASSUME NEW i \in DOMAIN Tail(l), NEW j \in DOMAIN Tail(l), Tail(l)[i] = Tail(l)[j]
               PROVE  i = j
    OBVIOUS
  <2>1. i + 1 = j + 1 /\ i \in Nat /\ j \in Nat
    BY <1>7, <1>8
  <2> QED  BY <2>1
<1>10. InPublication'
  <2> SUFFICES ASSUME NEW r \in Publishers, Publishing(r)'
               PROVE  /\ publishing'[r].event \in Events /\ publishing'[r].event.by = r
                      /\ publishing'[r].event.n = count'[r] /\ count'[r] > 0
                      /\ \A i, j \in DOMAIN publishing'[r].left :
                            publishing'[r].left[i] = publishing'[r].left[j] => i = j
    BY DEF InPublication
  <2>1. CASE r # p
    <3>1. publishing'[r] = publishing[r] /\ Publishing(r)
      BY <1>6, <2>1 DEF Publishing
    <3> QED  BY <3>1 DEF InPublication
  <2>2. CASE r = p
    <3>1. publishing'[p].event = publishing[p].event /\ publishing'[p].left = Tail(l)
      BY <1>6, <2>2 DEF Publishing
    <3>2. /\ publishing[p].event \in Events /\ publishing[p].event.by = p
          /\ publishing[p].event.n = count[p] /\ count[p] > 0
      BY DEF InPublication
    <3> QED  BY <1>9, <2>2, <3>1, <3>2
  <2> QED  BY <2>1, <2>2
<1>11. Awaits(p, h) /\ ~Awaits(p, h)'
  <2>1. Awaits(p, h)
    BY <1>8 DEF Awaits
  <2>2. \A i \in DOMAIN Tail(l) : Tail(l)[i] # h
    BY <1>7, <1>8
  <2> QED  BY <1>6, <2>1, <2>2 DEF Awaits
<1>12. ASSUME NEW s, s # h
       PROVE  Awaits(p, s)' <=> Awaits(p, s)
  <2>1. Awaits(p, s) => \E i \in DOMAIN Tail(l) : Tail(l)[i] = s
    BY <1>8, <1>12 DEF Awaits
  <2>2. (\E i \in DOMAIN Tail(l) : Tail(l)[i] = s) => Awaits(p, s)
    BY <1>8 DEF Awaits
  <2>3. Awaits(p, s)' <=> \E i \in DOMAIN Tail(l) : Tail(l)[i] = s
    BY <1>6 DEF Awaits
  <2> QED  BY <2>1, <2>2, <2>3
<1>13. \A r \in Publishers : \A s : r # p => (Awaits(r, s)' <=> Awaits(r, s))
  BY <1>6 DEF Awaits
<1> QED  BY <1>6, <1>8, <1>10, <1>11, <1>12, <1>13

LEMMA SendStep ==
    ASSUME SubInv, NEW p \in Publishers, Send(p)
    PROVE  SubInv'
<1> USE DEF SubInv
<1>0. PICK s, e : s = Head(publishing[p].left) /\ e = publishing[p].event
  OBVIOUS
<1>1. /\ Publishing(p) /\ Sent(p)
      /\ \/ ~chClosed[s] /\ queue' = [queue EXCEPT ![s] = Append(queue[s], e)]
         \/ ended[s] /\ queue' = queue
      /\ subscribers' = subscribers /\ ch' = ch /\ ended' = ended /\ chClosed' = chClosed
      /\ count' = count /\ got' = got
  BY <1>0 DEF Send, SubType
<1>2. /\ publishing' \in [Publishers -> [event : Events \union {Event("", 0, "")},
                                         left : Seq(Subs)]]
      /\ InPublication' /\ s \in Subs /\ Awaits(p, s) /\ ~Awaits(p, s)'
      /\ \A t : t # s => (Awaits(p, t)' <=> Awaits(p, t))
      /\ \A r \in Publishers : \A t : r # p => (Awaits(r, t)' <=> Awaits(r, t))
  BY <1>0, <1>1, SentFacts
<1>3. /\ e \in Events /\ e.by = p /\ e.n = count[p] /\ count[p] > 0 /\ count[p] \in Nat
  BY <1>0, <1>1 DEF InPublication, SubType
<1>4. ch[s] \in Seq(Events) /\ queue[s] \in Seq(Events) /\ Pending(s) \in Seq(Events)
  BY <1>2, PendingType
<1>5. Append(queue[s], e) \in Seq(Events)
  BY <1>3, <1>4
<1>6. /\ queue' \in [Subs -> Seq(Events)]
      /\ \A t \in Subs : t # s => queue'[t] = queue[t]
      /\ \/ ~chClosed[s] /\ queue'[s] = Append(queue[s], e)
         \/ ended[s] /\ queue'[s] = queue[s]
  BY <1>1, <1>2, <1>5 DEF SubType
<1>7. SubType'
  BY <1>1, <1>2, <1>6 DEF SubType
<1>8. s \in subscribers \/ ended[s]
  BY <1>2 DEF Lifecycle
<1>9. Lifecycle'
  <2> SUFFICES ASSUME NEW t \in Subs
               PROVE  /\ t \in subscribers => ~ended[t]
                      /\ chClosed[t] => ended[t] /\ queue'[t] = << >>
                      /\ t \notin subscribers /\ ~ended[t] =>
                            /\ queue'[t] = << >> /\ ch[t] = << >>
                            /\ \A r \in Publishers : ~Awaits(r, t)'
    BY <1>1 DEF Lifecycle
  <2>1. CASE t # s
    BY <1>2, <1>6, <2>1 DEF Lifecycle
  <2>2. CASE t = s
    BY <1>6, <1>8, <2>2 DEF Lifecycle
  <2> QED  BY <2>1, <2>2
<1>10. ASSUME NEW t \in Subs, NEW r \in Publishers, t # s
       PROVE  Ordered(t, r)' /\ (t \in subscribers => Covered(t, r)')
  <2>1. Upto(r, t)' = Upto(r, t)
    BY <1>1, <1>2, <1>10 DEF Upto
  <2>2. Pending(t)' = Pending(t)
    BY <1>1, <1>6, <1>10 DEF Pending
  <2> QED  BY <1>1, <2>1, <2>2 DEF Ordered, Covered
<1>11. ASSUME NEW r \in Publishers
       PROVE  Ordered(s, r)' /\ (s \in subscribers => Covered(s, r)')
  <2>1. Upto(p, s) + 1 = count[p] /\ Upto(p, s)' = Upto(p, s) + 1 /\ Upto(p, s) \in Nat
    <3>1. \A n \in Nat : n > 0 => n - 1 \in Nat /\ (n - 1) + 1 = n
      OBVIOUS
    <3>2. Upto(p, s) = count[p] - 1 /\ Upto(p, s)' = count[p]
      BY <1>1, <1>2 DEF Upto
    <3> QED  BY <1>3, <3>1, <3>2
  <2>2. r # p => Upto(r, s)' = Upto(r, s)
    BY <1>1, <1>2 DEF Upto
  <2>3. /\ Increasing(r, Pending(s), got[s][r], Upto(r, s))
        /\ s \in subscribers => Complete(r, Pending(s), got[s][r], Upto(r, s))
    BY <1>2 DEF Ordered, Covered
  <2>4. Upto(r, s) \in Nat /\ got[s][r] \in Nat
    BY <1>2, UptoType DEF SubType
  <2>5. e.by = r => e.n = Upto(r, s) + 1
    BY <1>3, <2>1
  <2>6. CASE ~chClosed[s] /\ queue'[s] = Append(queue[s], e)
    <3>1. Pending(s)' = Append(Pending(s), e)
      <4>1. ch[s] \o Append(queue[s], e) = Append(ch[s] \o queue[s], e)
        <5>1. \A c, q \in Seq(Events), x \in Events : c \o Append(q, x) = Append(c \o q, x)
          BY AppendLast
        <5> QED  BY <1>3, <1>4, <5>1, Zenon
      <4> QED  BY <1>1, <2>6, <4>1 DEF Pending
    <3>2. /\ e.by = r => Increasing(r, Append(Pending(s), e), got[s][r], Upto(r, s) + 1)
          /\ e.by # r => Increasing(r, Append(Pending(s), e), got[s][r], Upto(r, s))
      BY <1>3, <1>4, <2>3, <2>5, IncreasingAppend
    <3>3. s \in subscribers =>
             /\ e.by = r => Complete(r, Append(Pending(s), e), got[s][r], Upto(r, s) + 1)
             /\ e.by # r => Complete(r, Append(Pending(s), e), got[s][r], Upto(r, s))
      BY <1>3, <1>4, <2>3, <2>4, <2>5, CompleteAppend
    <3>4. /\ e.by = r => Upto(r, s)' = Upto(r, s) + 1
          /\ e.by # r => Upto(r, s)' = Upto(r, s)
      BY <1>3, <2>1, <2>2
    <3> QED  BY <1>1, <3>1, <3>2, <3>3, <3>4 DEF Ordered, Covered
  <2>7. CASE ended[s] /\ queue'[s] = queue[s]
    <3>1. s \notin subscribers
      BY <1>2, <2>7 DEF Lifecycle
    <3>2. Pending(s)' = Pending(s)
      BY <1>1, <2>7 DEF Pending
    <3>3. CASE r = p
      <4>1. Increasing(p, Pending(s), got[s][p], Upto(p, s) + 1)
        BY <1>4, <2>3, <3>3, IncreasingMore
      <4> QED  BY <1>1, <2>1, <3>1, <3>2, <3>3, <4>1 DEF Ordered
    <3>4. CASE r # p
      BY <1>1, <2>2, <2>3, <3>1, <3>2, <3>4 DEF Ordered
    <3> QED  BY <3>3, <3>4
  <2> QED  BY <1>6, <2>6, <2>7
<1>12. subscribers \subseteq Subs
  BY DEF SubType
<1> QED  BY <1>1, <1>2, <1>7, <1>9, <1>10, <1>11, <1>12

(* The snapshot: every subscriber awaits the new event, nobody else does.  *)
LEMMA PublishStep ==
    ASSUME SubInv, NEW p \in Publishers, NEW k \in AllKinds, PublishNext(p, k)
    PROVE  /\ SubInv'
           /\ count'[p] = count[p] + 1 /\ \A r \in Publishers : r # p => count'[r] = count[r]
           /\ Publishing(p)' => publishing'[p].event = Event(p, count[p] + 1, k)
           /\ \A r \in Publishers : r # p => publishing'[r] = publishing[r]
<1> USE DEF SubInv
<1> DEFINE T == [event : Events \union {Event("", 0, "")}, left : Seq(Subs)]
<1>0. PICK e : e = Event(p, count[p] + 1, k)
  OBVIOUS
<1>1. /\ ~Publishing(p) /\ count' = [count EXCEPT ![p] = count[p] + 1]
      /\ subscribers' = subscribers /\ queue' = queue /\ ch' = ch /\ ended' = ended
      /\ chClosed' = chClosed /\ got' = got
  BY DEF PublishNext, Publish, SubType
<1>2. PICK order \in Orders(subscribers) :
         publishing' = [publishing EXCEPT
             ![p] = IF order = << >> THEN Idle ELSE [event |-> e, left |-> order]]
  BY <1>0 DEF PublishNext, Publish
<1>3. subscribers \in SUBSET Subs /\ count[p] \in Nat
  BY DEF SubType
<1>4. /\ order \in Seq(Subs)
      /\ \A i, j \in DOMAIN order : order[i] = order[j] => i = j
      /\ \A s : s \in subscribers <=> \E i \in DOMAIN order : order[i] = s
  BY <1>3, OrderFacts
<1>5. e \in Events /\ e.by = p /\ e.n = count[p] + 1
  BY <1>0, <1>3 DEF Events, Event
<1>6. Idle \in T /\ Idle.left = << >>
  BY DEF Idle
<1>7. /\ [event |-> e, left |-> order] \in T /\ [event |-> e, left |-> order].event = e
      /\ [event |-> e, left |-> order].left = order
  BY <1>4, <1>5
<1>8. /\ publishing' \in [Publishers -> T]
      /\ \A r \in Publishers : r # p => publishing'[r] = publishing[r]
      /\ publishing'[p] = IF order = << >> THEN Idle ELSE [event |-> e, left |-> order]
  BY <1>2, <1>6, <1>7 DEF SubType
<1>9. publishing'[p].left = order /\ (order # << >> => publishing'[p].event = e)
  BY <1>6, <1>7, <1>8
<1>10. /\ count' \in [Publishers -> Nat] /\ count'[p] = count[p] + 1 /\ count'[p] > 0
       /\ \A r \in Publishers : r # p => count'[r] = count[r]
  <2>1. \A n \in Nat : n + 1 \in Nat /\ n + 1 > 0
    OBVIOUS
  <2>2. count \in [Publishers -> Nat]
    BY DEF SubType
  <2> QED  BY <1>1, <1>3, <2>1, <2>2
<1>11. SubType'
  BY <1>1, <1>8, <1>10 DEF SubType
<1>12. InPublication'
  <2> SUFFICES ASSUME NEW r \in Publishers, Publishing(r)'
               PROVE  /\ publishing'[r].event \in Events /\ publishing'[r].event.by = r
                      /\ publishing'[r].event.n = count'[r] /\ count'[r] > 0
                      /\ \A i, j \in DOMAIN publishing'[r].left :
                            publishing'[r].left[i] = publishing'[r].left[j] => i = j
    BY DEF InPublication
  <2>1. CASE r # p
    <3>1. publishing'[r] = publishing[r] /\ count'[r] = count[r] /\ Publishing(r)
      BY <1>8, <1>10, <2>1 DEF Publishing
    <3> QED  BY <3>1 DEF InPublication
  <2>2. CASE r = p
    <3>1. publishing'[p].event = e /\ publishing'[p].left = order
      BY <1>9, <2>2 DEF Publishing
    <3> QED  BY <1>4, <1>5, <1>10, <2>2, <3>1
  <2> QED  BY <2>1, <2>2
<1>13. /\ \A s \in Subs : Awaits(p, s)' <=> s \in subscribers
       /\ \A s \in Subs : ~Awaits(p, s)
       /\ \A r \in Publishers, s \in Subs : r # p => (Awaits(r, s)' <=> Awaits(r, s))
  <2>1. \A s \in Subs : Awaits(p, s)' <=> s \in subscribers
    BY <1>4, <1>9 DEF Awaits
  <2>2. \A s \in Subs : ~Awaits(p, s)
    BY <1>1, UptoType
  <2> QED  BY <1>8, <2>1, <2>2 DEF Awaits
<1>14. Lifecycle'
  BY <1>1, <1>13 DEF Lifecycle
<1>15. ASSUME NEW s \in Subs, NEW r \in Publishers
       PROVE  Ordered(s, r)' /\ (s \in subscribers => Covered(s, r)')
  <2>1. Pending(s)' = Pending(s) /\ got'[s] = got[s] /\ Pending(s) \in Seq(Events)
    BY <1>1, PendingType DEF Pending
  <2>2. CASE r # p \/ s \in subscribers
    <3>1. Upto(r, s)' = Upto(r, s)
      BY <1>3, <1>10, <1>13, <2>2 DEF Upto
    <3> QED  BY <2>1, <3>1 DEF Ordered, Covered
  <2>3. CASE r = p /\ s \notin subscribers
    <3>1. Upto(p, s)' = Upto(p, s) + 1
      BY <1>10, <1>13, <2>3 DEF Upto
    <3>2. Increasing(p, Pending(s), got[s][p], Upto(p, s))
      BY DEF Ordered
    <3>3. Increasing(p, Pending(s), got[s][p], Upto(p, s) + 1)
      BY <2>1, <3>2, IncreasingMore
    <3> QED  BY <2>1, <2>3, <3>1, <3>3 DEF Ordered
  <2> QED  BY <2>2, <2>3
<1>16. Publishing(p)' => publishing'[p].event = Event(p, count[p] + 1, k)
  BY <1>0, <1>9 DEF Publishing
<1> QED  BY <1>1, <1>3, <1>8, <1>10, <1>11, <1>12, <1>14, <1>15, <1>16

LEMMA SubUnchanged ==
    ASSUME SubInv, UNCHANGED subVars
    PROVE  SubInv'
<1>1. /\ subscribers' = subscribers /\ queue' = queue /\ ch' = ch /\ ended' = ended
      /\ chClosed' = chClosed /\ publishing' = publishing /\ count' = count /\ got' = got
  BY DEF subVars
<1>2. SubType' /\ InPublication' /\ Lifecycle'
  BY <1>1, PublicationKept, InPublicationKept DEF SubInv, SubType, Lifecycle
<1>3. ASSUME NEW s \in Subs, NEW p \in Publishers
      PROVE  Ordered(s, p)' /\ (s \in subscribers => Covered(s, p)')
  BY <1>1, PublicationKept DEF SubInv, Ordered, Covered, Pending
<1>4. subscribers \subseteq Subs
  BY DEF SubInv, SubType
<1> QED  BY <1>1, <1>2, <1>3, <1>4 DEF SubInv

LEMMA SubInductive ==
    ASSUME SubInv, SubStep
    PROVE  SubInv'
  BY SubscribeStep, CancelStep, AbandonStep, ReceiveStep, RunMovesStep, RunEndsStep, SendStep,
     PublishStep, SubUnchanged DEF SubStep

LEMMA SubLossless ==
    ASSUME SubInv
    PROVE  LosslessInOrder
<1> SUFFICES ASSUME NEW s \in subscribers, NEW p \in Publishers
             PROVE  LET evs == Pending(s)
                        own == {i \in DOMAIN evs : evs[i].by = p}
                    IN /\ \A i, j \in own : i < j => evs[i].n < evs[j].n
                       /\ {evs[i].n : i \in own} = got[s][p] + 1 .. Upto(p, s)
  BY DEF LosslessInOrder
<1> DEFINE evs == Pending(s)
           own == {i \in DOMAIN evs : evs[i].by = p}
           lo == got[s][p]
           hi == Upto(p, s)
<1>1. s \in Subs /\ evs \in Seq(Events)
  BY PendingType DEF SubInv, SubType
<1>2. Increasing(p, evs, lo, hi) /\ Complete(p, evs, lo, hi)
  BY <1>1 DEF SubInv, Ordered, Covered
<1> HIDE DEF evs, lo, hi
<1>3. lo \in Nat /\ hi \in Nat
  BY <1>2 DEF Increasing
<1>4. \A i \in DOMAIN evs : evs[i].n \in Nat
  <2>1. \A i \in DOMAIN evs : evs[i] \in Events
    BY <1>1
  <2> QED  BY <2>1 DEF Events
<1>5. \A i, j \in own : i < j => evs[i].n < evs[j].n
  BY <1>2 DEF Increasing
<1>6. \A i \in own : evs[i].n \in lo + 1 .. hi
  BY <1>2, <1>3, <1>4 DEF Increasing
<1>7. \A n \in lo + 1 .. hi : \E i \in own : evs[i].n = n
  BY <1>2, <1>3 DEF Complete
<1>8. {evs[i].n : i \in own} = lo + 1 .. hi
  BY <1>6, <1>7
<1> QED  BY <1>5, <1>8 DEF evs, lo, hi

-----------------------------------------------------------------------------
(* The layer of the handles.                                               *)

Early == {"new", "call", "agent", "session", "outbound", "complete", "returned"}
Stages == Early \union {"failing", "cancel", "succeeded", "draining", "cancelled", "closing", "over"}
StreamType == [size : Nat, last : [by : Publishers, n : Nat, kind : AllKinds \union {""}],
               terminal : SUBSET Terminal]

HandleType ==
    /\ stage \in [Runs -> Stages] /\ result \in [Runs -> {"none", "ok", "failed"}]
    /\ forwarder \in [Runs -> {"none", "waiting", "emitting", "ended"}]
    /\ carried \in [Runs -> Seq(Events)]
    /\ stream \in [Runs -> StreamType]
    /\ failures \in [Runs -> BOOLEAN] /\ doneClosed \in [Runs -> BOOLEAN]
    /\ eventsClosed \in [Runs -> BOOLEAN] /\ ctxDone \in [Runs -> BOOLEAN]
    /\ lost \in [Runs -> BOOLEAN]

(* What execute has done of the contract at each of its stages.            *)
StageOK(r) ==
    /\ stage[r] \in Early => result[r] = "none" /\ ~doneClosed[r] /\ ~eventsClosed[r]
    /\ stage[r] \in {"failing", "cancel"} =>
          result[r] = "failed" /\ ~doneClosed[r] /\ ~eventsClosed[r]
    /\ stage[r] = "succeeded" => result[r] = "ok" /\ ~doneClosed[r] /\ ~eventsClosed[r]
    /\ stage[r] = "draining" => result[r] = "ok" /\ doneClosed[r] /\ ~eventsClosed[r]
    /\ stage[r] = "cancelled" => /\ ~eventsClosed[r]
                                 /\ \/ result[r] = "ok" /\ doneClosed[r]
                                    \/ result[r] = "failed" /\ ~doneClosed[r]
    /\ stage[r] = "closing" => result[r] = "failed" /\ ~doneClosed[r] /\ eventsClosed[r]
    /\ stage[r] = "over" => result[r] # "none" /\ doneClosed[r] /\ eventsClosed[r]

(* The run is known to have completed.                                     *)
Finished(r) == stage[r] = "returned" \/ result[r] = "ok"

(* A terminal event tells the truth, and RunCompleted is the last event.   *)
KindOK(r, e) ==
    /\ e.kind = "RunCompleted" => Finished(r) /\ e.n = count[r]
    /\ e.kind = "RunFailed" => failures[r]

KindsOK(r) ==
    /\ \A i \in DOMAIN Pending(r) : Pending(r)[i].by = r => KindOK(r, Pending(r)[i])
    /\ Publishing(r) => KindOK(r, publishing[r].event)

FreshOK(r) ==
    /\ stage[r] \in {"new", "call"} => ~Publishing(r) /\ count[r] = 0
    /\ stage[r] = "new" <=> forwarder[r] = "none"
    /\ stage[r] = "new" => stream[r].size = 0 /\ stream[r].last.n = 0 /\ stream[r].terminal = {}
    /\ stage[r] # "new" => r \in subscribers \/ ended[r]

EndedOK(r) ==
    /\ ended[r] => ctxDone[r] \/ lost[r] \/ result[r] = "failed" \/ forwarder[r] = "ended"
    /\ eventsClosed[r] => forwarder[r] = "ended" /\ r \notin subscribers

CarriedOK(r) ==
    forwarder[r] = "emitting" =>
        /\ carried[r][1] \in Events /\ carried[r][1].by = r /\ carried[r][1].n = got[r][r]
        /\ KindOK(r, carried[r][1])

FailuresOK(r) == failures[r] => stage[r] = "session" \/ result[r] = "failed"

TermOK(r) ==
    /\ "RunCompleted" \in stream[r].terminal => Finished(r)
    /\ "RunFailed" \in stream[r].terminal => failures[r] \/ result[r] = "failed"

OrderOK(r) ==
    "RunFailed" \notin stream[r].terminal =>
        /\ stream[r].last.n <= count[r]
        /\ forwarder[r] = "waiting" => stream[r].last.n <= got[r][r]
        /\ forwarder[r] = "emitting" => stream[r].last.n < got[r][r]

(* As long as nothing was given up: how far the handle has got.            *)
SizeOK(r) ==
    ~lost[r] /\ ~ctxDone[r] /\ result[r] # "failed" =>
        /\ forwarder[r] = "waiting" => stream[r].size = got[r][r]
        /\ forwarder[r] = "emitting" => stream[r].size + 1 = got[r][r]
        /\ forwarder[r] = "ended" =>
              \/ failures[r]
              \/ /\ stream[r].size = count[r] /\ stream[r].last.kind = "RunCompleted"
                 /\ Finished(r)

LocalInv(r) ==
    /\ StageOK(r) /\ FreshOK(r) /\ EndedOK(r) /\ CarriedOK(r) /\ FailuresOK(r) /\ TermOK(r)
    /\ OrderOK(r) /\ SizeOK(r)

Inv == SubInv /\ HandleType /\ \A r \in Runs : LocalInv(r) /\ KindsOK(r)

(* What a step leaves alone of a run.                                      *)
HandleSame(t) ==
    /\ stage'[t] = stage[t] /\ failures'[t] = failures[t] /\ forwarder'[t] = forwarder[t]
    /\ carried'[t] = carried[t] /\ stream'[t] = stream[t] /\ result'[t] = result[t]
    /\ doneClosed'[t] = doneClosed[t] /\ eventsClosed'[t] = eventsClosed[t]
    /\ ctxDone'[t] = ctxDone[t] /\ lost'[t] = lost[t]

SubSame(t) ==
    /\ count'[t] = count[t] /\ got'[t][t] = got[t][t] /\ ended'[t] = ended[t]
    /\ t \in subscribers' <=> t \in subscribers
    /\ Publishing(t)' => Publishing(t)

(* What a step does that terminal events depend on.                        *)
Stable(t) ==
    /\ Finished(t) => Finished(t)' /\ count'[t] = count[t]
    /\ failures[t] => failures'[t]
PubOK(t) ==
    \A k \in AllKinds, n \in Nat :
        PublishNext(t, k) /\ Publishing(t)' /\ n = count[t] + 1 => KindOK(t, Event(t, n, k))'
InOrder(t) ==
    stream'[t] # stream[t] =>
        /\ stream'[t].last.by = t
        /\ "RunFailed" \in stream[t].terminal \/ stream'[t].last.n > stream[t].last.n

StepOK ==
    /\ SubStep /\ HandleType'
    /\ \A t \in Runs : LocalInv(t)' /\ Stable(t) /\ PubOK(t) /\ InOrder(t)

LEMMA RunsAre == Runs \subseteq Subs /\ Runs \subseteq Publishers
  BY RunAssumption

LEMMA NumbersAre ==
    ASSUME SubInv, NEW r \in Runs
    PROVE  /\ count[r] \in Nat /\ got[r][r] \in Nat /\ got[r][r] <= count[r]
           /\ r \in Subs /\ r \in Publishers
<1>1. r \in Subs /\ r \in Publishers
  BY RunsAre
<1>2. count[r] \in Nat /\ got[r][r] \in Nat
  BY <1>1 DEF SubInv, SubType
<1>3. got[r][r] <= Upto(r, r) /\ Upto(r, r) \in Nat /\ Upto(r, r) <= count[r]
  BY <1>1, UptoType DEF SubInv, Ordered, Increasing
<1> QED  BY <1>1, <1>2, <1>3

(* A run that a step does not touch.                                       *)
LEMMA Frame ==
    ASSUME NEW t, LocalInv(t), HandleSame(t), SubSame(t)
    PROVE  LocalInv(t)'
<1> USE DEF HandleSame, SubSame, LocalInv
<1>1. StageOK(t)'
  BY DEF StageOK
<1>2. FreshOK(t)' /\ EndedOK(t)'
  BY DEF FreshOK, EndedOK
<1>3. CarriedOK(t)'
  BY DEF CarriedOK, KindOK, Finished
<1>4. FailuresOK(t)' /\ TermOK(t)'
  BY DEF FailuresOK, TermOK, Finished
<1>5. OrderOK(t)' /\ SizeOK(t)'
  BY DEF OrderOK, SizeOK, Finished
<1> QED  BY <1>1, <1>2, <1>3, <1>4, <1>5

LEMMA NoPublication ==
    ASSUME SubInv, NEW t \in Runs, count'[t] = count[t]
    PROVE  PubOK(t)
<1>1. t \in Publishers /\ count[t] \in Nat /\ count \in [Publishers -> Nat]
  BY RunsAre DEF SubInv, SubType
<1>2. \A k : ~PublishNext(t, k)
  BY <1>1 DEF PublishNext, Publish
<1> QED  BY <1>2 DEF PubOK

(* A step of one run.                                                      *)
LEMMA OneRun ==
    ASSUME Inv, NEW r \in Runs, SubStep, HandleType',
           LocalInv(r)', Stable(r), PubOK(r), InOrder(r),
           \A t \in Runs : t # r => HandleSame(t) /\ SubSame(t)
    PROVE  StepOK
<1> SUFFICES ASSUME NEW t \in Runs, t # r
             PROVE  LocalInv(t)' /\ Stable(t) /\ PubOK(t) /\ InOrder(t)
  BY DEF StepOK
<1>1. HandleSame(t) /\ SubSame(t) /\ LocalInv(t) /\ SubInv
  BY DEF Inv
<1>2. LocalInv(t)'
  BY <1>1, Frame
<1>3. Stable(t) /\ InOrder(t)
  BY <1>1 DEF Stable, InOrder, HandleSame, SubSame, Finished
<1>4. PubOK(t)
  BY <1>1, NoPublication DEF SubSame
<1> QED  BY <1>2, <1>3, <1>4

(* A step of the subscriptions that concerns one of them, or one           *)
(* publisher.                                                              *)
LEMMA OneSub ==
    ASSUME SubInv, NEW r \in Runs,
           \/ Subscribe(r) \/ CancelOnly(r) \/ Abandon(r) \/ Receive(r)
           \/ (\E k \in AllKinds : PublishNext(r, k)) \/ UNCHANGED subVars
    PROVE  /\ SubStep
           /\ \A t \in Runs : t # r => SubSame(t)
<1> SUFFICES ASSUME NEW t \in Runs, t # r
             PROVE  SubStep /\ SubSame(t)
  BY RunsAre DEF SubStep
<1>0. r \in Subs /\ r \in Publishers /\ t \in Subs /\ t \in Publishers /\ SubType
  BY RunsAre DEF SubInv
<1>1. SubStep
  BY <1>0 DEF SubStep
<1>2. CASE Subscribe(r)
  BY <1>0, <1>1, <1>2 DEF Subscribe, SubSame, Publishing, SubType
<1>3. CASE CancelOnly(r)
  BY <1>0, <1>1, <1>3 DEF CancelOnly, Cancel, SubSame, Publishing, SubType
<1>4. CASE Abandon(r)
  BY <1>0, <1>1, <1>4 DEF Abandon, Cancel, SubSame, Publishing, SubType
<1>5. CASE Receive(r)
  <2>1. got'[t][t] = got[t][t]
    BY <1>0, <1>5, ReceiveStep
  <2> QED  BY <1>0, <1>1, <1>5, <2>1 DEF Receive, SubSame, Publishing
<1>6. CASE \E k \in AllKinds : PublishNext(r, k)
  <2>1. publishing'[t] = publishing[t] /\ count'[t] = count[t]
    BY <1>0, <1>6, PublishStep
  <2> QED  BY <1>0, <1>1, <1>6, <2>1 DEF PublishNext, Publish, SubSame, Publishing
<1>7. CASE UNCHANGED subVars
  BY <1>1, <1>7 DEF subVars, SubSame, Publishing
<1> QED  BY <1>2, <1>3, <1>4, <1>5, <1>6, <1>7

-----------------------------------------------------------------------------
(* One lemma per action of a run.                                          *)

LEMMA ExecuteSubscribesStep ==
    ASSUME Inv, NEW r \in Runs, ExecuteSubscribes(r)
    PROVE  StepOK
<1>1. /\ stage[r] = "new" /\ stage' = [stage EXCEPT ![r] = "call"] /\ Subscribe(r)
      /\ forwarder' = [forwarder EXCEPT ![r] = "waiting"]
      /\ failures' = failures /\ carried' = carried /\ stream' = stream /\ result' = result
      /\ doneClosed' = doneClosed /\ eventsClosed' = eventsClosed /\ ctxDone' = ctxDone
      /\ lost' = lost
  BY DEF ExecuteSubscribes, Stage
<1>2. LocalInv(r) /\ HandleType /\ SubInv
  BY DEF Inv
<1>3. SubStep /\ \A t \in Runs : t # r => SubSame(t)
  BY <1>1, <1>2, OneSub
<1>4. \A t \in Runs : t # r => HandleSame(t)
  BY <1>1, <1>2 DEF HandleSame, HandleType
<1>5. HandleType' /\ stage'[r] = "call" /\ forwarder'[r] = "waiting"
  BY <1>1, <1>2 DEF HandleType, Stages, Early
<1>6. /\ r \in subscribers' /\ count' = count /\ ended' = ended /\ ~ended[r] /\ got'[r][r] = count[r]
      /\ publishing' = publishing /\ count[r] = 0 /\ ~Publishing(r)
      /\ stream[r].size = 0 /\ stream[r].last.n = 0 /\ stream[r].terminal = {}
  BY <1>1, <1>2, RunsAre DEF Subscribe, LocalInv, FreshOK, SubInv, SubType
<1>7. LocalInv(r)'
  <2>1. StageOK(r)'
    BY <1>1, <1>2, <1>5 DEF LocalInv, StageOK, Early
  <2>2. FreshOK(r)'
    BY <1>5, <1>6 DEF FreshOK, Publishing
  <2>3. EndedOK(r)' /\ CarriedOK(r)'
    BY <1>1, <1>2, <1>5, <1>6 DEF LocalInv, EndedOK, CarriedOK, StageOK, Early
  <2>4. FailuresOK(r)' /\ TermOK(r)'
    BY <1>1, <1>2, <1>5, <1>6 DEF LocalInv, FailuresOK, TermOK
  <2>5. OrderOK(r)' /\ SizeOK(r)'
    BY <1>1, <1>5, <1>6 DEF OrderOK, SizeOK
  <2> QED  BY <2>1, <2>2, <2>3, <2>4, <2>5 DEF LocalInv
<1>8. Stable(r) /\ InOrder(r)
  BY <1>1, <1>2, <1>6 DEF Stable, InOrder, Finished
<1>9. PubOK(r)
  BY <1>2, <1>6, NoPublication
<1> QED  BY <1>3, <1>4, <1>5, <1>7, <1>8, <1>9, OneRun

(* r.fail, at the end of three of the handler's paths.                     *)
LEMMA FailStep ==
    ASSUME Inv, NEW r \in Runs, NEW from \in {"call", "agent", "session"},
           Stage(r, from, "failing"), Fail(r)
    PROVE  StepOK
<1>1. /\ stage[r] = from /\ stage' = [stage EXCEPT ![r] = "failing"] /\ UNCHANGED subVars
      /\ result' = [result EXCEPT ![r] = "failed"]
      /\ failures' = failures /\ carried' = carried /\ stream' = stream /\ forwarder' = forwarder
      /\ doneClosed' = doneClosed /\ eventsClosed' = eventsClosed /\ ctxDone' = ctxDone
      /\ lost' = lost
  BY DEF Fail, Stage
<1>2. LocalInv(r) /\ HandleType /\ SubInv
  BY DEF Inv
<1>3. SubStep /\ \A t \in Runs : t # r => SubSame(t)
  BY <1>1, <1>2, OneSub
<1>4. \A t \in Runs : t # r => HandleSame(t)
  BY <1>1, <1>2 DEF HandleSame, HandleType
<1>5. HandleType' /\ stage'[r] = "failing" /\ result'[r] = "failed"
  BY <1>1, <1>2 DEF HandleType, Stages, Early
<1>6. count' = count /\ got' = got /\ ended' = ended /\ subscribers' = subscribers
  BY <1>1 DEF subVars
<1>7. stage[r] # "new" /\ stage[r] # "returned" /\ stage[r] \in Early
  BY <1>1 DEF Early
<1>8. result[r] = "none" /\ ~Finished(r)
  BY <1>2, <1>7 DEF LocalInv, StageOK, Finished
<1>9. LocalInv(r)'
  <2>1. StageOK(r)'
    BY <1>1, <1>2, <1>5, <1>7 DEF LocalInv, StageOK, Early
  <2>2. FreshOK(r)'
    BY <1>1, <1>2, <1>5, <1>6, <1>7 DEF LocalInv, FreshOK
  <2>3. EndedOK(r)' /\ CarriedOK(r)'
    BY <1>1, <1>2, <1>5, <1>6, <1>7, <1>8 DEF LocalInv, EndedOK, CarriedOK, KindOK
  <2>4. FailuresOK(r)' /\ TermOK(r)'
    BY <1>1, <1>2, <1>5, <1>8 DEF LocalInv, FailuresOK, TermOK
  <2>5. OrderOK(r)' /\ SizeOK(r)'
    BY <1>1, <1>2, <1>5, <1>6 DEF LocalInv, OrderOK, SizeOK
  <2> QED  BY <2>1, <2>2, <2>3, <2>4, <2>5 DEF LocalInv
<1>10. Stable(r) /\ InOrder(r)
  BY <1>1, <1>8 DEF Stable, InOrder
<1>11. PubOK(r)
  BY <1>2, <1>6, NoPublication
<1> QED  BY <1>3, <1>4, <1>5, <1>9, <1>10, <1>11, OneRun

(* A handler goes on, with a publication or without one.                   *)
LEMMA HandlerStep ==
    ASSUME Inv, NEW r \in Runs,
           stage[r] \in {"call", "agent", "session", "outbound", "complete"},
           NEW to \in {"agent", "session", "outbound", "complete", "returned"},
           stage' = [stage EXCEPT ![r] = to],
           \/ failures' = failures /\ (failures[r] => to = "session")
           \/ failures' = [failures EXCEPT ![r] = TRUE] /\ to = "session",
           \/ UNCHANGED subVars
           \/ \E k \in AllKinds : /\ PublishNext(r, k)
                                  /\ k = "RunCompleted" => to = "returned"
                                  /\ k = "RunFailed" => failures'[r],
           carried' = carried, stream' = stream, forwarder' = forwarder, result' = result,
           doneClosed' = doneClosed, eventsClosed' = eventsClosed, ctxDone' = ctxDone, lost' = lost
    PROVE  StepOK
<1>2. LocalInv(r) /\ HandleType /\ SubInv
  BY DEF Inv
<1>3. SubStep /\ \A t \in Runs : t # r => SubSame(t)
  BY <1>2, OneSub
<1>4. \A t \in Runs : t # r => HandleSame(t)
  BY <1>2 DEF HandleSame, HandleType
<1>5. /\ HandleType' /\ stage'[r] = to /\ failures'[r] \in BOOLEAN
      /\ (failures[r] => failures'[r]) /\ (failures'[r] => to = "session")
  <2>1. failures \in [Runs -> BOOLEAN] /\ stage \in [Runs -> Stages] /\ to \in Stages
    BY <1>2 DEF HandleType, Stages, Early
  <2>2. failures' \in [Runs -> BOOLEAN] /\ stage' \in [Runs -> Stages] /\ stage'[r] = to
    BY <2>1
  <2>3. (failures[r] => failures'[r]) /\ (failures'[r] => to = "session")
    BY <2>1
  <2> QED  BY <1>2, <2>2, <2>3 DEF HandleType
<1>6. /\ got' = got /\ ended' = ended /\ subscribers' = subscribers
      /\ count'[r] \in Nat /\ count[r] \in Nat /\ count[r] <= count'[r]
  <2>1. CASE UNCHANGED subVars
    BY <1>2, <2>1, NumbersAre DEF subVars
  <2>2. CASE \E k \in AllKinds : PublishNext(r, k)
    <3>1. count'[r] = count[r] + 1 /\ count[r] \in Nat
      BY <1>2, <2>2, PublishStep, NumbersAre
    <3>2. got' = got /\ ended' = ended /\ subscribers' = subscribers
      BY <2>2 DEF PublishNext, Publish
    <3> QED  BY <3>1, <3>2
  <2> QED  BY <2>1, <2>2
<1>7. stage[r] # "new" /\ stage[r] # "returned" /\ stage[r] \in Early /\ to \in Early
      /\ to # "new" /\ to # "call"
  BY DEF Early
<1>8. result[r] = "none" /\ ~Finished(r)
  BY <1>2, <1>7 DEF LocalInv, StageOK, Finished
<1>9. LocalInv(r)'
  <2>1. StageOK(r)'
    BY <1>2, <1>5, <1>7 DEF LocalInv, StageOK, Early
  <2>2. FreshOK(r)'
    BY <1>2, <1>5, <1>6, <1>7 DEF LocalInv, FreshOK
  <2>3. EndedOK(r)' /\ CarriedOK(r)'
    BY <1>2, <1>5, <1>6, <1>8 DEF LocalInv, EndedOK, CarriedOK, KindOK
  <2>4. FailuresOK(r)' /\ TermOK(r)'
    BY <1>2, <1>5, <1>8 DEF LocalInv, FailuresOK, TermOK
  <2>5. OrderOK(r)'
    <3>1. stream[r].last.n \in Nat
      BY <1>2 DEF HandleType, StreamType
    <3> QED  BY <1>2, <1>6, <3>1 DEF LocalInv, OrderOK
  <2>6. SizeOK(r)'
    BY <1>2, <1>5, <1>6, <1>8 DEF LocalInv, SizeOK
  <2> QED  BY <2>1, <2>2, <2>3, <2>4, <2>5, <2>6 DEF LocalInv
<1>10. Stable(r) /\ InOrder(r)
  BY <1>5, <1>8 DEF Stable, InOrder
<1>11. PubOK(r)
  <2>1. CASE UNCHANGED subVars
    BY <1>2, <2>1, NoPublication DEF subVars
  <2>2. ASSUME NEW k \in AllKinds, PublishNext(r, k),
               k = "RunCompleted" => to = "returned", k = "RunFailed" => failures'[r]
        PROVE  PubOK(r)
    <3> SUFFICES ASSUME NEW j \in AllKinds, NEW n \in Nat, PublishNext(r, j), Publishing(r)',
                        n = count[r] + 1
                 PROVE  KindOK(r, Event(r, n, j))'
      BY DEF PubOK
    <3>1. count'[r] = n
      BY <1>2, <2>2, PublishStep, RunsAre
    <3>2. CASE j = k
      BY <1>5, <2>2, <3>1, <3>2 DEF KindOK, Event, Finished
    <3>3. CASE j # k
      <4>1. publishing'[r].event = Event(r, n, j) /\ publishing'[r].event = Event(r, n, k)
        BY <1>2, <2>2, <3>3, PublishStep, RunsAre
      <4>2. Event(r, n, j).kind = j /\ Event(r, n, k).kind = k
        BY DEF Event
      <4> QED  BY <3>3, <4>1, <4>2
    <3> QED  BY <3>2, <3>3
  <2> QED  BY <2>1, <2>2
<1> QED  BY <1>3, <1>4, <1>5, <1>9, <1>10, <1>11, OneRun

(* The handler, one case per action.                                       *)
LEMMA HandlerSteps ==
    ASSUME Inv, NEW r \in Runs, Handler(r)
    PROVE  StepOK
<1>0. LocalInv(r) /\ HandleType /\ SubInv
  BY DEF Inv
<1>00. "received" \in AllKinds /\ "emitted" \in AllKinds /\ "completed" \in AllKinds
       /\ "outbound" \in AllKinds /\ "RunFailed" \in AllKinds /\ "RunCompleted" \in AllKinds
  BY DEF AllKinds, Terminal
<1>1. CASE HandleSessionInbound_Refuses(r)
  BY <1>1, FailStep DEF HandleSessionInbound_Refuses
<1>2. CASE Received(r)
  <2>1. stage[r] = "call" /\ ~Publishing(r) /\ ~failures[r]
    BY <1>0, <1>2 DEF Received, Stage, LocalInv, FreshOK, FailuresOK, StageOK, Early
  <2>2. PublishNext(r, "received")
    BY <1>2, <2>1 DEF Received, PublishNext
  <2>3. \E to \in {"agent", "session"} : stage' = [stage EXCEPT ![r] = to]
    BY <1>2 DEF Received, Stage
  <2>4. UNCHANGED Rest
    BY <1>2 DEF Received
  <2> QED  BY <1>00, <2>1, <2>2, <2>3, <2>4, HandlerStep DEF Rest
<1>3. CASE agentForSession(r)
  <2>1. CASE Stage(r, "agent", "failing") /\ Fail(r)
    BY <2>1, FailStep
  <2>2. CASE Stage(r, "agent", "session") /\ UNCHANGED <<subVars, Rest>>
    BY <2>2, HandlerStep DEF Stage, Rest
  <2> QED  BY <1>3, <2>1, <2>2 DEF agentForSession
<1>4. CASE EmitEvent(r)
  <2>1. stage[r] = "session" /\ PublishNext(r, "emitted")
    BY <1>4 DEF EmitEvent, PublishNext
  <2>2. stage' = [stage EXCEPT ![r] = "session"]
    BY <1>0, <1>4, <2>1 DEF EmitEvent, HandleType
  <2> QED  BY <1>00, <1>4, <2>1, <2>2, HandlerStep DEF EmitEvent
<1>5. CASE PersistenceFails(r)
  <2>1. stage[r] = "session" /\ PublishNext(r, "RunFailed")
        /\ failures' = [failures EXCEPT ![r] = TRUE]
    BY <1>5 DEF PersistenceFails, PublishNext
  <2>2. stage' = [stage EXCEPT ![r] = "session"] /\ failures'[r]
    BY <1>0, <1>5, <2>1 DEF PersistenceFails, HandleType
  <2> QED  BY <1>00, <1>5, <2>1, <2>2, HandlerStep DEF PersistenceFails
<1>6. CASE SessionFailed(r)
  BY <1>6, FailStep DEF SessionFailed
<1>7. ASSUME NEW k \in {"completed"}, NEW next \in {"outbound", "complete"},
             HandlerPublishes(r, k, next)
      PROVE  StepOK
  <2>1. stage[r] = "session" /\ PublishNext(r, k) /\ ~failures[r]
        /\ stage' = [stage EXCEPT ![r] = next]
    BY <1>7 DEF HandlerPublishes, PublishNext, Stage
  <2>2. UNCHANGED Rest
    BY <1>7 DEF HandlerPublishes
  <2> QED  BY <1>00, <2>1, <2>2, HandlerStep DEF Rest
<1>8. CASE handleInput(r) \/ handleCommand(r) \/ handleTrigger(r)
  BY <1>7, <1>8 DEF handleInput, handleCommand, handleTrigger
<1>9. CASE handleOperation(r)
  BY <1>9, HandlerStep DEF handleOperation, Stage, Rest
<1>10. CASE Outbound(r)
  <2>1. stage[r] = "outbound" /\ stage' = [stage EXCEPT ![r] = "complete"] /\ ~failures[r]
    BY <1>0, <1>10 DEF Outbound, Stage, LocalInv, FailuresOK, StageOK, Early
  <2>2. PublishNext(r, "outbound") \/ UNCHANGED subVars
    BY <1>10 DEF Outbound, PublishNext
  <2>3. UNCHANGED Rest
    BY <1>10 DEF Outbound
  <2> QED  BY <1>00, <2>1, <2>2, <2>3, HandlerStep DEF Rest
<1>11. CASE Completed(r)
  <2>1. stage[r] = "complete" /\ stage' = [stage EXCEPT ![r] = "returned"] /\ ~failures[r]
    BY <1>0, <1>11 DEF Completed, Stage, LocalInv, FailuresOK, StageOK, Early
  <2>2. PublishNext(r, "RunCompleted")
    BY <1>11 DEF Completed, PublishNext
  <2>3. UNCHANGED Rest
    BY <1>11 DEF Completed
  <2> QED  BY <1>00, <2>1, <2>2, <2>3, HandlerStep DEF Rest
<1> QED  BY <1>1, <1>2, <1>3, <1>4, <1>5, <1>6, <1>8, <1>9, <1>10, <1>11 DEF Handler

LEMMA SetResultStep ==
    ASSUME Inv, NEW r \in Runs, SetResult(r)
    PROVE  StepOK
<1>1. /\ stage[r] = "returned" /\ stage' = [stage EXCEPT ![r] = "succeeded"] /\ UNCHANGED subVars
      /\ result' = [result EXCEPT ![r] = "ok"]
      /\ failures' = failures /\ carried' = carried /\ stream' = stream /\ forwarder' = forwarder
      /\ doneClosed' = doneClosed /\ eventsClosed' = eventsClosed /\ ctxDone' = ctxDone
      /\ lost' = lost
  BY DEF SetResult, Stage
<1>2. LocalInv(r) /\ HandleType /\ SubInv
  BY DEF Inv
<1>3. SubStep /\ \A t \in Runs : t # r => SubSame(t)
  BY <1>1, <1>2, OneSub
<1>4. \A t \in Runs : t # r => HandleSame(t)
  BY <1>1, <1>2 DEF HandleSame, HandleType
<1>5. HandleType' /\ stage'[r] = "succeeded" /\ result'[r] = "ok"
  BY <1>1, <1>2 DEF HandleType, Stages, Early
<1>6. count' = count /\ got' = got /\ ended' = ended /\ subscribers' = subscribers
  BY <1>1 DEF subVars
<1>7. result[r] = "none" /\ Finished(r) /\ Finished(r)' /\ ~failures[r]
  BY <1>1, <1>2, <1>5 DEF LocalInv, StageOK, Early, Finished, FailuresOK
<1>8. LocalInv(r)'
  <2>1. StageOK(r)'
    BY <1>1, <1>2, <1>5 DEF LocalInv, StageOK, Early
  <2>2. FreshOK(r)'
    BY <1>1, <1>2, <1>5, <1>6 DEF LocalInv, FreshOK
  <2>3. EndedOK(r)' /\ CarriedOK(r)'
    BY <1>1, <1>2, <1>5, <1>6, <1>7 DEF LocalInv, EndedOK, CarriedOK, KindOK
  <2>4. FailuresOK(r)' /\ TermOK(r)'
    BY <1>1, <1>2, <1>5, <1>7 DEF LocalInv, FailuresOK, TermOK
  <2>5. OrderOK(r)' /\ SizeOK(r)'
    BY <1>1, <1>2, <1>5, <1>6, <1>7 DEF LocalInv, OrderOK, SizeOK
  <2> QED  BY <2>1, <2>2, <2>3, <2>4, <2>5 DEF LocalInv
<1>9. Stable(r) /\ InOrder(r)
  BY <1>1, <1>6, <1>7 DEF Stable, InOrder
<1>10. PubOK(r)
  BY <1>2, <1>6, NoPublication
<1> QED  BY <1>3, <1>4, <1>5, <1>8, <1>9, <1>10, OneRun

(* The last two steps of execute that close Done.                          *)
LEMMA CloseDoneStep ==
    ASSUME Inv, NEW r \in Runs,
           CloseDone(r, "succeeded", "draining") \/ CloseDone(r, "closing", "over")
    PROVE  StepOK
<1>1. PICK from \in {"succeeded", "closing"}, to \in {"draining", "over"} :
        /\ (from = "succeeded" /\ to = "draining") \/ (from = "closing" /\ to = "over")
        /\ CloseDone(r, from, to)
  OBVIOUS
<1>2. /\ stage[r] = from /\ stage' = [stage EXCEPT ![r] = to] /\ UNCHANGED subVars
      /\ doneClosed' = [doneClosed EXCEPT ![r] = TRUE]
      /\ failures' = failures /\ carried' = carried /\ stream' = stream /\ forwarder' = forwarder
      /\ result' = result /\ eventsClosed' = eventsClosed /\ ctxDone' = ctxDone /\ lost' = lost
  BY <1>1 DEF CloseDone, Stage
<1>3. LocalInv(r) /\ HandleType /\ SubInv
  BY DEF Inv
<1>4. SubStep /\ \A t \in Runs : t # r => SubSame(t)
  BY <1>2, <1>3, OneSub
<1>5. \A t \in Runs : t # r => HandleSame(t)
  BY <1>2, <1>3 DEF HandleSame, HandleType
<1>6. HandleType' /\ stage'[r] = to /\ doneClosed'[r]
  BY <1>1, <1>2, <1>3 DEF HandleType, Stages, Early
<1>7. count' = count /\ got' = got /\ ended' = ended /\ subscribers' = subscribers
  BY <1>2 DEF subVars
<1>8. Finished(r) <=> Finished(r)'
  BY <1>1, <1>2, <1>6 DEF Finished
<1>9. LocalInv(r)'
  <2>1. StageOK(r)'
    BY <1>1, <1>2, <1>3, <1>6 DEF LocalInv, StageOK, Early
  <2>2. FreshOK(r)'
    BY <1>1, <1>2, <1>3, <1>6, <1>7 DEF LocalInv, FreshOK
  <2>3. EndedOK(r)' /\ CarriedOK(r)'
    BY <1>1, <1>2, <1>3, <1>6, <1>7, <1>8 DEF LocalInv, EndedOK, CarriedOK, KindOK
  <2>4. FailuresOK(r)' /\ TermOK(r)'
    BY <1>1, <1>2, <1>3, <1>6, <1>8 DEF LocalInv, FailuresOK, TermOK
  <2>5. OrderOK(r)' /\ SizeOK(r)'
    BY <1>1, <1>2, <1>3, <1>6, <1>7, <1>8 DEF LocalInv, OrderOK, SizeOK
  <2> QED  BY <2>1, <2>2, <2>3, <2>4, <2>5 DEF LocalInv
<1>10. Stable(r) /\ InOrder(r)
  BY <1>2, <1>7, <1>8 DEF Stable, InOrder
<1>11. PubOK(r)
  BY <1>3, <1>7, NoPublication
<1> QED  BY <1>4, <1>5, <1>6, <1>9, <1>10, <1>11, OneRun

(* The subscription of a run is cancelled: because the grace period is     *)
(* over, after a failure, or because its context has ended.                *)
LEMMA CancelsStep ==
    ASSUME Inv, NEW r \in Runs, CancelOnly(r),
           \/ stage[r] = "draining" /\ forwarder[r] # "ended"
              /\ stage' = [stage EXCEPT ![r] = "cancelled"]
              /\ lost' = [lost EXCEPT ![r] = TRUE] /\ ctxDone' = ctxDone
           \/ stage[r] = "cancel" /\ stage' = [stage EXCEPT ![r] = "cancelled"]
              /\ lost' = lost /\ ctxDone' = ctxDone
           \/ stage' = stage /\ lost' = lost /\ ctxDone' = [ctxDone EXCEPT ![r] = TRUE],
           failures' = failures, carried' = carried, stream' = stream, forwarder' = forwarder,
           result' = result, doneClosed' = doneClosed, eventsClosed' = eventsClosed
    PROVE  StepOK
<1>2. LocalInv(r) /\ HandleType /\ SubInv
  BY DEF Inv
<1>3. SubStep /\ \A t \in Runs : t # r => SubSame(t)
  BY <1>2, OneSub
<1>4. \A t \in Runs : t # r => HandleSame(t)
  BY <1>2 DEF HandleSame, HandleType
<1>5. /\ HandleType'
      /\ \/ stage[r] = "draining" /\ stage'[r] = "cancelled" /\ lost'[r] /\ ctxDone'[r] = ctxDone[r]
         \/ stage[r] = "cancel" /\ stage'[r] = "cancelled" /\ lost'[r] = lost[r]
            /\ ctxDone'[r] = ctxDone[r]
         \/ stage'[r] = stage[r] /\ lost'[r] = lost[r] /\ ctxDone'[r]
  BY <1>2 DEF HandleType, Stages, Early
<1>6. /\ count' = count /\ got' = got /\ ended'[r] /\ subscribers' = subscribers \ {r}
      /\ publishing' = publishing
  BY <1>2, RunsAre DEF CancelOnly, Cancel, SubInv, SubType
<1>7. Finished(r) <=> Finished(r)'
  BY <1>5 DEF Finished
<1>8. LocalInv(r)'
  <2>1. StageOK(r)'
    BY <1>2, <1>5 DEF LocalInv, StageOK, Early
  <2>2. FreshOK(r)'
    BY <1>2, <1>5, <1>6 DEF LocalInv, FreshOK, Publishing
  <2>3. EndedOK(r)'
    <3>1. stage[r] = "cancel" => result[r] = "failed"
      BY <1>2 DEF LocalInv, StageOK
    <3> QED  BY <1>2, <1>5, <1>6, <3>1 DEF LocalInv, EndedOK
  <2>4. CarriedOK(r)'
    BY <1>2, <1>6, <1>7 DEF LocalInv, CarriedOK, KindOK
  <2>5. FailuresOK(r)' /\ TermOK(r)'
    BY <1>2, <1>5, <1>7 DEF LocalInv, FailuresOK, TermOK
  <2>6. OrderOK(r)' /\ SizeOK(r)'
    BY <1>2, <1>5, <1>6, <1>7 DEF LocalInv, OrderOK, SizeOK
  <2> QED  BY <2>1, <2>2, <2>3, <2>4, <2>5, <2>6 DEF LocalInv
<1>9. Stable(r) /\ InOrder(r)
  BY <1>6, <1>7 DEF Stable, InOrder
<1>10. PubOK(r)
  BY <1>2, <1>6, NoPublication
<1> QED  BY <1>3, <1>4, <1>5, <1>8, <1>9, <1>10, OneRun

(* emit, on the stream of a handle.                                        *)
LEMMA EmitFacts ==
    ASSUME HandleType, NEW r \in Runs, NEW e \in Events, Emit(r, e)
    PROVE  /\ stream' \in [Runs -> StreamType] /\ \A t \in Runs : t # r => stream'[t] = stream[t]
           /\ stream'[r].size = stream[r].size + 1 /\ stream'[r].last = e
           /\ stream'[r].terminal = stream[r].terminal \union ({e.kind} \intersect Terminal)
           /\ lost' = lost
<1> DEFINE new == [size |-> stream[r].size + 1, last |-> e,
                   terminal |-> stream[r].terminal \union ({e.kind} \intersect Terminal)]
<1>1. stream' = [stream EXCEPT ![r] = new] /\ lost' = lost
  BY DEF Emit, HandleType
<1>2. stream[r].size \in Nat /\ stream[r].terminal \subseteq Terminal
  BY DEF HandleType, StreamType
<1>3. e \in [by : Publishers, n : Nat, kind : AllKinds \union {""}]
  BY DEF Events
<1>4. new \in StreamType /\ new.size = stream[r].size + 1 /\ new.last = e
      /\ new.terminal = stream[r].terminal \union ({e.kind} \intersect Terminal)
  <2>1. \A n \in Nat, T \in SUBSET Terminal, l \in [by : Publishers, n : Nat, kind : AllKinds \union {""}] :
           [size |-> n, last |-> l, terminal |-> T] \in StreamType
    BY DEF StreamType
  <2>2. stream[r].size + 1 \in Nat
    BY <1>2
  <2>3. stream[r].terminal \union ({e.kind} \intersect Terminal) \in SUBSET Terminal
    BY <1>2
  <2> QED  BY <1>3, <2>1, <2>2, <2>3
<1> HIDE DEF new
<1> QED  BY <1>1, <1>4 DEF HandleType

LEMMA FailEmitsStep ==
    ASSUME Inv, NEW r \in Runs, FailEmits(r)
    PROVE  StepOK
<1>1. /\ stage[r] = "failing" /\ stage' = [stage EXCEPT ![r] = "cancel"] /\ UNCHANGED subVars
      /\ failures' = failures /\ carried' = carried /\ result' = result /\ forwarder' = forwarder
      /\ doneClosed' = doneClosed /\ eventsClosed' = eventsClosed /\ ctxDone' = ctxDone
  BY DEF FailEmits, Stage
<1>2. LocalInv(r) /\ HandleType /\ SubInv
  BY DEF Inv
<1>3. SubStep /\ \A t \in Runs : t # r => SubSame(t)
  BY <1>1, <1>2, OneSub
<1>4. count' = count /\ got' = got /\ ended' = ended /\ subscribers' = subscribers
  BY <1>1 DEF subVars
<1>5. result[r] = "failed" /\ ~Finished(r)
  BY <1>1, <1>2 DEF LocalInv, StageOK, Finished
<1>6. PICK e : e = Event(r, count[r] + 1, "RunFailed")
  OBVIOUS
<1>7. /\ e \in Events /\ e.by = r /\ e.n = count[r] + 1 /\ e.kind = "RunFailed" /\ count[r] \in Nat
      /\ "RunFailed" \in Terminal
  BY <1>2, <1>6, NumbersAre DEF Events, Event, AllKinds, Terminal
<1>8. /\ stream' \in [Runs -> StreamType] /\ lost' \in [Runs -> BOOLEAN]
      /\ \A t \in Runs : t # r => stream'[t] = stream[t] /\ lost'[t] = lost[t]
      /\ \/ stream'[r] = stream[r]
         \/ /\ stream'[r].last = e
            /\ stream'[r].terminal = stream[r].terminal \union {"RunFailed"}
  <2>1. CASE Emit(r, e)
    <3>1. {e.kind} \intersect Terminal = {"RunFailed"}
      BY <1>7
    <3> QED  BY <1>2, <1>7, <2>1, <3>1, EmitFacts DEF HandleType
  <2>2. CASE EmitTimesOut(r)
    BY <1>2, <2>2 DEF EmitTimesOut, HandleType
  <2> QED  BY <1>6, <2>1, <2>2 DEF FailEmits
<1>9. \A t \in Runs : t # r => HandleSame(t)
  BY <1>1, <1>2, <1>8 DEF HandleSame, HandleType
<1>10. HandleType' /\ stage'[r] = "cancel"
  <2>1. stage' \in [Runs -> Stages] /\ stage'[r] = "cancel"
    BY <1>1, <1>2 DEF HandleType, Stages
  <2> QED  BY <1>1, <1>2, <1>8, <2>1 DEF HandleType
<1>11. LocalInv(r)'
  <2>1. StageOK(r)'
    BY <1>1, <1>2, <1>10 DEF LocalInv, StageOK, Early
  <2>2. FreshOK(r)'
    BY <1>1, <1>2, <1>4, <1>10 DEF LocalInv, FreshOK
  <2>3. EndedOK(r)' /\ CarriedOK(r)'
    BY <1>1, <1>2, <1>4, <1>5, <1>10 DEF LocalInv, EndedOK, CarriedOK, KindOK
  <2>4. FailuresOK(r)' /\ TermOK(r)'
    BY <1>1, <1>2, <1>5, <1>8 DEF LocalInv, FailuresOK, TermOK
  <2>5. OrderOK(r)' /\ SizeOK(r)'
    BY <1>1, <1>2, <1>4, <1>5, <1>8 DEF LocalInv, OrderOK, SizeOK
  <2> QED  BY <2>1, <2>2, <2>3, <2>4, <2>5 DEF LocalInv
<1>12. Stable(r)
  BY <1>1, <1>5 DEF Stable
<1>13. InOrder(r)
  <2>1. stream[r].last.n \in Nat
    BY <1>2 DEF HandleType, StreamType
  <2>2. "RunFailed" \notin stream[r].terminal => stream[r].last.n <= count[r]
    BY <1>2 DEF LocalInv, OrderOK
  <2> QED  BY <1>7, <1>8, <2>1, <2>2 DEF InOrder
<1>14. PubOK(r)
  BY <1>2, <1>4, NoPublication
<1> QED  BY <1>3, <1>9, <1>10, <1>11, <1>12, <1>13, <1>14, OneRun

LEMMA CloseEventsStep ==
    ASSUME Inv, NEW r \in Runs, CloseEvents(r)
    PROVE  StepOK
<1>1. /\ forwarder[r] = "ended" /\ Abandon(r)
      /\ \/ stage[r] = "draining" /\ stage' = [stage EXCEPT ![r] = "over"]
         \/ stage[r] = "cancelled"
            /\ stage' = [stage EXCEPT ![r] = IF result[r] = "ok" THEN "over" ELSE "closing"]
      /\ eventsClosed' = [eventsClosed EXCEPT ![r] = TRUE]
      /\ failures' = failures /\ carried' = carried /\ stream' = stream /\ forwarder' = forwarder
      /\ result' = result /\ doneClosed' = doneClosed /\ ctxDone' = ctxDone /\ lost' = lost
  BY DEF CloseEvents, Stage
<1>2. LocalInv(r) /\ HandleType /\ SubInv
  BY DEF Inv
<1>3. SubStep /\ \A t \in Runs : t # r => SubSame(t)
  BY <1>1, <1>2, OneSub
<1>4. \A t \in Runs : t # r => HandleSame(t)
  BY <1>1, <1>2 DEF HandleSame, HandleType
<1>5. /\ HandleType' /\ eventsClosed'[r] /\ stage[r] \in {"draining", "cancelled"}
      /\ stage'[r] \in {"over", "closing"}
      /\ stage[r] = "draining" => stage'[r] = "over"
      /\ stage[r] = "cancelled" => stage'[r] = IF result[r] = "ok" THEN "over" ELSE "closing"
  BY <1>1, <1>2 DEF HandleType, Stages, Early
<1>6. /\ count' = count /\ ended'[r] /\ subscribers' = subscribers \ {r}
  BY <1>1, <1>2, RunsAre DEF Abandon, Cancel, SubInv, SubType
<1>7. Finished(r) <=> Finished(r)'
  BY <1>1, <1>5 DEF Finished
<1>8. LocalInv(r)'
  <2>1. StageOK(r)'
    BY <1>1, <1>2, <1>5 DEF LocalInv, StageOK, Early
  <2>2. FreshOK(r)'
    BY <1>1, <1>2, <1>5, <1>6 DEF LocalInv, FreshOK
  <2>3. EndedOK(r)' /\ CarriedOK(r)'
    BY <1>1, <1>2, <1>5, <1>6 DEF LocalInv, EndedOK, CarriedOK
  <2>4. FailuresOK(r)' /\ TermOK(r)'
    BY <1>1, <1>2, <1>5, <1>7 DEF LocalInv, FailuresOK, TermOK
  <2>5. OrderOK(r)' /\ SizeOK(r)'
    BY <1>1, <1>2, <1>5, <1>6, <1>7 DEF LocalInv, OrderOK, SizeOK
  <2> QED  BY <2>1, <2>2, <2>3, <2>4, <2>5 DEF LocalInv
<1>9. Stable(r) /\ InOrder(r)
  BY <1>1, <1>6, <1>7 DEF Stable, InOrder
<1>10. PubOK(r)
  BY <1>2, <1>6, NoPublication
<1> QED  BY <1>3, <1>4, <1>5, <1>8, <1>9, <1>10, OneRun

(* The forwarder takes the next event of its channel and keeps it if it is *)
(* the run's.                                                              *)
LEMMA ForwardTakesStep ==
    ASSUME Inv, NEW r \in Runs, ForwardTakes(r)
    PROVE  StepOK
<1>0. PICK e : e = Head(ch[r])
  OBVIOUS
<1>1. /\ forwarder[r] = "waiting" /\ Receive(r)
      /\ \/ /\ e.by = r /\ forwarder' = [forwarder EXCEPT ![r] = "emitting"]
            /\ carried' = [carried EXCEPT ![r] = <<e>>]
         \/ e.by # r /\ forwarder' = forwarder /\ carried' = carried
      /\ failures' = failures /\ stage' = stage /\ stream' = stream
      /\ result' = result /\ doneClosed' = doneClosed /\ eventsClosed' = eventsClosed
      /\ ctxDone' = ctxDone /\ lost' = lost
  BY <1>0 DEF ForwardTakes
<1>2. LocalInv(r) /\ HandleType /\ SubInv /\ KindsOK(r) /\ r \in Subs /\ r \in Publishers
  BY RunsAre DEF Inv
<1>3. SubStep /\ \A t \in Runs : t # r => SubSame(t)
  BY <1>1, <1>2, OneSub
<1>4. \A t \in Runs : t # r => HandleSame(t)
  BY <1>1, <1>2 DEF HandleSame, HandleType
<1>5. /\ e \in Events /\ Head(Pending(r)) = e /\ Pending(r) # << >>
      /\ got'[r][r] = IF r = e.by THEN e.n ELSE got[r][r]
  BY <1>0, <1>1, <1>2, ReceiveStep
<1>6. /\ HandleType'
      /\ \/ e.by = r /\ forwarder'[r] = "emitting" /\ carried'[r] = <<e>> /\ carried'[r][1] = e
         \/ e.by # r /\ forwarder'[r] = "waiting"
  <2>1. <<e>> \in Seq(Events) /\ <<e>>[1] = e
    BY <1>5
  <2>2. /\ forwarder' \in [Runs -> {"none", "waiting", "emitting", "ended"}]
        /\ carried' \in [Runs -> Seq(Events)]
    BY <1>1, <1>2, <2>1 DEF HandleType
  <2>3. HandleType'
    BY <1>1, <1>2, <2>2 DEF HandleType
  <2> QED  BY <1>1, <1>2, <2>1, <2>3 DEF HandleType
<1>7. count' = count /\ ended' = ended /\ subscribers' = subscribers /\ publishing' = publishing
  BY <1>1 DEF Receive
<1>8. Pending(r) \in Seq(Events)
  BY <1>2, PendingType DEF SubInv
<1>9. e.by = r => KindOK(r, e) /\ e.n > got[r][r] /\ e.n \in Nat
  <2>1. 1 \in DOMAIN Pending(r) /\ Pending(r)[1] = e
    BY <1>5, <1>8
  <2>2. e.n \in Nat /\ got[r][r] \in Nat
    BY <1>2, <1>5, NumbersAre DEF Events
  <2>3. Increasing(r, Pending(r), got[r][r], Upto(r, r))
    BY <1>2 DEF SubInv, Ordered
  <2>4. e.by = r => got[r][r] < e.n
    BY <2>1, <2>3 DEF Increasing
  <2> QED  BY <1>2, <2>1, <2>2, <2>4 DEF KindsOK
<1>10. e.by = r /\ r \in subscribers => e.n = got[r][r] + 1
  <2>1. Increasing(r, Pending(r), got[r][r], Upto(r, r))
    BY <1>2 DEF SubInv, Ordered
  <2>2. r \in subscribers => Complete(r, Pending(r), got[r][r], Upto(r, r))
    BY <1>2 DEF SubInv, Covered
  <2> QED  BY <1>5, <1>8, <2>1, <2>2, CompleteTail
<1>11. ~lost[r] /\ ~ctxDone[r] /\ result[r] # "failed" => r \in subscribers
  BY <1>1, <1>2 DEF LocalInv, FreshOK, EndedOK
<1>12. Finished(r) <=> Finished(r)'
  BY <1>1 DEF Finished
<1>13. LocalInv(r)'
  <2>1. StageOK(r)'
    BY <1>1, <1>2 DEF LocalInv, StageOK
  <2>2. FreshOK(r)'
    BY <1>1, <1>2, <1>6, <1>7 DEF LocalInv, FreshOK, Publishing
  <2>3. EndedOK(r)'
    BY <1>1, <1>2, <1>6, <1>7 DEF LocalInv, EndedOK
  <2>4. CarriedOK(r)'
    BY <1>1, <1>5, <1>6, <1>7, <1>9, <1>12 DEF CarriedOK, KindOK
  <2>5. FailuresOK(r)' /\ TermOK(r)'
    BY <1>1, <1>2, <1>12 DEF LocalInv, FailuresOK, TermOK
  <2>6. OrderOK(r)'
    <3>1. stream[r].last.n \in Nat /\ got[r][r] \in Nat
      BY <1>2, NumbersAre DEF HandleType, StreamType
    <3> QED  BY <1>1, <1>2, <1>5, <1>6, <1>7, <1>9, <3>1 DEF LocalInv, OrderOK
  <2>7. SizeOK(r)'
    BY <1>1, <1>2, <1>5, <1>6, <1>10, <1>11 DEF LocalInv, SizeOK
  <2> QED  BY <2>1, <2>2, <2>3, <2>4, <2>5, <2>6, <2>7 DEF LocalInv
<1>14. Stable(r) /\ InOrder(r)
  BY <1>1, <1>7, <1>12 DEF Stable, InOrder
<1>15. PubOK(r)
  BY <1>2, <1>7, NoPublication
<1> QED  BY <1>3, <1>4, <1>6, <1>13, <1>14, <1>15, OneRun

LEMMA ForwardStopsStep ==
    ASSUME Inv, NEW r \in Runs, ForwardStops(r)
    PROVE  StepOK
<1>1. /\ forwarder[r] = "waiting" /\ chClosed[r] /\ UNCHANGED subVars
      /\ forwarder' = [forwarder EXCEPT ![r] = "ended"]
      /\ failures' = failures /\ stage' = stage /\ stream' = stream /\ carried' = carried
      /\ result' = result /\ doneClosed' = doneClosed /\ eventsClosed' = eventsClosed
      /\ ctxDone' = ctxDone /\ lost' = lost
  BY DEF ForwardStops
<1>2. LocalInv(r) /\ HandleType /\ SubInv
  BY DEF Inv
<1>3. SubStep /\ \A t \in Runs : t # r => SubSame(t)
  BY <1>1, <1>2, OneSub
<1>4. \A t \in Runs : t # r => HandleSame(t)
  BY <1>1, <1>2 DEF HandleSame, HandleType
<1>5. HandleType' /\ forwarder'[r] = "ended"
  BY <1>1, <1>2 DEF HandleType
<1>6. count' = count /\ got' = got /\ ended' = ended /\ subscribers' = subscribers
      /\ publishing' = publishing
  BY <1>1 DEF subVars
<1>7. ctxDone[r] \/ lost[r] \/ result[r] = "failed"
  <2>1. ended[r]
    BY <1>1, <1>2, RunsAre DEF SubInv, Lifecycle
  <2> QED  BY <1>1, <1>2, <2>1 DEF LocalInv, EndedOK
<1>8. LocalInv(r)'
  <2>1. StageOK(r)'
    BY <1>1, <1>2 DEF LocalInv, StageOK
  <2>2. FreshOK(r)' /\ EndedOK(r)' /\ CarriedOK(r)'
    BY <1>1, <1>2, <1>5, <1>6 DEF LocalInv, FreshOK, EndedOK, CarriedOK, Publishing
  <2>3. FailuresOK(r)' /\ TermOK(r)'
    BY <1>1, <1>2 DEF LocalInv, FailuresOK, TermOK, Finished
  <2>4. OrderOK(r)' /\ SizeOK(r)'
    BY <1>1, <1>2, <1>5, <1>6, <1>7 DEF LocalInv, OrderOK, SizeOK
  <2> QED  BY <2>1, <2>2, <2>3, <2>4 DEF LocalInv
<1>9. Stable(r) /\ InOrder(r)
  BY <1>1, <1>6 DEF Stable, InOrder, Finished
<1>10. PubOK(r)
  BY <1>2, <1>6, NoPublication
<1> QED  BY <1>3, <1>4, <1>5, <1>8, <1>9, <1>10, OneRun

(* The forwarder passes its event on, or gives it up.                      *)
LEMMA ForwardsStep ==
    ASSUME Inv, NEW r \in Runs, ForwardEmits(r) \/ ForwardTimesOut(r)
    PROVE  StepOK
<1>0. PICK e : e = carried[r][1]
  OBVIOUS
<1>1. /\ forwarder[r] = "emitting" /\ UNCHANGED subVars
      /\ Emit(r, e) \/ EmitTimesOut(r)
      /\ forwarder' = [forwarder EXCEPT ![r] = IF e.kind \in Terminal THEN "ended" ELSE "waiting"]
      /\ carried' = [carried EXCEPT ![r] = << >>]
      /\ failures' = failures /\ stage' = stage
      /\ result' = result /\ doneClosed' = doneClosed /\ eventsClosed' = eventsClosed
      /\ ctxDone' = ctxDone
  BY <1>0 DEF ForwardEmits, ForwardTimesOut, Forwarded
<1>2. LocalInv(r) /\ HandleType /\ SubInv
  BY DEF Inv
<1>3. SubStep /\ \A t \in Runs : t # r => SubSame(t)
  BY <1>1, <1>2, OneSub
<1>4. /\ e \in Events /\ e.by = r /\ e.n = got[r][r] /\ KindOK(r, e)
  BY <1>0, <1>1, <1>2 DEF LocalInv, CarriedOK
<1>5. /\ stream' \in [Runs -> StreamType] /\ lost' \in [Runs -> BOOLEAN]
      /\ \A t \in Runs : t # r => stream'[t] = stream[t] /\ lost'[t] = lost[t]
      /\ \/ stream'[r] = stream[r] /\ lost'[r]
         \/ /\ stream'[r].last = e /\ stream'[r].size = stream[r].size + 1 /\ lost'[r] = lost[r]
            /\ stream'[r].terminal = stream[r].terminal \union ({e.kind} \intersect Terminal)
  <2>1. CASE Emit(r, e)
    BY <1>2, <1>4, <2>1, EmitFacts DEF HandleType
  <2>2. CASE EmitTimesOut(r)
    BY <1>2, <2>2 DEF EmitTimesOut, HandleType
  <2> QED  BY <1>1, <2>1, <2>2
<1>6. \A t \in Runs : t # r => HandleSame(t)
  BY <1>1, <1>2, <1>5 DEF HandleSame, HandleType
<1>7. HandleType' /\ forwarder'[r] = IF e.kind \in Terminal THEN "ended" ELSE "waiting"
  <2>1. << >> \in Seq(Events)
    OBVIOUS
  <2>2. /\ forwarder' \in [Runs -> {"none", "waiting", "emitting", "ended"}]
        /\ forwarder'[r] = IF e.kind \in Terminal THEN "ended" ELSE "waiting"
        /\ carried' \in [Runs -> Seq(Events)]
    BY <1>1, <1>2, <2>1 DEF HandleType
  <2> QED  BY <1>1, <1>2, <1>5, <2>2 DEF HandleType
<1>8. count' = count /\ got' = got /\ ended' = ended /\ subscribers' = subscribers
      /\ publishing' = publishing
  BY <1>1 DEF subVars
<1>9. Finished(r) <=> Finished(r)'
  BY <1>1 DEF Finished
<1>10. /\ count[r] \in Nat /\ got[r][r] \in Nat /\ got[r][r] <= count[r]
       /\ stream[r].last.n \in Nat /\ stream[r].size \in Nat
  BY <1>2, NumbersAre DEF HandleType, StreamType
<1>11. forwarder'[r] # "emitting" /\ forwarder'[r] # "none"
  BY <1>7
<1>12. LocalInv(r)'
  <2>1. StageOK(r)'
    BY <1>1, <1>2 DEF LocalInv, StageOK
  <2>2. FreshOK(r)'
    <3>1. stage[r] # "new"
      BY <1>1, <1>2 DEF LocalInv, FreshOK
    <3> QED  BY <1>1, <1>2, <1>8, <1>11, <3>1 DEF LocalInv, FreshOK, Publishing
  <2>3. EndedOK(r)' /\ CarriedOK(r)'
    <3>1. ended[r] => ctxDone[r] \/ lost[r] \/ result[r] = "failed"
      BY <1>1, <1>2 DEF LocalInv, EndedOK
    <3>2. ~eventsClosed[r] /\ (lost[r] => lost'[r])
      BY <1>1, <1>2, <1>5 DEF LocalInv, EndedOK
    <3> QED  BY <1>1, <1>8, <1>11, <3>1, <3>2 DEF EndedOK, CarriedOK
  <2>4. FailuresOK(r)'
    BY <1>1, <1>2 DEF LocalInv, FailuresOK
  <2>5. TermOK(r)'
    <3>1. /\ e.kind = "RunCompleted" => Finished(r)
          /\ e.kind = "RunFailed" => failures[r]
      BY <1>4 DEF KindOK
    <3>2. /\ "RunCompleted" \in stream'[r].terminal =>
                "RunCompleted" \in stream[r].terminal \/ e.kind = "RunCompleted"
          /\ "RunFailed" \in stream'[r].terminal =>
                "RunFailed" \in stream[r].terminal \/ e.kind = "RunFailed"
      BY <1>5
    <3> QED  BY <1>1, <1>2, <1>9, <3>1, <3>2 DEF LocalInv, TermOK
  <2>6. OrderOK(r)'
    <3> SUFFICES ASSUME "RunFailed" \notin stream'[r].terminal
                 PROVE  stream'[r].last.n <= count[r] /\ stream'[r].last.n <= got[r][r]
      BY <1>8, <1>11 DEF OrderOK
    <3>1. "RunFailed" \notin stream[r].terminal
      BY <1>5
    <3>2. stream[r].last.n < got[r][r]
      BY <1>1, <1>2, <3>1 DEF LocalInv, OrderOK
    <3>3. stream'[r].last.n = stream[r].last.n \/ stream'[r].last.n = got[r][r]
      BY <1>4, <1>5
    <3> QED  BY <1>10, <3>2, <3>3
  <2>7. SizeOK(r)'
    <3> SUFFICES ASSUME ~lost'[r], ~ctxDone[r], result[r] # "failed"
                 PROVE  /\ forwarder'[r] = "waiting" => stream'[r].size = got[r][r]
                        /\ forwarder'[r] = "ended" =>
                              \/ failures[r]
                              \/ /\ stream'[r].size = count[r]
                                 /\ stream'[r].last.kind = "RunCompleted" /\ Finished(r)
      BY <1>1, <1>8, <1>9, <1>11 DEF SizeOK
    <3>1. stream[r].size + 1 = got[r][r]
      BY <1>1, <1>2, <1>5 DEF LocalInv, SizeOK
    <3>2. stream'[r].last = e /\ stream'[r].size = got[r][r]
      BY <1>5, <3>1
    <3>3. e.kind \in Terminal => failures[r] \/ (e.kind = "RunCompleted" /\ Finished(r)
                                                 /\ e.n = count[r])
      BY <1>4 DEF KindOK, Terminal
    <3> QED  BY <1>4, <1>7, <3>2, <3>3
  <2> QED  BY <2>1, <2>2, <2>3, <2>4, <2>5, <2>6, <2>7 DEF LocalInv
<1>13. Stable(r)
  BY <1>1, <1>8, <1>9 DEF Stable
<1>14. InOrder(r)
  <2>1. "RunFailed" \notin stream[r].terminal => stream[r].last.n < got[r][r]
    BY <1>1, <1>2 DEF LocalInv, OrderOK
  <2> QED  BY <1>4, <1>5, <1>10, <2>1 DEF InOrder
<1>15. PubOK(r)
  BY <1>2, <1>8, NoPublication
<1> QED  BY <1>3, <1>6, <1>7, <1>12, <1>13, <1>14, <1>15, OneRun

-----------------------------------------------------------------------------
(* Steps that are not of a run.                                            *)

LEMMA ElsewhereStep ==
    ASSUME Inv, SubStep, \A t \in Runs : SubSame(t),
           stage' = stage, failures' = failures, forwarder' = forwarder, carried' = carried,
           stream' = stream, result' = result, doneClosed' = doneClosed,
           eventsClosed' = eventsClosed, ctxDone' = ctxDone, lost' = lost
    PROVE  StepOK
<1>1. HandleType'
  BY DEF Inv, HandleType
<1> SUFFICES ASSUME NEW t \in Runs
             PROVE  LocalInv(t)' /\ Stable(t) /\ PubOK(t) /\ InOrder(t)
  BY <1>1 DEF StepOK
<1>2. HandleSame(t) /\ SubSame(t) /\ LocalInv(t) /\ SubInv
  BY DEF Inv, HandleSame
<1>3. LocalInv(t)'
  BY <1>2, Frame
<1>4. Stable(t) /\ InOrder(t)
  BY <1>2 DEF Stable, InOrder, HandleSame, SubSame, Finished
<1>5. PubOK(t)
  BY <1>2, NoPublication DEF SubSame
<1> QED  BY <1>3, <1>4, <1>5

LEMMA FanOutSteps ==
    ASSUME Inv, FanOutStep
    PROVE  StepOK
<1>1. FanOut /\ UNCHANGED handleVars /\ SubInv
  BY DEF FanOutStep, Inv
<1>2. SubStep
  BY <1>1 DEF FanOut, SubStep
<1>3. ASSUME NEW t \in Runs
      PROVE  SubSame(t)
  <2>1. CASE \E s \in Subs : RunMoves(s) \/ RunEnds(s)
    BY <2>1 DEF RunMoves, RunEnds, SubSame, Publishing
  <2>2. ASSUME NEW p \in Publishers, Send(p)
        PROVE  SubSame(t)
    <3>1. Publishing(p) /\ Sent(p) /\ count' = count /\ got' = got /\ ended' = ended
          /\ subscribers' = subscribers
      BY <2>2 DEF Send
    <3>2. t # p => publishing'[t] = publishing[t]
      BY <1>1, <3>1, RunsAre DEF Sent, SubInv, SubType
    <3> QED  BY <3>1, <3>2 DEF SubSame, Publishing
  <2> QED  BY <1>1, <2>1, <2>2 DEF FanOut
<1> QED  BY <1>1, <1>2, <1>3, ElsewhereStep DEF handleVars

LEMMA BackgroundStep ==
    ASSUME Inv, PublishRuntimeEvent
    PROVE  StepOK
<1>1. Background \in Publishers /\ Background \notin Runs /\ SubInv /\ "emitted" \in AllKinds
  BY RunAssumption DEF Inv, AllKinds
<1>2. PublishNext(Background, "emitted")
  BY DEF PublishRuntimeEvent, PublishNext
<1>3. SubStep
  BY <1>1, <1>2 DEF SubStep
<1>4. ASSUME NEW t \in Runs
      PROVE  SubSame(t)
  <2>1. t \in Publishers /\ t # Background
    BY <1>1, RunsAre
  <2>2. count'[t] = count[t] /\ publishing'[t] = publishing[t]
    BY <1>1, <1>2, <2>1, PublishStep
  <2> QED  BY <1>2, <2>2 DEF PublishNext, Publish, SubSame, Publishing
<1> QED  BY <1>3, <1>4, ElsewhereStep DEF PublishRuntimeEvent

LEMMA ObserverSteps ==
    ASSUME Inv, NEW o \in Observers,
           ObserverSubscribes(o) \/ ObserverReceives(o) \/ ObserverCancels(o)
    PROVE  StepOK
<1>1. o \in Subs /\ o \notin Runs /\ SubInv
  BY RunAssumption DEF Inv
<1>2. UNCHANGED handleVars /\ (Subscribe(o) \/ Receive(o) \/ Abandon(o))
  BY DEF ObserverSubscribes, ObserverReceives, ObserverCancels
<1>3. SubStep
  BY <1>1, <1>2 DEF SubStep
<1>4. ASSUME NEW t \in Runs
      PROVE  SubSame(t)
  <2>0. t \in Subs /\ t \in Publishers /\ t # o /\ SubType
    BY <1>1, RunsAre DEF SubInv
  <2>1. CASE Subscribe(o)
    BY <1>1, <2>0, <2>1 DEF Subscribe, SubSame, Publishing, SubType
  <2>2. CASE Abandon(o)
    BY <1>1, <2>0, <2>2 DEF Abandon, Cancel, SubSame, Publishing, SubType
  <2>3. CASE Receive(o)
    <3>1. got'[t][t] = got[t][t]
      BY <1>1, <2>0, <2>3, ReceiveStep
    <3> QED  BY <2>0, <2>3, <3>1 DEF Receive, SubSame, Publishing
  <2> QED  BY <1>2, <2>1, <2>2, <2>3
<1> QED  BY <1>2, <1>3, <1>4, ElsewhereStep DEF handleVars

LEMMA NextStepOK ==
    ASSUME Inv, [Next]_vars
    PROVE  StepOK
<1>1. ASSUME NEW r \in Runs, Execute(r)
      PROVE  StepOK
  <2>1. CASE GraceExpires(r) \/ CancelSubscription(r)
    <3>1. CASE GraceExpires(r)
      BY <3>1, CancelsStep DEF GraceExpires, Stage, CancelOnly, Cancel
    <3>2. CASE CancelSubscription(r)
      BY <3>2, CancelsStep DEF CancelSubscription, Stage, CancelOnly, Cancel, Rest
    <3> QED  BY <2>1, <3>1, <3>2
  <2> QED  BY <1>1, <2>1, ExecuteSubscribesStep, HandlerSteps, SetResultStep, CloseDoneStep,
              FailEmitsStep, CloseEventsStep DEF Execute
<1>2. ASSUME NEW r \in Runs, Forward(r)
      PROVE  StepOK
  BY <1>2, ForwardTakesStep, ForwardStopsStep, ForwardsStep DEF Forward
<1>3. ASSUME NEW r \in Runs, ContextEnds(r)
      PROVE  StepOK
  BY <1>3, CancelsStep DEF ContextEnds, CancelOnly, Cancel
<1>4. ASSUME UNCHANGED subVars, stage' = stage, failures' = failures, forwarder' = forwarder,
             carried' = carried, stream' = stream, result' = result, doneClosed' = doneClosed,
             eventsClosed' = eventsClosed, ctxDone' = ctxDone, lost' = lost
      PROVE  StepOK
  <2>1. SubStep /\ \A t \in Runs : SubSame(t)
    BY <1>4 DEF SubStep, subVars, SubSame, Publishing
  <2> QED  BY <1>4, <2>1, ElsewhereStep
<1>5. ASSUME NEW r \in Runs, ReadEvent(r)
      PROVE  StepOK
  BY <1>4, <1>5 DEF ReadEvent
<1>6. ASSUME UNCHANGED vars
      PROVE  StepOK
  BY <1>4, <1>6 DEF vars, handleVars
<1> QED  BY <1>1, <1>2, <1>3, <1>5, <1>6, FanOutSteps, BackgroundStep, ObserverSteps DEF Next

(* Where the pending events of a client come from.                         *)
LEMMA PendingOrigin ==
    ASSUME SubInv, SubStep, NEW t \in Runs
    PROVE  \A i \in DOMAIN Pending(t)' : Pending(t)'[i].by = t =>
              \/ \E j \in DOMAIN Pending(t) : Pending(t)[j] = Pending(t)'[i]
              \/ Publishing(t) /\ publishing[t].event = Pending(t)'[i]
<1> DEFINE Goal == \A i \in DOMAIN Pending(t)' : Pending(t)'[i].by = t =>
                      \/ \E j \in DOMAIN Pending(t) : Pending(t)[j] = Pending(t)'[i]
                      \/ Publishing(t) /\ publishing[t].event = Pending(t)'[i]
<1>0. t \in Subs /\ SubType /\ InPublication /\ Pending(t) \in Seq(Events)
      /\ ch[t] \in Seq(Events) /\ queue[t] \in Seq(Events)
  BY RunsAre, PendingType DEF SubInv
<1>1. ASSUME Pending(t)' = Pending(t)
      PROVE  Goal
  BY <1>1
<1>2. ASSUME NEW s \in Subs, Subscribe(s) \/ CancelOnly(s)
      PROVE  Goal
  BY <1>1, <1>2 DEF Subscribe, CancelOnly, Pending
<1>3. ASSUME NEW s \in Subs, Abandon(s)
      PROVE  Goal
  <2>1. CASE s = t
    <3>1. ch'[t] = << >> /\ queue'[t] = << >>
      BY <1>0, <1>3, <2>1 DEF Abandon, SubType
    <3>2. Pending(t)' = << >>
      BY <3>1 DEF Pending
    <3> QED  BY <3>2
  <2>2. CASE s # t
    BY <1>0, <1>1, <1>3, <2>2 DEF Abandon, SubType, Pending
  <2> QED  BY <2>1, <2>2
<1>4. ASSUME NEW s \in Subs, Receive(s)
      PROVE  Goal
  <2>1. CASE s = t
    <3>1. ch[t] # << >> /\ ch'[t] = Tail(ch[t]) /\ queue'[t] = queue[t]
      BY <1>0, <1>4, <2>1 DEF Receive, SubType
    <3>2. Pending(t)' = Tail(Pending(t)) /\ Pending(t) # << >>
      BY <1>0, <3>1, TailFirst DEF Pending
    <3>3. \A i \in DOMAIN Tail(Pending(t)) : /\ i + 1 \in DOMAIN Pending(t)
                                             /\ Tail(Pending(t))[i] = Pending(t)[i + 1]
      BY <1>0, <3>2, TailFacts
    <3> QED  BY <3>2, <3>3
  <2>2. CASE s # t
    BY <1>0, <1>1, <1>4, <2>2 DEF Receive, SubType, Pending
  <2> QED  BY <2>1, <2>2
<1>5. ASSUME NEW s \in Subs, RunMoves(s)
      PROVE  Goal
  <2>1. CASE s = t
    <3>1. queue[t] # << >> /\ ch'[t] = Append(ch[t], Head(queue[t])) /\ queue'[t] = Tail(queue[t])
      BY <1>0, <1>5, <2>1 DEF RunMoves, SubType
    <3>2. Pending(t)' = Pending(t)
      BY <1>0, <3>1, MoveOn DEF Pending
    <3> QED  BY <1>1, <3>2
  <2>2. CASE s # t
    BY <1>0, <1>1, <1>5, <2>2 DEF RunMoves, SubType, Pending
  <2> QED  BY <2>1, <2>2
<1>6. ASSUME NEW s \in Subs, RunEnds(s)
      PROVE  Goal
  <2>1. CASE s = t
    <3>1. ch'[t] = ch[t] /\ queue'[t] = << >>
      BY <1>0, <1>6, <2>1 DEF RunEnds, SubType
    <3>2. Pending(t)' = ch[t]
      BY <1>0, <3>1, NoQueue DEF Pending
    <3>3. \A i \in DOMAIN ch[t] : i \in DOMAIN Pending(t) /\ Pending(t)[i] = ch[t][i]
      <4>1. \A c, q \in Seq(Events) : \A i \in DOMAIN c : i \in DOMAIN (c \o q) /\ (c \o q)[i] = c[i]
        OBVIOUS
      <4> QED  BY <1>0, <4>1 DEF Pending
    <3> QED  BY <3>2, <3>3
  <2>2. CASE s # t
    BY <1>0, <1>1, <1>6, <2>2 DEF RunEnds, SubType, Pending
  <2> QED  BY <2>1, <2>2
<1>7. ASSUME NEW p \in Publishers, Send(p)
      PROVE  Goal
  <2>0. PICK s, e : s = Head(publishing[p].left) /\ e = publishing[p].event
    OBVIOUS
  <2>1. /\ Publishing(p) /\ ch' = ch
        /\ queue' = [queue EXCEPT ![s] = Append(queue[s], e)] \/ queue' = queue
    BY <1>0, <1>7, <2>0 DEF Send, SubType
  <2>2. e \in Events /\ e.by = p
    BY <2>0, <2>1, <1>0 DEF InPublication
  <2>3. CASE s = t /\ queue' = [queue EXCEPT ![s] = Append(queue[s], e)]
    <3>1. queue'[t] = Append(queue[t], e)
      BY <1>0, <2>3 DEF SubType
    <3>2. Pending(t)' = Append(Pending(t), e)
      <4>1. \A c, q \in Seq(Events), x \in Events : c \o Append(q, x) = Append(c \o q, x)
        BY AppendLast
      <4>2. ch[t] \o Append(queue[t], e) = Append(ch[t] \o queue[t], e)
        BY <1>0, <2>2, <4>1, Zenon
      <4> QED  BY <2>1, <3>1, <4>2 DEF Pending
    <3>3. \A i \in DOMAIN Append(Pending(t), e) :
             \/ i \in DOMAIN Pending(t) /\ Append(Pending(t), e)[i] = Pending(t)[i]
             \/ Append(Pending(t), e)[i] = e
      BY <1>0, <2>2
    <3> QED  BY <2>0, <2>1, <2>2, <3>2, <3>3
  <2>4. CASE s # t \/ queue' = queue
    <3>1. queue'[t] = queue[t]
      BY <1>0, <2>1, <2>4 DEF SubType
    <3> QED  BY <1>1, <2>1, <3>1 DEF Pending
  <2> QED  BY <2>1, <2>3, <2>4
<1>8. ASSUME NEW p \in Publishers, NEW k, PublishNext(p, k)
      PROVE  Goal
  BY <1>1, <1>8 DEF PublishNext, Publish, Pending
<1>9. ASSUME UNCHANGED subVars
      PROVE  Goal
  BY <1>1, <1>9 DEF subVars, Pending
<1> HIDE DEF Goal
<1>10. Goal
  BY <1>2, <1>3, <1>4, <1>5, <1>6, <1>7, <1>8, <1>9 DEF SubStep
<1> QED  BY <1>10 DEF Goal

(* Where the event a publisher sends comes from.                           *)
LEMMA PublishingOrigin ==
    ASSUME SubInv, SubStep, NEW t \in Runs, Publishing(t)'
    PROVE  \/ Publishing(t) /\ publishing'[t].event = publishing[t].event
           \/ \E k \in AllKinds : /\ PublishNext(t, k)
                                  /\ publishing'[t].event = Event(t, count[t] + 1, k)
<1>0. t \in Publishers /\ SubType /\ InPublication
  BY RunsAre DEF SubInv
<1>1. CASE publishing' = publishing
  BY <1>1 DEF Publishing
<1>2. ASSUME NEW p \in Publishers, Send(p)
      PROVE  Publishing(t) /\ publishing'[t].event = publishing[t].event
  <2>1. Publishing(p) /\ Sent(p)
    BY <1>2 DEF Send
  <2>2. CASE p # t
    BY <1>0, <2>1, <2>2 DEF Sent, SubType, Publishing
  <2>3. CASE p = t
    <3>1. publishing'[t] = IF Len(publishing[t].left) = 1 THEN Idle
                           ELSE [event |-> publishing[t].event, left |-> Tail(publishing[t].left)]
      BY <1>0, <2>1, <2>3 DEF Sent, SubType
    <3>2. Idle.left = << >>
      BY DEF Idle
    <3> QED  BY <2>1, <2>3, <3>1, <3>2 DEF Publishing
  <2> QED  BY <2>2, <2>3
<1>3. ASSUME NEW p \in Publishers, NEW k \in AllKinds, PublishNext(p, k), p # t
      PROVE  publishing'[t] = publishing[t]
  BY <1>0, <1>3, PublishStep
<1>4. ASSUME NEW k \in AllKinds, PublishNext(t, k)
      PROVE  publishing'[t].event = Event(t, count[t] + 1, k)
  BY <1>0, <1>4, PublishStep
<1>5. \/ publishing' = publishing \/ \E p \in Publishers : Send(p)
      \/ \E p \in Publishers : \E k \in AllKinds : PublishNext(p, k)
  BY DEF SubStep, Subscribe, CancelOnly, Abandon, Receive, RunMoves, RunEnds, subVars
<1> QED  BY <1>1, <1>2, <1>3, <1>4, <1>5 DEF Publishing

(* Terminal events keep telling the truth on their way.                    *)
LEMMA KindStep ==
    ASSUME SubInv, SubStep, NEW t \in Runs, KindsOK(t), Stable(t), PubOK(t)
    PROVE  KindsOK(t)'
<1>1. \A e : KindOK(t, e) => KindOK(t, e)'
  BY DEF KindOK, Stable
<1>2. ASSUME NEW i \in DOMAIN Pending(t)', Pending(t)'[i].by = t
      PROVE  KindOK(t, Pending(t)[i])'
  <2>1. PICK e : e = Pending(t)'[i]
    OBVIOUS
  <2>2. KindOK(t, e)
    BY <1>2, <2>1, PendingOrigin DEF KindsOK
  <2>3. KindOK(t, e)'
    BY <1>1, <2>2
  <2> QED  BY <2>1, <2>3
<1>3. ASSUME Publishing(t)'
      PROVE  KindOK(t, publishing[t].event)'
  <2>1. PICK e : e = publishing'[t].event
    OBVIOUS
  <2>2. CASE Publishing(t) /\ e = publishing[t].event
    <3>1. KindOK(t, e)'
      BY <1>1, <2>2 DEF KindsOK
    <3> QED  BY <2>1, <3>1
  <2>3. ASSUME NEW k \in AllKinds, PublishNext(t, k), e = Event(t, count[t] + 1, k)
        PROVE  KindOK(t, publishing[t].event)'
    <3>1. PICK n \in Nat : n = count[t] + 1
      BY NumbersAre
    <3>2. KindOK(t, Event(t, n, k))' /\ e = Event(t, n, k)
      BY <1>3, <2>3, <3>1 DEF PubOK
    <3> QED  BY <2>1, <3>2
  <2> QED  BY <1>3, <2>1, <2>2, <2>3, PublishingOrigin
<1> QED  BY <1>2, <1>3 DEF KindsOK

LEMMA InitInv ==
    ASSUME Init
    PROVE  Inv
<1>1. SubInv /\ SubInit
  BY InitSub DEF Init
<1>2. ASSUME NEW r \in Runs
      PROVE  /\ stage[r] = "new" /\ ~failures[r] /\ forwarder[r] = "none"
             /\ stream[r] = [size |-> 0, last |-> Event(r, 0, ""), terminal |-> {}]
             /\ result[r] = "none" /\ ~doneClosed[r] /\ ~eventsClosed[r]
  BY DEF Init
<1>3. ASSUME NEW r \in Runs
      PROVE  /\ count[r] = 0 /\ ~Publishing(r) /\ Pending(r) = << >> /\ ~ended[r]
             /\ r \notin subscribers
  <2>1. count[r] = 0 /\ publishing[r].left = << >> /\ ch[r] = << >> /\ queue[r] = << >>
        /\ ~ended[r] /\ subscribers = {}
    BY <1>1, RunsAre DEF SubInit, Idle
  <2> QED  BY <2>1 DEF Pending, Publishing
<1>4. ASSUME NEW r \in Runs
      PROVE  /\ stream[r] \in StreamType
             /\ stream[r].size = 0 /\ stream[r].last.n = 0 /\ stream[r].terminal = {}
  <2>1. r \in Publishers
    BY RunsAre
  <2>2. [size |-> 0, last |-> Event(r, 0, ""), terminal |-> {}] \in StreamType
    BY <2>1 DEF StreamType, Event
  <2>3. Event(r, 0, "").n = 0
    BY DEF Event
  <2>4. stream[r] = [size |-> 0, last |-> Event(r, 0, ""), terminal |-> {}]
    BY <1>2
  <2>5. stream[r].size = 0 /\ stream[r].terminal = {} /\ stream[r].last = Event(r, 0, "")
    <3>1. \A e : /\ [size |-> 0, last |-> e, terminal |-> {}].size = 0
                 /\ [size |-> 0, last |-> e, terminal |-> {}].terminal = {}
                 /\ [size |-> 0, last |-> e, terminal |-> {}].last = e
      OBVIOUS
    <3> QED  BY <2>4, <3>1, Zenon
  <2> QED  BY <2>2, <2>3, <2>4, <2>5
<1>5. HandleType
  <2>1. /\ stage \in [Runs -> Stages] /\ result \in [Runs -> {"none", "ok", "failed"}]
        /\ forwarder \in [Runs -> {"none", "waiting", "emitting", "ended"}]
    BY DEF Init, Stages, Early
  <2>2. carried \in [Runs -> Seq(Events)]
    <3>1. carried = [r \in Runs |-> << >>]
      BY DEF Init
    <3>2. << >> \in Seq(Events)
      OBVIOUS
    <3> QED  BY <3>1, <3>2
  <2>3. stream \in [Runs -> StreamType]
    BY <1>4 DEF Init
  <2>4. /\ failures \in [Runs -> BOOLEAN] /\ doneClosed \in [Runs -> BOOLEAN]
        /\ eventsClosed \in [Runs -> BOOLEAN] /\ ctxDone \in [Runs -> BOOLEAN]
        /\ lost \in [Runs -> BOOLEAN]
    BY DEF Init
  <2> QED  BY <2>1, <2>2, <2>3, <2>4 DEF HandleType
<1>6. ASSUME NEW r \in Runs
      PROVE  LocalInv(r) /\ KindsOK(r)
  <2>1. StageOK(r) /\ FreshOK(r) /\ EndedOK(r) /\ CarriedOK(r)
    BY <1>2, <1>3, <1>4 DEF StageOK, FreshOK, EndedOK, CarriedOK, Early
  <2>2. FailuresOK(r) /\ TermOK(r)
    BY <1>2, <1>4 DEF FailuresOK, TermOK
  <2>3. OrderOK(r) /\ SizeOK(r)
    <3>1. forwarder[r] = "none" /\ stream[r].last.n = 0 /\ count[r] = 0
      BY <1>2, <1>3, <1>4
    <3> QED  BY <3>1 DEF OrderOK, SizeOK
  <2>4. KindsOK(r)
    <3>1. Pending(r) = << >> /\ ~Publishing(r)
      BY <1>3
    <3>2. DOMAIN << >> = {}
      OBVIOUS
    <3> QED  BY <3>1, <3>2 DEF KindsOK
  <2> QED  BY <2>1, <2>2, <2>3, <2>4 DEF LocalInv
<1> QED  BY <1>1, <1>5, <1>6 DEF Inv

LEMMA InvInductive ==
    ASSUME Inv, [Next]_vars
    PROVE  Inv'
<1>1. StepOK /\ SubInv /\ \A t \in Runs : KindsOK(t)
  BY NextStepOK DEF Inv
<1>2. SubInv'
  BY <1>1, SubInductive DEF StepOK
<1>3. \A t \in Runs : KindsOK(t)'
  BY <1>1, KindStep DEF StepOK
<1> QED  BY <1>1, <1>2, <1>3 DEF Inv, StepOK

-----------------------------------------------------------------------------
(* The inductive invariant of the fan-out and the run handles holds.       *)
THEOREM Invariance == Spec => []Inv
<1>1. Init => Inv
  BY InitInv
<1>2. Inv /\ [Next]_vars => Inv'
  BY InvInductive
<1> QED  BY <1>1, <1>2, PTL DEF Spec

(* Subscribers are lossless while they are active: the events of every     *)
(* publisher reach the client in the order of publication and none is      *)
(* missing, for any number of publishers, subscriptions and runs and any   *)
(* buffer (harness publish, subscriber.send, subscriber.run).              *)
THEOREM FanOutIsLossless == Spec => []LosslessInOrder
<1>1. Inv => LosslessInOrder
  BY SubLossless DEF Inv
<1> QED  BY <1>1, Invariance, PTL

(* Nobody sends on the events channel of a handle once it is closed, and   *)
(* the subscription of the run is gone by then (runHandle.execute,         *)
(* forwardRunEvents).                                                      *)
THEOREM NoSenderAfterClose == Spec => []NoEmitAfterClose
<1>1. Inv => NoEmitAfterClose
  BY DEF Inv, LocalInv, EndedOK, NoEmitAfterClose
<1> QED  BY <1>1, Invariance, PTL

LEMMA StreamTruth ==
    ASSUME Inv
    PROVE  TerminalAgrees /\ StreamIsComplete
<1>1. ASSUME NEW r \in Runs
      PROVE  /\ Finished(r) => result[r] # "failed"
             /\ failures[r] => result[r] # "ok"
  BY DEF Inv, LocalInv, StageOK, FailuresOK, Finished, Early
<1>2. TerminalAgrees
  BY <1>1 DEF Inv, LocalInv, TermOK, TerminalAgrees
<1>3. StreamIsComplete
  BY <1>1 DEF Inv, LocalInv, EndedOK, SizeOK, StreamIsComplete
<1> QED  BY <1>2, <1>3

(* What the client of a run reads is what the run did: its own events in   *)
(* the order of publication, all of them when the run succeeded and        *)
(* nothing was given up, and terminal events that agree with the result    *)
(* (forwardRunEvents, runHandle.emit, runHandle.fail).                     *)
THEOREM StreamCorrect == Spec => StreamIsFaithful
<1>1. Inv /\ [Next]_vars => [StreamInOrder /\ TerminalAgrees' /\ StreamIsComplete']_vars
  <2> SUFFICES ASSUME Inv, [Next]_vars
               PROVE  StreamInOrder /\ TerminalAgrees' /\ StreamIsComplete'
    OBVIOUS
  <2>1. StepOK /\ Inv'
    BY NextStepOK, InvInductive
  <2>2. StreamInOrder
    BY <2>1 DEF StepOK, InOrder, StreamInOrder
  <2>3. TerminalAgrees' /\ StreamIsComplete'
    BY <2>1, StreamTruth, PTL
  <2> QED  BY <2>2, <2>3
<1> QED  BY <1>1, Invariance, PTL DEF Spec, StreamIsFaithful

-----------------------------------------------------------------------------
(* The contract of a handle.                                               *)

LEMMA ContractStep ==
    ASSUME Inv, [Next]_vars
    PROVE  [Contract!Next]_(Contract!contractVars)
<1> USE DEF Contract!contractVars
<1>0. HandleType /\ \A r \in Runs : StageOK(r)
  BY DEF Inv, LocalInv
<1>1. ASSUME NEW r \in Runs, stage[r] \in {"call", "agent", "session", "returned"},
             NEW k \in {"ok", "failed"}, result' = [result EXCEPT ![r] = k],
             UNCHANGED <<doneClosed, eventsClosed>>
      PROVE  Contract!Next
  <2>1. result[r] = "none"
    BY <1>0, <1>1 DEF StageOK, Early
  <2>2. Contract!SetResult(r, k)
    BY <1>1, <2>1 DEF Contract!SetResult
  <2> QED  BY <2>2 DEF Contract!Next
<1>2. ASSUME NEW r \in Runs, stage[r] \in {"succeeded", "closing"},
             doneClosed' = [doneClosed EXCEPT ![r] = TRUE], UNCHANGED <<result, eventsClosed>>
      PROVE  Contract!Next
  <2>1. result[r] # "none" /\ ~doneClosed[r]
    BY <1>0, <1>2 DEF StageOK
  <2>2. Contract!CloseDone(r)
    BY <1>2, <2>1 DEF Contract!CloseDone
  <2> QED  BY <2>2 DEF Contract!Next
<1>3. ASSUME NEW r \in Runs, stage[r] \in {"draining", "cancelled"},
             eventsClosed' = [eventsClosed EXCEPT ![r] = TRUE], UNCHANGED <<result, doneClosed>>
      PROVE  Contract!Next
  <2>1. result[r] # "none" /\ ~eventsClosed[r]
    BY <1>0, <1>3 DEF StageOK
  <2>2. Contract!CloseEvents(r)
    BY <1>3, <2>1 DEF Contract!CloseEvents
  <2> QED  BY <2>2 DEF Contract!Next
<1>4. CASE UNCHANGED <<result, doneClosed, eventsClosed>>
  BY <1>4
<1>5. ASSUME NEW r \in Runs, NEW from \in {"call", "agent", "session"},
             Stage(r, from, "failing"), Fail(r)
      PROVE  Contract!Next
  BY <1>1, <1>5 DEF Stage, Fail
<1>6. ASSUME NEW r \in Runs, Handler(r)
      PROVE  Contract!Next \/ UNCHANGED <<result, doneClosed, eventsClosed>>
  BY <1>5, <1>6 DEF Handler, HandleSessionInbound_Refuses, Received, agentForSession, EmitEvent,
        PersistenceFails, SessionFailed, handleInput, handleCommand, handleTrigger,
        HandlerPublishes, handleOperation, Outbound, Completed, Rest
<1>7. ASSUME NEW r \in Runs, Execute(r)
      PROVE  Contract!Next \/ UNCHANGED <<result, doneClosed, eventsClosed>>
  <2>1. CASE SetResult(r)
    BY <1>1, <2>1 DEF SetResult, Stage
  <2>2. CASE CloseDone(r, "succeeded", "draining") \/ CloseDone(r, "closing", "over")
    BY <1>2, <2>2 DEF CloseDone, Stage
  <2>3. CASE CloseEvents(r)
    BY <1>3, <2>3 DEF CloseEvents, Stage
  <2>4. CASE ExecuteSubscribes(r) \/ GraceExpires(r) \/ FailEmits(r) \/ CancelSubscription(r)
    BY <2>4 DEF ExecuteSubscribes, GraceExpires, FailEmits, CancelSubscription, Rest
  <2> QED  BY <1>6, <1>7, <2>1, <2>2, <2>3, <2>4 DEF Execute
<1>8. CASE UNCHANGED handleVars
  BY <1>8 DEF handleVars
<1>9. ASSUME NEW r \in Runs, Forward(r) \/ ReadEvent(r) \/ ContextEnds(r)
      PROVE  UNCHANGED <<result, doneClosed, eventsClosed>>
  BY <1>9 DEF Forward, ForwardTakes, ForwardStops, ForwardEmits, ForwardTimesOut, ReadEvent,
        ContextEnds
<1>10. CASE PublishRuntimeEvent
  BY <1>10 DEF PublishRuntimeEvent
<1>11. CASE FanOutStep \/ \E o \in Observers : \/ ObserverSubscribes(o) \/ ObserverReceives(o)
                                               \/ ObserverCancels(o)
  BY <1>8, <1>11 DEF FanOutStep, ObserverSubscribes, ObserverReceives, ObserverCancels
<1>12. CASE UNCHANGED vars
  BY <1>8, <1>12 DEF vars
<1> QED  BY <1>4, <1>7, <1>9, <1>10, <1>11, <1>12 DEF Next

(* A run handle implements RunContract: the result is set once, Done and   *)
(* Events are closed once each and only when the result is there           *)
(* (clientapi.RunHandle, runHandle.execute).                               *)
THEOREM HandleImplementsContract == Spec => ImplementsContract
<1>1. Init => Contract!Init
  BY DEF Init, Contract!Init
<1>2. Inv /\ [Next]_vars => [Contract!Next]_(Contract!contractVars)
  BY ContractStep
<1> QED  BY <1>1, <1>2, Invariance, PTL DEF Spec, ImplementsContract, Contract!Spec
=============================================================================
