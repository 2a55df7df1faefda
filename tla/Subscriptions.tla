--------------------------- MODULE Subscriptions ---------------------------
(***************************************************************************)
(* Event fan-out of orchestration/harness.  A publisher copies the set of  *)
(* registered subscribers under the lock and then sends to one after the   *)
(* other, waiting for room in the subscriber's queue or for its end.  A    *)
(* goroutine per subscriber moves events from the queue to the channel     *)
(* the client reads.                                                       *)
(***************************************************************************)
EXTENDS Naturals, SequencesExt

CONSTANTS
    Publishers,     \* goroutines that publish
    Subs,           \* subscriptions
    AllSubs,        \* those made by SubscribeAll; publish serves them first
    Buffer          \* EventOptions.Buffer, for the queue and the channel

ASSUME SubscriptionAssumption ==
    Buffer \in Nat \ {0} /\ IsFiniteSet(Subs) /\ AllSubs \subseteq Subs

VARIABLES
    subscribers,    \* Service.subscribers and Service.allSubs
    queue,          \* queue[s]: subscriber.in
    ch,             \* ch[s]: subscriber.ch
    ended,          \* ended[s]: subscriber.done is closed
    chClosed,       \* chClosed[s]: subscriber.run has returned
    publishing,     \* publishing[p]: the event p publishes and whom it must still reach
    count,          \* count[p]: number of events p has begun to publish
    got             \* got[s][p]: the last event of p that the client of s has read

subVars == <<subscribers, queue, ch, ended, chClosed, publishing, count, got>>

(* An event is known by its publisher and number; kind is what clients     *)
(* look at.                                                                *)
Event(p, n, k) == [by |-> p, n |-> n, kind |-> k]
Idle == [event |-> Event("", 0, ""), left |-> << >>]
Publishing(p) == publishing[p].left # << >>

SubInit ==
    /\ subscribers = {}
    /\ queue = [s \in Subs |-> << >>]
    /\ ch = [s \in Subs |-> << >>]
    /\ ended = [s \in Subs |-> FALSE]
    /\ chClosed = [s \in Subs |-> FALSE]
    /\ publishing = [p \in Publishers |-> Idle]
    /\ count = [p \in Publishers |-> 0]
    /\ got = [s \in Subs |-> [p \in Publishers |-> 0]]

(* Subscribe, or SubscribeAll, from the registration on: events whose      *)
(* publication began earlier are not for this subscriber.                  *)
Subscribe(s) ==
    /\ s \notin subscribers /\ ~ended[s]
    /\ subscribers' = subscribers \union {s}
    /\ got' = [got EXCEPT ![s] = count]
    /\ UNCHANGED <<queue, ch, ended, chClosed, publishing, count>>

(* The cancel function, also called when the context of the subscription   *)
(* ends: the subscriber is taken out and closed, once.                     *)
Cancel(s) ==
    /\ subscribers' = subscribers \ {s}
    /\ ended' = [ended EXCEPT ![s] = TRUE]

(* The cancel function when the client reads no more: what is left in its  *)
(* channels is read by nobody.                                             *)
Abandon(s) ==
    /\ Cancel(s)
    /\ queue' = [queue EXCEPT ![s] = << >>]
    /\ ch' = [ch EXCEPT ![s] = << >>]
    /\ chClosed' = [chClosed EXCEPT ![s] = TRUE]
    /\ got' = [got EXCEPT ![s] = [p \in Publishers |-> 0]]
    /\ UNCHANGED <<publishing, count>>

(* The orders in which publish may visit the subscribers of a map.         *)
Orders(S) == UNION {{a \o b : b \in SetToSeqs(S \ AllSubs)} :
                       a \in SetToSeqs(S \intersect AllSubs)}

(* publish: the snapshot of the subscribers.                               *)
Publish(p, k) ==
    /\ count' = [count EXCEPT ![p] = @ + 1]
    /\ \E order \in Orders(subscribers) :
          publishing' = [publishing EXCEPT
              ![p] = IF order = << >> THEN Idle
                     ELSE [event |-> Event(p, count[p] + 1, k), left |-> order]]
    /\ UNCHANGED <<subscribers, queue, ch, ended, chClosed, got>>

Sent(p) ==
    publishing' = [publishing EXCEPT
        ![p] = IF Len(@.left) = 1 THEN Idle ELSE [event |-> @.event, left |-> Tail(@.left)]]

(* Mutant: a full queue loses the event.                                   *)
Send_Drops(p) ==
    /\ Publishing(p)
    /\ LET s == Head(publishing[p].left)
       IN queue' = [queue EXCEPT ![s] = IF Len(@) < Buffer /\ ~ended[s]
                                        THEN Append(@, publishing[p].event) ELSE @]
    /\ Sent(p)
    /\ UNCHANGED <<subscribers, ch, ended, chClosed, count, got>>

(* subscriber.send: into the queue when there is room, or given up because *)
(* the subscriber has ended; both may be possible.  What is put into the   *)
(* queue after subscriber.run has returned is read by nobody.              *)
Send(p) ==
    /\ Publishing(p)
    /\ LET s == Head(publishing[p].left)
       IN \/ /\ Len(queue[s]) < Buffer /\ ~chClosed[s]
             /\ queue' = [queue EXCEPT ![s] = Append(@, publishing[p].event)]
          \/ ended[s] /\ UNCHANGED queue
    /\ Sent(p)
    /\ UNCHANGED <<subscribers, ch, ended, chClosed, count, got>>

(* subscriber.run moves an event on.  The event it holds while the channel *)
(* is full counts as still being in the queue, which has one place less    *)
(* that way.                                                               *)
RunMoves(s) ==
    /\ ~chClosed[s] /\ queue[s] # << >> /\ Len(ch[s]) < Buffer
    /\ ch' = [ch EXCEPT ![s] = Append(@, Head(queue[s]))]
    /\ queue' = [queue EXCEPT ![s] = Tail(@)]
    /\ UNCHANGED <<subscribers, ended, chClosed, publishing, count, got>>

RunEnds(s) ==
    /\ ended[s] /\ ~chClosed[s]
    /\ chClosed' = [chClosed EXCEPT ![s] = TRUE]
    /\ queue' = [queue EXCEPT ![s] = << >>]
    /\ UNCHANGED <<subscribers, ch, ended, publishing, count, got>>

(* The client of s reads.                                                  *)
Receive(s) ==
    /\ ch[s] # << >>
    /\ ch' = [ch EXCEPT ![s] = Tail(@)]
    /\ got' = [got EXCEPT ![s][Head(ch[s]).by] = Head(ch[s]).n]
    /\ UNCHANGED <<subscribers, queue, ended, chClosed, publishing, count>>

FanOut == \/ \E p \in Publishers : Send(p)
          \/ \E s \in Subs : RunMoves(s) \/ RunEnds(s)

-----------------------------------------------------------------------------
(* What is on its way to the client of s, oldest first.                    *)
Pending(s) == ch[s] \o queue[s]
Awaits(p, s) == \E i \in DOMAIN publishing[p].left : publishing[p].left[i] = s
Upto(p, s) == IF Awaits(p, s) THEN count[p] - 1 ELSE count[p]

(* Subscribers are lossless while they are active: the events of every     *)
(* publisher reach the client in order and none is missing, whatever other *)
(* publishers, subscriptions and cancellations do meanwhile.               *)
LosslessInOrder ==
    \A s \in subscribers : \A p \in Publishers :
        LET evs == Pending(s)
            own == {i \in DOMAIN evs : evs[i].by = p}
        IN /\ \A i, j \in own : i < j => evs[i].n < evs[j].n
           /\ {evs[i].n : i \in own} = got[s][p] + 1 .. Upto(p, s)
=============================================================================
