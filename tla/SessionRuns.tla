---------------------------- MODULE SessionRuns ----------------------------
(***************************************************************************)
(* Delegated session runs (orchestration/sessionrun, and                   *)
(* orchestration/sessionagent, which calls it with the policy enforced).   *)
(* Concurrent requests share one Runner: a request is resolved, authorised *)
(* and narrowed, takes one of the slots, opens a child session, submits    *)
(* the input and follows the child's events until they end or its own      *)
(* context does.  The child is a run handle of which only RunContract is   *)
(* assumed: it goes on by itself, also after the request has returned.     *)
(*                                                                         *)
(* The channel of the child is read through an adapter whose Events()      *)
(* starts a goroutine, a fetcher, with a channel of its own at every call; *)
(* Run calls it in every turn of its loop and reads only the newest.       *)
(***************************************************************************)
EXTENDS Integers, Sequences, SequencesExt, FiniteSets

CONSTANTS
    Requests,       \* requests made to one Runner
    Inputs,         \* what a request may carry, see InputType
    Registry,       \* the profiles ResolveProfile knows: name -> spec
    Agents,         \* the operations agents list: name -> set, {} for no list
    Operations,     \* the operations the tools of a session reach
    HasResolver,    \* Config.ResolveProfile is set
    MaxParallel,    \* Config.MaxParallel
    Default,        \* defaultMaxParallel
    FetchBuffer,    \* capacity of a fetcher's channel
    Endless,        \* requests whose child may never end
    MaxEvents       \* bound: MaxEvents[q], events of the child of q

NoName == ""

(***************************************************************************)
(* A request: the profile named or given, the agent, the policy, and       *)
(* whether its context ends some day (a timeout or the caller's own).      *)
(* Operations are a set: they are compared by name, in no order, and are   *)
(* not patterns.  A list that is empty is told from one that is nil:       *)
(* limited is spec.Operations != nil.                                      *)
(***************************************************************************)
SpecType == [name : STRING, agent : STRING, operations : SUBSET STRING, limited : BOOLEAN]
PolicyType == [profiles : Seq(STRING), agents : Seq(STRING), operations : SUBSET STRING,
               maxParallel : Int]
InputType == [session : STRING, profile : SpecType, agent : STRING, enforce : BOOLEAN,
              policy : PolicyType, timed : BOOLEAN]

NoSpec == [name |-> NoName, agent |-> NoName, operations |-> {}, limited |-> FALSE]

ASSUME SessionRunAssumption ==
    /\ IsFiniteSet(Requests) /\ Endless \subseteq Requests
    /\ Inputs \subseteq InputType
    /\ \A n \in DOMAIN Registry : Registry[n] \in SpecType
    /\ Operations \subseteq STRING /\ \A a \in DOMAIN Agents : Agents[a] \subseteq STRING
    /\ MaxParallel \in Int /\ Default \in Nat \ {0}
    /\ FetchBuffer \in Nat /\ MaxEvents \in [Requests -> Nat]

VARIABLES
    at,             \* at[q]: where Run stands
    input,          \* input[q]: the request, once it has a slot
    running,        \* Runner.running
    expired,        \* expired[q]: runCtx has ended
    emitted,        \* emitted[q]: the lifecycle events, in order
    reported,       \* reported[q]: the numbers of the child's events in them
    reply,          \* reply[q]: what Run returned
    opened,         \* opened[q]: the child session is open
    profile,        \* profile[q]: the profile it was opened with
    child,          \* child[q]: the input was submitted, a child run exists
    produced,       \* produced[q]: events the child has sent
    stream,         \* stream[q]: the events nobody has fetched yet
    latest,         \* latest[q]: the events the newest fetcher holds
    stale,          \* stale[q]: how many events each older fetcher holds
    result, doneClosed, eventsClosed    \* the child's run handle

childVars == <<result, doneClosed, eventsClosed>>
feedVars == <<child, produced, stream, latest, stale>>
runVars == <<at, input, running, emitted, reported, reply, opened, profile>>
vars == <<runVars, expired, feedVars, childVars>>

Child == INSTANCE RunContract WITH Runs <- Requests

NoInput == [timed |-> FALSE]

----------------------------------------------------------------------------
(***************************************************************************)
(* Which profile a request means and what it may do with it.               *)
(***************************************************************************)
FirstName(names) == LET named == SelectSeq(names, LAMBDA n : n # NoName)
                    IN  IF named = <<>> THEN NoName ELSE Head(named)

\* resolveProfileSpec: the error, or the spec and whether it was resolved
resolveProfileSpec(policy, name, required) ==
    IF ~HasResolver
    THEN [ok |-> ~(required /\ (policy.agents # <<>> \/ policy.operations # {})),
          name |-> name, spec |-> NoSpec, resolved |-> FALSE]
    ELSE IF name \in DOMAIN Registry
         THEN [ok |-> TRUE, name |-> name, spec |-> Registry[name], resolved |-> TRUE]
         ELSE [ok |-> ~required, name |-> name, spec |-> NoSpec, resolved |-> FALSE]

resolveProfile(i) ==
    LET given(name, spec) == [ok |-> TRUE, name |-> name, spec |-> spec, resolved |-> TRUE]
        named == FirstName(<<i.session, i.profile.name, i.agent>>)
    IN  CASE i.agent # NoName ->
                given(named, [i.profile EXCEPT !.name = FirstName(<<i.profile.name, named>>),
                                               !.agent = i.agent])
          [] i.agent = NoName /\ i.profile.name # NoName -> given(named, i.profile)
          [] i.agent = NoName /\ i.profile.name = NoName /\ i.session # NoName ->
                resolveProfileSpec(i.policy, i.session, i.enforce)
          [] OTHER ->
                IF i.enforce /\ Len(i.policy.profiles) = 1
                THEN resolveProfileSpec(i.policy, i.policy.profiles[1], TRUE)
                ELSE [ok |-> FALSE, name |-> NoName, spec |-> NoSpec, resolved |-> FALSE]

authorizeProfile(i, name) ==
    IF i.agent # NoName
    THEN i.policy.agents = <<>> \/ Contains(i.policy.agents, i.agent)
    ELSE name # NoName /\ Contains(i.policy.profiles, name)

authorizeAgent(i, p) ==
    \/ ~i.enforce
    \/ i.policy.agents = <<>>
    \/ p.spec.agent # NoName /\ Contains(i.policy.agents, p.spec.agent)

narrow_Union(base, policy) == base \union policy

\* narrowOperationRefs, and narrowContextRefs and narrowCommandPaths alike
narrow(base, policy) ==
    CASE policy = {} -> base
      [] policy # {} /\ base = {} -> policy
      [] OTHER -> base \intersect policy

narrowProfile(i, p) ==
    LET spec == IF p.resolved THEN p.spec ELSE NoSpec
    IN  [spec EXCEPT !.name = FirstName(<<spec.name, p.name>>),
                     !.operations = narrow(spec.operations, i.policy.operations),
                     !.limited = spec.operations # {} \/ i.policy.operations # {}]

Permitted(i) == LET p == resolveProfile(i)
                IN  /\ p.ok
                    /\ i.enforce => authorizeProfile(i, p.name)
                    /\ authorizeAgent(i, p)

effectiveProfile(i) == LET p == resolveProfile(i)
                       IN  IF i.enforce THEN narrowProfile(i, p) ELSE p.spec

(***************************************************************************)
(* What the child makes of its profile: ApplySessionProfile narrows the    *)
(* list of the agent, and FilterTools takes an empty list for none.  The   *)
(* agent has no list of tools, and neither it, the profile nor the policy  *)
(* one of commands.                                                        *)
(***************************************************************************)
agentOperations(a) == IF a \in DOMAIN Agents THEN Agents[a] ELSE {}

ApplySessionProfile(base, spec) ==
    CASE ~spec.limited -> base
      [] spec.limited /\ base = {} -> spec.operations
      [] OTHER -> base \intersect spec.operations

FilterTools(ops) == IF ops = {} THEN Operations ELSE Operations \intersect ops

Reachable(spec) == FilterTools(ApplySessionProfile(agentOperations(spec.agent), spec))

limit == IF MaxParallel <= 0 THEN Default ELSE MaxParallel

Allowance(i) == IF i.policy.maxParallel > 0 /\ i.policy.maxParallel < limit
                THEN i.policy.maxParallel
                ELSE limit

----------------------------------------------------------------------------
Init ==
    /\ at = [q \in Requests |-> "idle"]
    /\ input = [q \in Requests |-> NoInput]
    /\ running = 0
    /\ expired = [q \in Requests |-> FALSE]
    /\ emitted = [q \in Requests |-> <<>>]
    /\ reported = [q \in Requests |-> <<>>]
    /\ reply = [q \in Requests |-> "none"]
    /\ opened = [q \in Requests |-> FALSE]
    /\ profile = [q \in Requests |-> NoSpec]
    /\ child = [q \in Requests |-> FALSE]
    /\ produced = [q \in Requests |-> 0]
    /\ stream = [q \in Requests |-> <<>>]
    /\ latest = [q \in Requests |-> <<>>]
    /\ stale = [q \in Requests |-> <<>>]
    /\ Child!Init

Goto(q, place) == at' = [at EXCEPT ![q] = place]
Emit(q, e) == emitted' = [emitted EXCEPT ![q] = Append(@, e)]

\* The error return before a slot is taken: no event, nothing to undo
Refuse(q, i) ==
    /\ at[q] = "idle" /\ ~Permitted(i)
    /\ reply' = [reply EXCEPT ![q] = "refused"]
    /\ Goto(q, "returned")
    /\ UNCHANGED <<input, running, emitted, reported, opened, profile, expired, feedVars, childVars>>

AtCapacity(q, i) ==
    /\ at[q] = "idle" /\ Permitted(i) /\ running >= Allowance(i)
    /\ reply' = [reply EXCEPT ![q] = "at_capacity"]
    /\ Goto(q, "returned")
    /\ UNCHANGED <<input, running, emitted, reported, opened, profile, expired, feedVars, childVars>>

acquire(q, i) ==
    /\ at[q] = "idle" /\ Permitted(i) /\ running < Allowance(i)
    /\ running' = running + 1
    /\ input' = [input EXCEPT ![q] = i]
    /\ Emit(q, "requested")
    /\ Goto(q, "open")
    /\ UNCHANGED <<reported, reply, opened, profile, expired, feedVars, childVars>>

Conclude_Returned(q, e) ==
    /\ Emit(q, e)
    /\ reply' = [reply EXCEPT ![q] = e]
    /\ Goto(q, IF opened[q] THEN "close" ELSE "returned")
    /\ UNCHANGED <<input, running, reported, opened, profile>>

(***************************************************************************)
(* A terminal event and the return value that goes with it; the deferred   *)
(* calls follow.                                                           *)
(***************************************************************************)
Conclude(q, e) ==
    /\ Emit(q, e)
    /\ reply' = [reply EXCEPT ![q] = e]
    /\ Goto(q, IF opened[q] THEN "close" ELSE "release")
    /\ UNCHANGED <<input, running, reported, opened, profile>>

OpenFails(q) ==
    /\ at[q] = "open"
    /\ Conclude(q, "failed")
    /\ UNCHANGED <<expired, feedVars, childVars>>

Open(q) ==
    /\ at[q] = "open"
    /\ opened' = [opened EXCEPT ![q] = TRUE]
    /\ profile' = [profile EXCEPT ![q] = effectiveProfile(input[q])]
    /\ Emit(q, "started")
    /\ Goto(q, "send")
    /\ UNCHANGED <<input, running, reported, reply, expired, feedVars, childVars>>

SendFails(q) ==
    /\ at[q] = "send"
    /\ Conclude(q, "failed")
    /\ UNCHANGED <<expired, feedVars, childVars>>

SendInput(q) ==
    /\ at[q] = "send"
    /\ child' = [child EXCEPT ![q] = TRUE]
    /\ Goto(q, "loop")
    /\ UNCHANGED <<input, running, emitted, reported, reply, opened, profile, expired, produced,
                   stream, latest, stale, childVars>>

----------------------------------------------------------------------------
(***************************************************************************)
(* The loop.  The operands of the select are evaluated first: Events() is  *)
(* called and a new fetcher started, whatever case is then taken.          *)
(***************************************************************************)
CallEvents(q) ==
    /\ at[q] = "loop"
    /\ Goto(q, "select")
    /\ UNCHANGED <<input, running, emitted, reported, reply, opened, profile, expired, feedVars,
                   childVars>>

\* The newest fetcher's channel is closed: its loop has ended and all was read
FeedEnded(q) == latest[q] = <<>> /\ stream[q] = <<>> /\ eventsClosed[q]

SelectEvent(q) ==
    /\ at[q] = "select" /\ latest[q] # <<>>
    /\ Emit(q, "progressed")
    /\ reported' = [reported EXCEPT ![q] = Append(@, Head(latest[q]))]
    /\ stale' = [stale EXCEPT ![q] = Append(@, Len(latest[q]) - 1)]
    /\ latest' = [latest EXCEPT ![q] = <<>>]
    /\ Goto(q, "loop")
    /\ UNCHANGED <<input, running, reply, opened, profile, expired, child, produced, stream, childVars>>

\* progressMessage is empty: the event is consumed and nothing emitted
SelectSilentEvent(q) ==
    /\ at[q] = "select" /\ latest[q] # <<>>
    /\ stale' = [stale EXCEPT ![q] = Append(@, Len(latest[q]) - 1)]
    /\ latest' = [latest EXCEPT ![q] = <<>>]
    /\ Goto(q, "loop")
    /\ UNCHANGED <<input, running, emitted, reported, reply, opened, profile, expired, child, produced,
                   stream, childVars>>

SelectClosed(q) ==
    /\ at[q] = "select" /\ FeedEnded(q)
    /\ Goto(q, "wait")
    /\ UNCHANGED <<input, running, emitted, reported, reply, opened, profile, expired, feedVars,
                   childVars>>

SelectDone_Missing(q) == FALSE /\ UNCHANGED vars /\ at[q] = "select"

SelectDone(q) ==
    /\ at[q] = "select" /\ expired[q]
    /\ Conclude(q, "cancelled")
    /\ UNCHANGED <<expired, feedVars, childVars>>

Wait_NoError(q) ==
    /\ at[q] = "wait"
    /\ \/ /\ doneClosed[q] /\ ~expired[q]
          /\ Conclude(q, "completed")
       \/ /\ expired[q]
          /\ Conclude(q, "cancelled")
    /\ UNCHANGED <<expired, feedVars, childVars>>

\* run.Wait(runCtx) returns the child's result once Done is closed, or the
\* error of the context; the outcome is read together with runCtx.Err()
Wait(q) ==
    /\ at[q] = "wait"
    /\ \/ /\ doneClosed[q] /\ ~expired[q]
          /\ Conclude(q, IF result[q] = "ok" THEN "completed" ELSE "failed")
       \/ /\ expired[q]
          /\ Conclude(q, "cancelled")
    /\ UNCHANGED <<expired, feedVars, childVars>>

\* The deferred calls, last one first
Close(q) ==
    /\ at[q] = "close"
    /\ opened' = [opened EXCEPT ![q] = FALSE]
    /\ Goto(q, "release")
    /\ UNCHANGED <<input, running, emitted, reported, reply, profile, expired, feedVars, childVars>>

release(q) ==
    /\ at[q] = "release"
    /\ running' = IF running > 0 THEN running - 1 ELSE running
    /\ Goto(q, "returned")
    /\ UNCHANGED <<input, emitted, reported, reply, opened, profile, expired, feedVars, childVars>>

----------------------------------------------------------------------------

(***************************************************************************)
(* The fetchers.  A fetcher takes an event from the child's channel and    *)
(* puts it into its own; it is stuck with one in its hand when that is     *)
(* full.  What becomes of the events once the request has returned, when   *)
(* nobody reads any fetcher, is left out.                                  *)
(***************************************************************************)
Fetch(q) ==
    /\ at[q] \notin {"loop", "returned"} /\ stream[q] # <<>> /\ Len(latest[q]) <= FetchBuffer
    /\ latest' = [latest EXCEPT ![q] = Append(@, Head(stream[q]))]
    /\ stream' = [stream EXCEPT ![q] = Tail(@)]
    /\ UNCHANGED <<runVars, expired, child, produced, stale, childVars>>

FetchStale(q) ==
    \E f \in DOMAIN stale[q] :
        /\ at[q] # "returned" /\ stream[q] # <<>> /\ stale[q][f] <= FetchBuffer
        /\ stale' = [stale EXCEPT ![q][f] = @ + 1]
        /\ stream' = [stream EXCEPT ![q] = Tail(@)]
        /\ UNCHANGED <<runVars, expired, child, produced, latest, childVars>>

\* The child, a run handle: events while its channel is open, then its end
ChildEvent(q) ==
    /\ child[q] /\ at[q] # "returned" /\ ~eventsClosed[q] /\ produced[q] < MaxEvents[q]
    /\ produced' = [produced EXCEPT ![q] = @ + 1]
    /\ stream' = [stream EXCEPT ![q] = Append(@, produced[q] + 1)]
    /\ UNCHANGED <<runVars, expired, child, latest, stale, childVars>>

ChildEnds(q) ==
    /\ child[q]
    /\ \/ \E k \in {"ok", "failed"} : Child!SetResult(q, k)
       \/ Child!CloseDone(q)
       \/ Child!CloseEvents(q)
    /\ UNCHANGED <<runVars, expired, feedVars>>

\* The timeout of the request passes, or the caller's context ends
Expire(q) ==
    /\ at[q] \notin {"idle", "close", "release", "returned"} /\ input[q].timed /\ ~expired[q]
    /\ expired' = [expired EXCEPT ![q] = TRUE]
    /\ UNCHANGED <<runVars, feedVars, childVars>>

----------------------------------------------------------------------------
Start(q) == \E i \in Inputs : Refuse(q, i) \/ AtCapacity(q, i) \/ acquire(q, i)

Follow(q) == \/ CallEvents(q) \/ SelectEvent(q) \/ SelectSilentEvent(q) \/ SelectClosed(q)
             \/ SelectDone(q) \/ Wait(q)

Run(q) == \/ OpenFails(q) \/ Open(q) \/ SendFails(q) \/ SendInput(q)
          \/ Follow(q) \/ Close(q) \/ release(q)

Next == \E q \in Requests :
            Start(q) \/ Run(q) \/ Fetch(q) \/ FetchStale(q) \/ ChildEvent(q) \/ ChildEnds(q)
            \/ Expire(q)

Spec == Init /\ [][Next]_vars

(***************************************************************************)
(* A goroutine that can go on does, a clock passes, and a child ends       *)
(* unless it is one of Endless.                                            *)
(***************************************************************************)
Fairness ==
    /\ \A q \in Requests : WF_vars(Run(q)) /\ WF_vars(Fetch(q)) /\ WF_vars(Expire(q))
    /\ \A q \in Requests \ Endless : WF_vars(ChildEnds(q))

FairSpec == Spec /\ Fairness

----------------------------------------------------------------------------
Terminal == {"completed", "failed", "cancelled"}
Holding == {"open", "send", "loop", "select", "wait", "close", "release"}
Holders == {q \in Requests : at[q] \in Holding}

TypeOK ==
    /\ at \in [Requests -> Holding \union {"idle", "returned"}]
    /\ input \in [Requests -> Inputs \union {NoInput}]
    /\ running \in Nat
    /\ expired \in [Requests -> BOOLEAN]
    /\ emitted \in [Requests -> Seq(Terminal \union {"requested", "started", "progressed"})]
    /\ reported \in [Requests -> Seq(Nat \ {0})]
    /\ reply \in [Requests -> Terminal \union {"none", "refused", "at_capacity"}]
    /\ opened \in [Requests -> BOOLEAN]
    /\ child \in [Requests -> BOOLEAN]
    /\ produced \in [Requests -> Nat]
    /\ stream \in [Requests -> Seq(Nat \ {0})]
    /\ latest \in [Requests -> Seq(Nat \ {0})]
    /\ \A q \in Requests : Len(latest[q]) <= FetchBuffer + 1
    /\ stale \in [Requests -> Seq(0..FetchBuffer + 1)]
    /\ result \in [Requests -> {"none", "ok", "failed"}]
    /\ doneClosed \in [Requests -> BOOLEAN]
    /\ eventsClosed \in [Requests -> BOOLEAN]

(***************************************************************************)
(* The counter acquire and release keep is exactly the number of requests  *)
(* between the two, on every path through Run, and never exceeds the limit *)
(* of the runner.                                                          *)
(***************************************************************************)
CapacityExact == running = Cardinality(Holders) /\ running <= limit

(***************************************************************************)
(* The lifecycle events and the return value tell the same story: a        *)
(* terminal event is emitted once, last, and is what Run returns; a        *)
(* request that was turned away emitted nothing; "completed" is reported   *)
(* only of a child that ended well, after its whole stream was taken.      *)
(***************************************************************************)
OutcomeTold ==
    \A q \in Requests :
        /\ \A n \in 1..Len(emitted[q]) :
                emitted[q][n] \in Terminal => n = Len(emitted[q]) /\ emitted[q][n] = reply[q]
        /\ reply[q] \in Terminal => emitted[q] # <<>> /\ emitted[q][Len(emitted[q])] = reply[q]
        /\ reply[q] \in {"refused", "at_capacity"} => emitted[q] = <<>>
        /\ reply[q] = "completed" => result[q] = "ok" /\ eventsClosed[q] /\ stream[q] = <<>>
        /\ at[q] = "returned" => reply[q] # "none"

(***************************************************************************)
(* Whatever the fetchers of earlier turns take away, the progress that is  *)
(* reported follows the order in which the child sent it.                  *)
(***************************************************************************)
ProgressInOrder ==
    \A q \in Requests :
        \A m, n \in 1..Len(reported[q]) : m < n => reported[q][m] < reported[q][n]

(***************************************************************************)
(* The events of a request tell the run: its progress in order, then its   *)
(* outcome.                                                                *)
(***************************************************************************)
EventsTellRun == OutcomeTold /\ ProgressInOrder

(***************************************************************************)
(* A child session opened under a policy is held to it: its agent is one   *)
(* of those the policy lists, and its tools reach only operations that are *)
(* in every list there is, of the policy, the profile and the agent.  The  *)
(* lists must have an operation in common: an empty list is no list to the *)
(* code, so that those without one leave the child every operation.        *)
(***************************************************************************)
Lists(i, spec) == {resolveProfile(i).spec.operations, i.policy.operations,
                   agentOperations(spec.agent)} \ {{}}

Agree(lists) == \E o \in UNION lists : \A l \in lists : o \in l

DelegationHolds ==
    \A q \in Requests :
        (opened[q] /\ input[q].enforce) =>
            LET agents == input[q].policy.agents
                lists == Lists(input[q], profile[q])
            IN  /\ agents # <<>> => profile[q].agent \in ToSet(agents)
                /\ Agree(lists) => \A l \in lists : Reachable(profile[q]) \subseteq l

(***************************************************************************)
(* A request returns, whether or not its child ends: the child's end, the  *)
(* close of the events and the end of the context may come in any order.   *)
(* Only a request without any deadline depends on its child.               *)
(***************************************************************************)
EveryRequestReturns ==
    \A q \in Requests :
        (at[q] # "idle" /\ (q \notin Endless \/ input[q].timed)) ~> (at[q] = "returned")
=============================================================================
