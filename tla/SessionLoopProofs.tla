-------------------------- MODULE SessionLoopProofs --------------------------
(***************************************************************************)
(* Proofs about SessionLoop, for every number of runs, whatever the model  *)
(* answers, and for every transcript.                                      *)
(***************************************************************************)
EXTENDS SessionLoop, FiniteSetTheorems, SequenceTheorems, WellFoundedInduction,
        NaturalsInduction, TLAPS

-----------------------------------------------------------------------------
(* Types.                                                                  *)

Kinds == {"input", "output", "tool_result"}
Roles == {"user", "developer", "assistant", "tool"}
Records == [kind : Kinds, role : Roles,
            calls : Seq(ProviderCalls), size : Nat,
            context : 0 .. MaxContext, by : Runs \union {"compaction"}]
Diff(item) ==
    item.context # 0 =>
        /\ item.kind = "input" /\ item.role = Placed[item.context]
        /\ item.role = "developer" => item.size = DiffSize[item.context]
Items == {item \in Records : Diff(item)}
Answers == [kind : {"message", "wait", "operations"},
            outputs : Seq(Seq(ProviderCalls)), requests : Seq(ProviderCalls)]
Threads == [items : Seq(Items), rendered : 0 .. MaxContext, applied : SUBSET Facts,
            received : SUBSET Runs, requested : SUBSET Calls,
            completed : SUBSET Calls, outbound : SUBSET Runs]
RunStates ==
    [pc : Places, phase : {"open", "turn", "followup"}, cont : 0 .. MaxContinuations,
     step : 0 .. MaxSteps, pending : Seq(Items), committed : Nat,
     records : -1 .. MaxContext, rendered : 0 .. MaxContext,
     sink : Seq(Items), local : Seq(Items),
     fact : Facts \union {NoFact}, previous : Facts \union {NoFact}, keys : SUBSET Facts,
     reply : Answers \union {noReply}, results : Seq(Items), batch : SUBSET Calls,
     effects : Nat, checkpoint : Seq(Items), result : {"none", "ok", "failed", "crashed"}]

(* What a run holds is limited by where it is.                             *)
Fitting(here, now) ==
    /\ here.committed <= Len(here.pending)
    /\ here.pc \in {"idle", "replay"} => here.committed = 0
    /\ here.records <= now /\ here.rendered <= now
    /\ here.pc \in {"project", "model", "commit", "request", "execute", "check request",
                    "check execute", "check complete", "flush"} => here.step < MaxSteps
    /\ here.pc = "commit" /\ here.reply.kind = "operations" => here.reply.requests # <<>>
    /\ here.pc \in {"request", "execute"} => here.reply.kind = "operations"
    /\ here.pc \in {"react request", "react execute", "react complete", "react applied"}
          => here.fact \in Facts

TypeInv ==
    /\ thread \in Threads /\ thread.rendered <= context
    /\ run \in [Runs -> RunStates]
    /\ \A r \in Runs : Fitting(run[r], context)
    /\ executed \subseteq Calls
    /\ context \in 1 .. MaxContext
    /\ faults \in 0 .. MaxFaults
    /\ quiet \in BOOLEAN

-----------------------------------------------------------------------------
(* Transcripts.  A run stores what the model answered together with all    *)
(* results, so calls and results come in batches: outputs that open calls, *)
(* from b to c, and behind them, up to e, one result for each of the       *)
(* calls.                                                                  *)
Calling(item) == IsOutput(item) /\ item.calls # <<>>

Batch(s, b, c, e) ==
    /\ b <= c /\ c < e
    /\ \A i \in b .. c : /\ Calling(s[i]) /\ NoCall \notin Range(s[i].calls)
                          /\ IsInjective(s[i].calls)
    /\ \A i, j \in b .. c : i # j => Range(s[i].calls) \intersect Range(s[j].calls) = {}
    /\ \A j \in c + 1 .. e : /\ IsResult(s[j])
                              /\ \E i \in b .. c : \E x \in Range(s[i].calls) : s[j].calls = <<x>>
    /\ \A j, k \in c + 1 .. e : s[j].calls = s[k].calls => j = k
    /\ \A i \in b .. c : \A x \in Range(s[i].calls) : \E j \in c + 1 .. e : s[j].calls = <<x>>
    /\ b = 1 \/ ~Calling(s[b - 1])

Batched(s) ==
    \A i \in 1 .. Len(s) : Calling(s[i]) \/ IsResult(s[i]) =>
        \E b, c, e \in 1 .. Len(s) : b <= i /\ i <= e /\ Batch(s, b, c, e)

(* The newest context diff of a transcript has version v.                  *)
NewestIs(s, v) ==
    \E i \in 1 .. Len(s) : s[i].context = v /\ \A j \in i + 1 .. Len(s) : s[j].context = 0

(* It has, if it is one that compaction leaves alone.                      *)
Kept(s, v) == v # 0 /\ Durable(v) => NewestIs(s, v)

-----------------------------------------------------------------------------
(* What a run has done and what the thread knows of it.                    *)

Ops(r, calls) == {call \in calls : call.run = r /\ ~IsReaction(call)}
Storing == {"request", "execute", "check request", "check execute", "check complete", "flush"}

(* The numbers of the calls a run has executed so far end here.            *)
Count(here) ==
    here.effects + (IF here.pc \in {"request", "execute"} THEN Cardinality(here.batch)
                    ELSE IF here.pc = "check complete" THEN 1 ELSE 0)

Counted(r, here, ex) ==
    here.pc # "done" =>
        /\ IsFiniteSet(here.batch) /\ here.batch \subseteq Ops(r, ex)
        /\ \A call \in Ops(r, ex) : call.n <= Count(here)
        /\ here.pc \notin Storing => here.batch = {}
        /\ here.pc \in {"request", "execute"} => Cardinality(here.batch) < Len(here.reply.requests)

(* Calls that were executed and whose completion is not stored yet.        *)
Unstored(r, here) ==
    here.batch \union
      IF here.pc = "check complete" THEN {operationCallID(r, here.effects + 1)} ELSE {}

Told(r, here, th, ex) ==
    /\ here.pc = "done" <=> here.result # "none"
    /\ here.pc = "done" => here.batch = {}
    /\ here.pc # "idle" /\ here.result \in {"none", "ok"} => r \in th.received
    /\ here.pc \in {"compact", "checkpoint"} \/ here.result = "ok"
         => here.reply.kind = "wait" \/ r \in th.outbound
    /\ here.result \in {"none", "ok"} => Ops(r, ex) \subseteq th.completed \union Unstored(r, here)
    /\ here.pc = "execute" =>
         operationCallID(r, here.effects + Cardinality(here.batch) + 1) \in th.requested
    /\ here.pc = "check execute" => operationCallID(r, here.effects + 1) \in th.requested
    /\ here.pc = "check complete" => operationCallID(r, here.effects + 1) \in ex
    /\ here.pc = "react execute" => reactionOperationCallID(r, here.fact) \in th.requested
    /\ here.pc = "react complete" => reactionOperationCallID(r, here.fact) \in ex

(* The parts a run's next append consists of.                              *)
Shaped(here) ==
    /\ \A i \in here.committed + 1 .. Len(here.pending) : here.pending[i].kind = "input"
    /\ \A i \in 1 .. Len(here.sink) : here.sink[i].kind # "tool_result"
    /\ \A i \in 1 .. Len(here.results) :
         /\ here.results[i].kind = "tool_result" /\ here.results[i].context = 0
         /\ \E x \in ProviderCalls : x # NoCall /\ here.results[i].calls = <<x>>
    /\ Batched(here.local)
    /\ here.pc = "checkpoint" => Batched(here.checkpoint)

RecordInv ==
    /\ executed \subseteq thread.requested /\ thread.completed \subseteq executed
    /\ \A r \in Runs : /\ Counted(r, run[r], executed)
                        /\ Told(r, run[r], thread, executed)

BatchInv == Batched(thread.items) /\ \A r \in Runs : Shaped(run[r])

-----------------------------------------------------------------------------
(* While runs follow one another and nothing fails.                        *)

Alone == /\ faults = 0
         /\ \A r, s \in Active : r = s
         /\ \A r \in Runs : run[r].result \in {"none", "ok"}

(* Every reaction that was executed is known to the runs that come later.  *)
Reacting(r, here, th, ex) ==
    /\ here.pc # "replay" => th.applied \subseteq here.keys
    /\ here.pc \in {"react request", "react execute"} => here.fact \notin here.keys
    /\ here.pc = "react applied" => here.fact \in here.keys
ReactInv ==
    /\ \A call \in executed : IsReaction(call) =>
         \/ call.fact \in thread.applied
         \/ /\ run[call.run].pc \in {"react complete", "react applied"}
            /\ run[call.run].fact = call.fact
    /\ \A c, d \in executed : IsReaction(c) /\ c.fact = d.fact => c = d
    /\ \A r \in Active : Reacting(r, run[r], thread, executed)

(* The records of the context and the transcript agree.                    *)
Loose == {"react", "react request", "react execute", "react complete", "react applied", "step"}
Rendered(here, th) ==
    /\ here.records \in {-1, th.rendered}
    /\ here.pc \notin {"commit"} \union Storing => here.sink = <<>>
    /\ here.pc \in Loose =>
         \A i \in here.committed + 1 .. Len(here.pending) : here.pending[i].context = 0
    /\ here.pc \in {"project", "model", "commit"} =>
         here.rendered # 0 /\ here.records = th.rendered
    /\ here.pc \in {"project", "model"} =>
         \/ NewestIs(th.items \o newItems(here), here.rendered)
         \/ here.records = here.rendered /\ ~Durable(here.rendered)
    /\ here.pc = "commit" => Kept(th.items \o here.sink, here.rendered)
    /\ here.pc \in Storing => Kept(th.items \o here.sink, th.rendered)
    /\ here.pc \notin Storing => Kept(th.items, th.rendered)
    /\ here.pc = "checkpoint" => Kept(here.checkpoint, th.rendered)
ContextInv ==
    /\ Active = {} => Kept(thread.items, thread.rendered)
    /\ \A r \in Active : Rendered(run[r], thread)

(* A run that has not begun holds nothing.                                 *)
Unbegun == \A r \in Runs : run[r].pc = "idle" => run[r] = newRun

Orderly == Alone /\ Unbegun /\ ReactInv /\ ContextInv
QuietInv == quiet => Orderly

-----------------------------------------------------------------------------
(* A step of a run, and what the other runs see of it.                     *)

Inv == TypeInv /\ RecordInv /\ BatchInv

RunOK(r, here, th, ex) ==
    /\ here \in RunStates /\ Fitting(here, context)
    /\ Counted(r, here, ex) /\ Told(r, here, th, ex)
    /\ Shaped(here)

(* What an append may make of the thread, when ex are the executed calls.  *)
Stores(old, new, ex) ==
    /\ new \in Threads /\ new.rendered <= context
    /\ Batched(new.items)
    /\ ex \subseteq new.requested /\ new.completed \subseteq ex
    /\ old.requested \subseteq new.requested /\ old.completed \subseteq new.completed
    /\ old.received \subseteq new.received /\ old.outbound \subseteq new.outbound

Executes(r) == executed' = executed \/ \E call \in Calls : call.run = r /\ executed' = executed \union {call}

LEMMA OthersKeep ==
    ASSUME Inv, NEW r \in Runs, NEW s \in Runs, s # r, NEW th, Stores(thread, th, executed'),
           Executes(r)
    PROVE  RunOK(s, run[s], th, executed')
<1>1. RunOK(s, run[s], thread, executed)
  BY DEF Inv, TypeInv, RecordInv, BatchInv, RunOK
<1>2. Ops(s, executed') = Ops(s, executed) /\ executed \subseteq executed'
  BY DEF Executes, Ops, Calls
<1>3. Counted(s, run[s], executed')
  BY <1>1, <1>2 DEF Counted, RunOK
<1>4. Told(s, run[s], th, executed')
  BY <1>1, <1>2 DEF Told, RunOK, Stores
<1> QED BY <1>1, <1>3, <1>4 DEF RunOK

LEMMA StepKeeps ==
    ASSUME Inv, NEW r \in Runs, NEW here, run' = [run EXCEPT ![r] = here],
           Stores(thread, thread', executed'), Executes(r), executed' \subseteq Calls,
           RunOK(r, here, thread', executed'),
           context' = context, faults' \in 0 .. MaxFaults, quiet' \in BOOLEAN
    PROVE  Inv'
<1>1. \A s \in Runs : RunOK(s, run'[s], thread', executed')
  BY OthersKeep DEF Inv, TypeInv
<1>2. run' \in [Runs -> RunStates]
  BY DEF Inv, TypeInv, RunOK
<1>3. TypeInv'
  BY <1>1, <1>2 DEF Inv, TypeInv, RunOK, Stores
<1>4. RecordInv'
  BY <1>1 DEF RecordInv, RunOK, Stores
<1>5. BatchInv'
  BY <1>1 DEF BatchInv, RunOK, Stores
<1> QED BY <1>3, <1>4, <1>5 DEF Inv

LEMMA SameThread ==
    ASSUME Inv, executed' \subseteq thread.requested, executed \subseteq executed'
    PROVE  Stores(thread, thread, executed')
  BY DEF Inv, TypeInv, RecordInv, BatchInv, Stores

LEMMA LocalKeeps ==
    ASSUME Inv, NEW r \in Runs, NEW here, Local(r, here), executed' = executed,
           context' = context, quiet' \in BOOLEAN,
           RunOK(r, here, thread, executed)
    PROVE  Inv'
<1>1. Stores(thread, thread', executed') /\ RunOK(r, here, thread', executed') /\ Executes(r)
  BY SameThread DEF Local, Inv, RecordInv, Executes
<1> QED BY <1>1, StepKeeps DEF Local, Move, Inv, TypeInv

LEMMA AppendKeeps ==
    ASSUME Inv, NEW r \in Runs, NEW stored, NEW then, NEW otherwise,
           appendThreadRecords(r, stored, then, otherwise),
           executed' = executed, context' = context, quiet' \in BOOLEAN,
           Stores(thread, stored, executed),
           RunOK(r, then, stored, executed),
           RunOK(r, otherwise, thread, executed), RunOK(r, otherwise, stored, executed)
    PROVE  Inv'
<1>1. Stores(thread, thread, executed) /\ Executes(r) /\ executed' \subseteq Calls
  BY SameThread DEF Inv, RecordInv, TypeInv, Executes
<1>2. faults' \in 0 .. MaxFaults
  BY SessionAssumption DEF appendThreadRecords, Inv, TypeInv
<1>3. CASE thread' = stored /\ Move(r, then)
  BY <1>1, <1>2, <1>3, StepKeeps DEF Move
<1>4. CASE thread' \in {thread, stored} /\ Move(r, otherwise)
  BY <1>1, <1>2, <1>4, StepKeeps DEF Move
<1> QED BY <1>3, <1>4 DEF appendThreadRecords

LEMMA EmptyBatched == Batched(<<>>)
  BY DEF Batched

LEMMA NewRunType == newRun \in RunStates
<1>1. newRun.pc \in Places /\ newRun.fact \in Facts \union {NoFact} /\ 0 \in 0 .. MaxSteps
      /\ 0 \in 0 .. MaxContinuations /\ 0 \in 0 .. MaxContext /\ -1 \in -1 .. MaxContext
  BY SessionAssumption DEF newRun, Places
<1>2. <<>> \in Seq(Items)
  OBVIOUS
<1> QED BY <1>1, <1>2 DEF newRun, RunStates

LEMMA FinishType ==
    ASSUME NEW here \in RunStates, NEW result \in {"ok", "failed", "crashed"}
    PROVE  LET h == Finish(here, result)
           IN  /\ h \in RunStates
               /\ h.pc = "done" /\ h.result = result /\ h.pending = <<>> /\ h.committed = 0
               /\ h.records = -1 /\ h.rendered = 0 /\ h.sink = <<>> /\ h.local = <<>>
               /\ h.results = <<>> /\ h.batch = {} /\ (result = "ok" => h.reply = here.reply)
<1> DEFINE reply == IF result = "ok" THEN here.reply ELSE noReply
           h == [newRun EXCEPT !.pc = "done", !.result = result, !.reply = reply]
<1>1. reply \in Answers \union {noReply} /\ (result = "ok" => reply = here.reply)
  BY DEF RunStates
<1> HIDE DEF reply
<1>2. h \in RunStates
  <2>1. "done" \in Places /\ result \in {"none", "ok", "failed", "crashed"}
    BY DEF Places
  <2>2. PICK x \in RunStates : x = newRun
    BY NewRunType
  <2>3. [x EXCEPT !.pc = "done", !.result = result, !.reply = reply] \in RunStates
    BY ONLY <1>1, <2>1, x \in RunStates DEF RunStates
  <2> QED BY <2>2, <2>3
<1>3. /\ h.pc = "done" /\ h.result = result /\ h.pending = <<>> /\ h.committed = 0
      /\ h.records = -1 /\ h.rendered = 0 /\ h.sink = <<>> /\ h.local = <<>>
      /\ h.results = <<>> /\ h.batch = {} /\ h.reply = reply
  BY DEF newRun
<1>4. Finish(here, result) = h
  BY DEF Finish, reply
<1> QED BY <1>1, <1>2, <1>3, <1>4

LEMMA FinishFits ==
    ASSUME Inv, NEW here \in RunStates, NEW result \in {"ok", "failed", "crashed"}
    PROVE  Fitting(Finish(here, result), context) /\ Shaped(Finish(here, result))
<1> DEFINE h == Finish(here, result)
<1>1. /\ h.pc = "done" /\ h.pending = <<>> /\ h.committed = 0 /\ h.records = -1
      /\ h.rendered = 0 /\ h.sink = <<>> /\ h.local = <<>> /\ h.results = <<>>
  BY FinishType
<1>2. context \in Nat /\ Len(<<>>) = 0
  BY SessionAssumption DEF Inv, TypeInv
<1> HIDE DEF h
<1>3. Fitting(h, context)
  BY <1>1, <1>2 DEF Fitting
<1>4. Shaped(h)
  BY <1>1, EmptyBatched DEF Shaped
<1> QED BY <1>3, <1>4 DEF h

(* A run that fails or is cut off promises nothing.                        *)
LEMMA FinishOK ==
    ASSUME Inv, NEW r \in Runs, NEW here \in RunStates, NEW result \in {"failed", "crashed"},
           NEW th, NEW ex
    PROVE  RunOK(r, Finish(here, result), th, ex)
<1> DEFINE h == Finish(here, result)
<1>1. h \in RunStates /\ Fitting(h, context) /\ Shaped(h)
  BY FinishType, FinishFits
<1>2. h.pc = "done" /\ h.result = result /\ h.batch = {}
  BY FinishType
<1> HIDE DEF h
<1>3. Counted(r, h, ex) /\ Told(r, h, th, ex)
  BY <1>2 DEF Counted, Told
<1> QED BY <1>1, <1>3 DEF RunOK, h

(* A run that ends well has its answer and its completions stored.         *)
LEMMA DoneOK ==
    ASSUME Inv, NEW r \in Runs, run[r].pc \in {"compact", "checkpoint"}, NEW th,
           thread.completed \subseteq th.completed, thread.received \subseteq th.received,
           thread.outbound \subseteq th.outbound
    PROVE  RunOK(r, Finish(run[r], "ok"), th, executed)
<1> DEFINE h == Finish(run[r], "ok")
<1>0. run[r] \in RunStates
  BY DEF Inv, TypeInv
<1>1. h \in RunStates /\ Fitting(h, context) /\ Shaped(h)
  BY <1>0, FinishType, FinishFits
<1>2. h.pc = "done" /\ h.result = "ok" /\ h.reply = run[r].reply /\ h.batch = {}
  BY <1>0, FinishType
<1>3. Counted(r, run[r], executed) /\ Told(r, run[r], thread, executed)
  BY DEF Inv, RecordInv
<1>4. Ops(r, executed) \subseteq thread.completed
  BY <1>3 DEF Counted, Told, Unstored, Storing
<1> HIDE DEF h
<1>5. Counted(r, h, executed) /\ Told(r, h, th, executed)
  BY <1>2, <1>3, <1>4 DEF Counted, Told
<1> QED BY <1>1, <1>5 DEF RunOK, h

LEMMA ReceiveInputKeeps ==
    ASSUME Inv, NEW r \in Runs, ReceiveInput(r), quiet' \in BOOLEAN PROVE Inv'
<1> DEFINE stored == [thread EXCEPT !.received = @ \union {r}]
           h == Goto(run[r], "replay")
<1>1. run[r] \in RunStates /\ thread \in Threads /\ RunOK(r, run[r], thread, executed)
  BY DEF Inv, TypeInv, RecordInv, BatchInv, RunOK
<1>2. Stores(thread, stored, executed)
  BY <1>1 DEF Stores, Threads, Inv, TypeInv, RecordInv, BatchInv
<1>3. h \in RunStates /\ run[r].pc = "idle"
  BY <1>1 DEF Goto, RunStates, Places, ReceiveInput
<1>4. Fitting(h, context) /\ Shaped(h)
  <2>1. /\ h.pc = "replay" /\ h.committed = run[r].committed /\ h.pending = run[r].pending
        /\ h.records = run[r].records /\ h.rendered = run[r].rendered
        /\ h.reply = run[r].reply /\ h.fact = run[r].fact /\ h.sink = run[r].sink
        /\ h.results = run[r].results /\ h.local = run[r].local
        /\ h.step = run[r].step
    BY <1>1 DEF Goto, RunStates
  <2>2. Fitting(h, context)
    BY <1>1, <1>3, <2>1 DEF RunOK, Fitting
  <2> HIDE DEF h
  <2>3. Shaped(h)
    BY <1>1, <2>1 DEF RunOK, Shaped
  <2> QED BY <2>2, <2>3
<1>5. Counted(r, h, executed)
  BY <1>1, <1>3 DEF RunOK, Counted, Goto, RunStates, Count, Storing
<1>6. Told(r, h, stored, executed)
  BY <1>1, <1>3 DEF RunOK, Told, Goto, RunStates, Threads, Unstored
<1>7. RunOK(r, h, stored, executed)
  BY <1>3, <1>4, <1>5, <1>6 DEF RunOK
<1> QED BY <1>1, <1>2, <1>7, FinishOK, AppendKeeps DEF ReceiveInput

-----------------------------------------------------------------------------
(* Replay and reactions.                                                   *)

LEMMA CurrentRun ==
    ASSUME Inv, NEW r \in Runs
    PROVE  /\ run[r] \in RunStates /\ thread \in Threads
           /\ RunOK(r, run[r], thread, executed)
  BY DEF Inv, TypeInv, RecordInv, BatchInv, RunOK

LEMMA MoreStored ==
    ASSUME NEW r \in Runs, NEW here, NEW th, RunOK(r, here, thread, executed),
           Stores(thread, th, executed)
    PROVE  RunOK(r, here, th, executed)
<1>1. Told(r, here, th, executed)
  BY DEF RunOK, Told, Stores
<1> QED BY <1>1 DEF RunOK

LEMMA InputItemType ==
    ASSUME NEW r \in Runs
    PROVE  inputItem(r) \in Items /\ inputItem(r).kind = "input" /\ inputItem(r).context = 0
<1>1. /\ "input" \in Kinds /\ "user" \in Roles /\ 1 \in Nat /\ 0 \in 0 .. MaxContext
      /\ <<>> \in Seq(ProviderCalls)
  BY SessionAssumption DEF Kinds, Roles
<1> QED BY <1>1 DEF inputItem, Items, Records, Diff

LEMMA OneInput ==
    ASSUME NEW r \in Runs
    PROVE  /\ <<inputItem(r)>> \in Seq(Items) /\ Len(<<inputItem(r)>>) = 1
           /\ \A i \in 1 .. 1 : <<inputItem(r)>>[i] = inputItem(r)
  BY InputItemType

(* Two states of a run that differ only in what it reacts to and where it  *)
(* is.                                                                     *)
SameWork(old, new) ==
    /\ new.records = old.records /\ new.rendered = old.rendered
    /\ new.pending = old.pending /\ new.committed = old.committed
    /\ new.sink = old.sink /\ new.results = old.results /\ new.local = old.local
    /\ new.batch = old.batch /\ new.effects = old.effects
    /\ new.reply = old.reply /\ new.result = old.result

Reactions == {"react request", "react execute", "react complete", "react applied"}
Asking == {"project", "model", "commit"}
Between == {"react", "step", "evaluate", "terminal"} \union Asking \union Reactions

LEMMA GotoType ==
    ASSUME NEW here \in RunStates, NEW pc \in Places
    PROVE  /\ Goto(here, pc) \in RunStates /\ SameWork(here, Goto(here, pc))
           /\ Goto(here, pc).pc = pc /\ Goto(here, pc).step = here.step
           /\ Goto(here, pc).fact = here.fact /\ Goto(here, pc).keys = here.keys
           /\ Goto(here, pc).checkpoint = here.checkpoint
<1>1. Goto(here, pc) \in RunStates
  BY DEF Goto, RunStates
<1>2. SameWork(here, Goto(here, pc))
  BY DEF Goto, RunStates, SameWork
<1>3. /\ Goto(here, pc).pc = pc /\ Goto(here, pc).step = here.step
      /\ Goto(here, pc).fact = here.fact /\ Goto(here, pc).keys = here.keys
      /\ Goto(here, pc).checkpoint = here.checkpoint
  BY DEF Goto, RunStates
<1> QED BY <1>1, <1>2, <1>3

LEMMA SameShape ==
    ASSUME NEW old, NEW new, Shaped(old), new.pc # "checkpoint",
           new.pending = old.pending, new.committed = old.committed,
           new.sink = old.sink, new.results = old.results, new.local = old.local
    PROVE  Shaped(new)
  BY DEF Shaped

AtRest(here) == here.pc \notin {"request", "execute", "check complete"}

LEMMA CountAtRest ==
    ASSUME NEW here, here.effects \in Nat, AtRest(here)
    PROVE  Count(here) = here.effects
<1>1. Count(here) = here.effects + 0
  BY DEF Count, AtRest
<1> QED BY <1>1

LEMMA MoveOK ==
    ASSUME NEW r \in Runs, NEW old, NEW new \in RunStates, NEW th, NEW ex,
           RunOK(r, old, th, ex), SameWork(old, new), old.pc \in Between,
           new.pc \in (Between \union {"flush", "compact"}) \ {"commit"},
           new.pc \in Asking \union {"flush"} => new.step < MaxSteps,
           new.pc = "compact" => new.reply.kind = "wait" \/ r \in th.outbound,
           new.pc \in Reactions => new.fact \in Facts,
           new.pc = "react execute" => reactionOperationCallID(r, new.fact) \in th.requested,
           new.pc = "react complete" => reactionOperationCallID(r, new.fact) \in ex
    PROVE  RunOK(r, new, th, ex)
<1>1. Fitting(new, context)
  BY DEF RunOK, Fitting, SameWork, Between, Asking, Reactions
<1>2. Shaped(new)
  BY SameShape DEF RunOK, SameWork, Between, Asking, Reactions
<1>3. Counted(r, new, ex)
  BY DEF RunOK, Counted, Count, SameWork, Storing, Between, Asking, Reactions
<1>4. Told(r, new, th, ex)
  BY DEF RunOK, Told, Unstored, SameWork, Between, Asking, Reactions
<1> QED BY <1>1, <1>2, <1>3, <1>4 DEF RunOK

LEMMA ReplayKeeps ==
    ASSUME Inv, NEW r \in Runs, Replay(r), quiet' \in BOOLEAN PROVE Inv'
<1> DEFINE phase == IF shouldRunSessionOpenPhase THEN "open" ELSE "turn"
<1>1. run[r] \in RunStates /\ thread \in Threads /\ RunOK(r, run[r], thread, executed)
  BY CurrentRun
<1>2. phase \in {"open", "turn", "followup"} /\ replayReactionEvents \in SUBSET Facts
      /\ "react" \in Places
  BY <1>1 DEF replayReactionEvents, Threads, Places
<1>3. PICK sent \in Seq(Items) : sent = <<inputItem(r)>>
  BY OneInput
<1>4. \A i \in 1 .. Len(sent) : sent[i].kind = "input"
  BY <1>3, OneInput, InputItemType
<1>5. PICK h : h = [run[r] EXCEPT !.pc = "react", !.phase = phase,
                                  !.keys = replayReactionEvents, !.pending = sent]
  OBVIOUS
<1>6. run[r].pc = "replay" /\ Local(r, h)
  BY <1>3, <1>5 DEF Replay
<1> HIDE DEF phase
<1>7. h \in RunStates
  BY <1>1, <1>2, <1>5 DEF RunStates
<1>8. run[r].committed = 0
  BY <1>1, <1>6 DEF RunOK, Fitting
<1>9. /\ h.pc = "react" /\ h.pending = sent /\ h.committed = 0
      /\ h.records = run[r].records /\ h.rendered = run[r].rendered
      /\ h.sink = run[r].sink /\ h.results = run[r].results /\ h.local = run[r].local
      /\ h.batch = run[r].batch /\ h.effects = run[r].effects /\ h.result = run[r].result
      /\ h.reply = run[r].reply
  BY <1>1, <1>5, <1>8 DEF RunStates
<1>10. Fitting(h, context)
  <2>1. Len(sent) = 1
    BY <1>3
  <2>2. h.committed <= Len(h.pending)
    BY <1>9, <2>1
  <2> QED BY <1>1, <1>9, <2>2 DEF RunOK, Fitting
<1>11. Shaped(h)
  <2>1. \A i \in h.committed + 1 .. Len(h.pending) : h.pending[i].kind = "input"
    BY <1>4, <1>9
  <2> QED BY <1>1, <1>9, <2>1 DEF RunOK, Shaped
<1>12. Counted(r, h, executed)
  BY <1>1, <1>6, <1>9 DEF RunOK, Counted, Count, Storing
<1>13. Told(r, h, thread, executed)
  BY <1>1, <1>6, <1>9 DEF RunOK, Told, Unstored
<1>14. RunOK(r, h, thread, executed)
  BY <1>7, <1>10, <1>11, <1>12, <1>13 DEF RunOK
<1> QED BY <1>6, <1>14, LocalKeeps DEF Replay

LEMMA AfterReactionsOK ==
    ASSUME NEW r \in Runs, NEW here \in RunStates, NEW th, NEW ex,
           RunOK(r, here, th, ex), here.pc \in {"react"} \union Reactions
    PROVE  RunOK(r, AfterReactions(here), th, ex)
<1>1. "react" \in Places /\ "step" \in Places
  BY DEF Places
<1>2. AfterReactions(here) \in RunStates /\ AfterReactions(here).pc \in {"react", "step"}
  BY <1>1 DEF AfterReactions, RunStates
<1>3. SameWork(here, AfterReactions(here))
  BY DEF AfterReactions, SameWork, RunStates
<1> QED BY <1>2, <1>3, MoveOK DEF Between, Asking, Reactions

LEMMA PlanReactionsKeeps ==
    ASSUME Inv, NEW r \in Runs, PlanReactions(r), quiet' \in BOOLEAN PROVE Inv'
<1>1. run[r] \in RunStates /\ RunOK(r, run[r], thread, executed) /\ run[r].pc = "react"
  BY CurrentRun DEF PlanReactions
<1>2. PICK fact, here :
        /\ fact \in observedFacts(run[r])
        /\ here = [run[r] EXCEPT !.fact = fact, !.previous = fact]
        /\ Local(r, IF shouldFire(run[r], fact) THEN Goto(here, "react request")
                    ELSE AfterReactions(here))
  BY DEF PlanReactions
<1>3. fact \in Facts \union {NoFact}
  BY <1>1, <1>2, SessionAssumption DEF observedFacts, RunStates
<1>4. here \in RunStates /\ SameWork(run[r], here) /\ here.pc = "react" /\ here.fact = fact
  BY <1>1, <1>2, <1>3 DEF RunStates, SameWork
<1>5. RunOK(r, here, thread, executed)
  BY <1>1, <1>4, MoveOK DEF Between, Asking, Reactions
<1>6. CASE shouldFire(run[r], fact)
  <2>1. PICK h : h = Goto(here, "react request")
    OBVIOUS
  <2>2. h \in RunStates /\ SameWork(here, h) /\ h.pc = "react request" /\ h.fact \in Facts
    BY <1>3, <1>4, <1>6, <2>1 DEF Goto, RunStates, SameWork, Places, shouldFire
  <2>3. RunOK(r, h, thread, executed)
    BY <1>4, <1>5, <2>2, MoveOK DEF Between, Asking, Reactions
  <2> QED BY <1>2, <1>6, <2>1, <2>3, LocalKeeps DEF PlanReactions
<1>7. CASE ~shouldFire(run[r], fact)
  <2>1. RunOK(r, AfterReactions(here), thread, executed)
    BY <1>4, <1>5, AfterReactionsOK
  <2> QED BY <1>2, <1>7, <2>1, LocalKeeps DEF PlanReactions
<1> QED BY <1>6, <1>7

LEMMA ReactionCall ==
    ASSUME NEW r \in Runs, NEW fact \in Facts
    PROVE  /\ reactionOperationCallID(r, fact) \in Calls
           /\ IsReaction(reactionOperationCallID(r, fact))
           /\ reactionOperationCallID(r, fact).run = r
           /\ reactionOperationCallID(r, fact).fact = fact
  BY SessionAssumption DEF reactionOperationCallID, Calls, IsReaction

LEMMA OperationCall ==
    ASSUME NEW r \in Runs, NEW n \in Nat
    PROVE  /\ operationCallID(r, n) \in Calls /\ ~IsReaction(operationCallID(r, n))
           /\ operationCallID(r, n).run = r /\ operationCallID(r, n).n = n
  BY DEF operationCallID, Calls, IsReaction

LEMMA RequestStores ==
    ASSUME Inv, NEW call \in Calls
    PROVE  LET stored == [thread EXCEPT !.requested = @ \union {call}]
           IN  Stores(thread, stored, executed) /\ call \in stored.requested
  BY DEF Stores, Threads, Inv, TypeInv, RecordInv, BatchInv

LEMMA CompletionStores ==
    ASSUME Inv, NEW calls \in SUBSET executed
    PROVE  LET stored == [thread EXCEPT !.completed = @ \union calls]
           IN  Stores(thread, stored, executed) /\ stored.completed = thread.completed \union calls
  BY DEF Stores, Threads, Inv, TypeInv, RecordInv, BatchInv

LEMMA RequestReactionKeeps ==
    ASSUME Inv, NEW r \in Runs, RequestReaction(r), quiet' \in BOOLEAN PROVE Inv'
<1>1. run[r] \in RunStates /\ RunOK(r, run[r], thread, executed) /\ run[r].pc = "react request"
  BY CurrentRun DEF RequestReaction
<1>2. run[r].fact \in Facts
  BY <1>1 DEF RunOK, Fitting
<1>3. PICK stored : stored = [thread EXCEPT !.requested = @ \union {reactionCall(r)}]
  OBVIOUS
<1>4. /\ Stores(thread, stored, executed)
      /\ reactionOperationCallID(r, run[r].fact) \in stored.requested
  BY <1>2, <1>3, ReactionCall, RequestStores DEF reactionCall
<1>5. PICK h : h = Goto(run[r], "react execute")
  OBVIOUS
<1>6. /\ h \in RunStates /\ SameWork(run[r], h) /\ h.pc = "react execute"
      /\ h.fact = run[r].fact
  BY <1>1, <1>5 DEF Goto, RunStates, SameWork, Places
<1>7. RunOK(r, h, stored, executed)
  BY <1>1, <1>2, <1>4, <1>6, MoreStored, MoveOK DEF Between, Asking, Reactions
<1>8. RunOK(r, AfterReactions(run[r]), thread, executed)
  BY <1>1, AfterReactionsOK DEF Reactions
<1>9. RunOK(r, AfterReactions(run[r]), stored, executed)
  BY <1>4, <1>8, MoreStored
<1> QED BY <1>3, <1>4, <1>5, <1>7, <1>8, <1>9, AppendKeeps DEF RequestReaction

LEMMA ExecuteReactionKeeps ==
    ASSUME Inv, NEW r \in Runs, ExecuteReaction(r), quiet' \in BOOLEAN PROVE Inv'
<1>1. run[r] \in RunStates /\ RunOK(r, run[r], thread, executed) /\ run[r].pc = "react execute"
  BY CurrentRun DEF ExecuteReaction
<1>2. PICK call : call = reactionOperationCallID(r, run[r].fact)
  OBVIOUS
<1>3. /\ run[r].fact \in Facts /\ call \in Calls /\ call.run = r /\ IsReaction(call)
      /\ call \in thread.requested
  <2>1. run[r].fact \in Facts
    BY <1>1 DEF RunOK, Fitting
  <2> QED BY <1>1, <1>2, <2>1, ReactionCall DEF RunOK, Told
<1>4. executed' = executed \union {call}
  BY <1>2 DEF ExecuteReaction, reactionCall
<1>5. Stores(thread, thread, executed') /\ Executes(r) /\ executed' \subseteq Calls
  BY <1>3, <1>4, SameThread DEF Executes, Inv, RecordInv, TypeInv
<1>6. PICK h : h = Goto(run[r], "react complete")
  OBVIOUS
<1>7. h \in RunStates /\ SameWork(run[r], h) /\ h.pc = "react complete" /\ h.fact = run[r].fact
  BY <1>1, <1>6 DEF Goto, RunStates, SameWork, Places
<1>8. RunOK(r, run[r], thread, executed')
  <2>1. Ops(r, executed') = Ops(r, executed)
    BY <1>3, <1>4 DEF Ops
  <2>2. Counted(r, run[r], executed')
    BY <1>1, <2>1 DEF RunOK, Counted
  <2>3. Told(r, run[r], thread, executed')
    BY <1>1, <1>4, <2>1 DEF RunOK, Told
  <2> QED BY <1>1, <2>2, <2>3 DEF RunOK
<1>9. RunOK(r, h, thread, executed')
  BY <1>2, <1>3, <1>4, <1>7, <1>8, <1>1, MoveOK DEF Between, Asking, Reactions
<1> QED BY <1>5, <1>6, <1>9, StepKeeps DEF ExecuteReaction, Local, Move, Inv, TypeInv

LEMMA CompleteReactionKeeps ==
    ASSUME Inv, NEW r \in Runs, CompleteReaction(r), quiet' \in BOOLEAN PROVE Inv'
<1>1. run[r] \in RunStates /\ RunOK(r, run[r], thread, executed) /\ run[r].pc = "react complete"
  BY CurrentRun DEF CompleteReaction
<1>2. run[r].fact \in Facts /\ reactionCall(r) \in executed
  BY <1>1 DEF RunOK, Fitting, Told, reactionCall
<1>3. PICK stored : stored = [thread EXCEPT !.completed = @ \union {reactionCall(r)}]
  OBVIOUS
<1>4. Stores(thread, stored, executed)
  BY <1>2, <1>3, CompletionStores
<1>5. PICK h : h = [run[r] EXCEPT !.pc = "react applied", !.effects = @ + 1,
                                  !.keys = @ \union {run[r].fact}]
  OBVIOUS
<1>6. h \in RunStates
  <2>1. "react applied" \in Places
    BY DEF Places
  <2>2. PICK n \in Nat : n = run[r].effects + 1
    <3>1. run[r].effects \in Nat
      BY <1>1 DEF RunStates
    <3> QED BY <3>1
  <2>3. PICK keys \in SUBSET Facts : keys = run[r].keys \union {run[r].fact}
    <3>1. run[r].keys \in SUBSET Facts
      BY <1>1 DEF RunStates
    <3> QED BY <1>2, <3>1
  <2>4. h = [run[r] EXCEPT !.pc = "react applied", !.effects = n, !.keys = keys]
    BY <1>5, <2>2, <2>3
  <2> QED BY <1>1, <2>1, <2>4 DEF RunStates
<1>7. PICK g : g = [h EXCEPT !.effects = run[r].effects]
  OBVIOUS
<1>8. g \in RunStates /\ SameWork(run[r], g) /\ g.pc = "react applied" /\ g.fact = run[r].fact
  <2>1. g \in RunStates
    <3>1. run[r].effects \in Nat
      BY <1>1 DEF RunStates
    <3> QED BY <1>6, <1>7, <3>1 DEF RunStates
  <2>2. /\ h.pc = "react applied" /\ h.fact = run[r].fact
        /\ h.records = run[r].records /\ h.rendered = run[r].rendered
        /\ h.pending = run[r].pending /\ h.committed = run[r].committed
        /\ h.sink = run[r].sink /\ h.results = run[r].results /\ h.local = run[r].local
        /\ h.batch = run[r].batch /\ h.reply = run[r].reply /\ h.result = run[r].result
    BY <1>1, <1>5 DEF RunStates
  <2>3. /\ g.pc = h.pc /\ g.fact = h.fact /\ g.effects = run[r].effects
        /\ g.records = h.records /\ g.rendered = h.rendered
        /\ g.pending = h.pending /\ g.committed = h.committed
        /\ g.sink = h.sink /\ g.results = h.results /\ g.local = h.local
        /\ g.batch = h.batch /\ g.reply = h.reply /\ g.result = h.result
    BY <1>6, <1>7 DEF RunStates
  <2> QED BY <2>1, <2>2, <2>3 DEF SameWork
<1>9. RunOK(r, g, stored, executed)
  BY <1>1, <1>2, <1>4, <1>8, MoreStored, MoveOK DEF Between, Asking, Reactions
<1>10. /\ h.records = g.records /\ h.rendered = g.rendered /\ h.pending = g.pending
       /\ h.committed = g.committed /\ h.sink = g.sink /\ h.results = g.results
       /\ h.local = g.local /\ h.batch = g.batch /\ h.reply = g.reply /\ h.result = g.result
       /\ h.pc = g.pc /\ h.fact = g.fact /\ h.effects = g.effects + 1 /\ g.effects \in Nat
  BY <1>1, <1>5, <1>6, <1>7 DEF RunStates
<1>11. Fitting(h, context)
  BY <1>8, <1>9, <1>10 DEF RunOK, Fitting
<1>12. Shaped(h)
  BY <1>8, <1>9, <1>10, SameShape DEF RunOK
<1>13. Counted(r, h, executed)
  <2>1. \A call \in Ops(r, executed) : call.n \in Nat
    BY DEF Ops, Inv, TypeInv, Calls
  <2>2. Count(g) = g.effects /\ Count(h) = g.effects + 1
    <3>1. h.effects \in Nat
      BY <1>10
    <3>2. AtRest(g) /\ AtRest(h)
      BY <1>8, <1>10 DEF AtRest
    <3> QED BY <1>10, <3>1, <3>2, CountAtRest
  <2>3. \A call \in Ops(r, executed) : call.n <= Count(g)
    BY <1>8, <1>9 DEF RunOK, Counted
  <2>4. \A call \in Ops(r, executed) : call.n <= Count(h)
    BY <1>10, <2>1, <2>2, <2>3
  <2> QED BY <1>8, <1>9, <1>10, <2>4 DEF RunOK, Counted, Storing
<1>14. Told(r, h, stored, executed)
  BY <1>8, <1>9, <1>10 DEF RunOK, Told, Unstored
<1>15. RunOK(r, h, stored, executed)
  BY <1>6, <1>11, <1>12, <1>13, <1>14 DEF RunOK
<1>16. RunOK(r, AfterReactions(run[r]), thread, executed)
  BY <1>1, AfterReactionsOK DEF Reactions
<1>17. RunOK(r, AfterReactions(run[r]), stored, executed)
  BY <1>4, <1>16, MoreStored
<1> QED BY <1>3, <1>4, <1>5, <1>15, <1>16, <1>17, AppendKeeps DEF CompleteReaction

LEMMA RecordAppliedKeeps ==
    ASSUME Inv, NEW r \in Runs, RecordApplied(r), quiet' \in BOOLEAN PROVE Inv'
<1>1. run[r] \in RunStates /\ RunOK(r, run[r], thread, executed) /\ run[r].pc = "react applied"
  BY CurrentRun DEF RecordApplied
<1>2. run[r].fact \in Facts
  BY <1>1 DEF RunOK, Fitting
<1>3. PICK stored : stored = [thread EXCEPT !.applied = @ \union {run[r].fact}]
  OBVIOUS
<1>4. Stores(thread, stored, executed)
  BY <1>2, <1>3 DEF Stores, Threads, Inv, TypeInv, RecordInv, BatchInv
<1>5. RunOK(r, AfterReactions(run[r]), thread, executed)
  BY <1>1, AfterReactionsOK DEF Reactions
<1>6. RunOK(r, AfterReactions(run[r]), stored, executed)
  BY <1>4, <1>5, MoreStored
<1> QED BY <1>3, <1>4, <1>5, <1>6, AppendKeeps DEF RecordApplied

-----------------------------------------------------------------------------
(* The context, the transcript and the model's answer.                     *)

LEMMA NewItems ==
    ASSUME NEW here \in RunStates, here.committed <= Len(here.pending)
    PROVE  /\ newItems(here) \in Seq(Items)
           /\ Len(newItems(here)) = Len(here.pending) - here.committed
           /\ \A i \in 1 .. Len(newItems(here)) :
                newItems(here)[i] = here.pending[here.committed + i]
<1>1. PICK s, k : s = here.pending /\ k = here.committed
  OBVIOUS
<1>2. s \in Seq(Items) /\ k \in Nat /\ Len(s) \in Nat /\ k <= Len(s)
  BY <1>1 DEF RunStates
<1>3. \A i \in k + 1 .. Len(s) : s[i] \in Items
  BY <1>2
<1>4. /\ SubSeq(s, k + 1, Len(s)) \in Seq(Items)
      /\ Len(SubSeq(s, k + 1, Len(s))) = Len(s) - k
      /\ \A i \in 1 .. Len(s) - k : SubSeq(s, k + 1, Len(s))[i] = s[k + i]
  BY <1>2, <1>3
<1> QED BY <1>1, <1>4 DEF newItems

LEMMA LeastOf ==
    ASSUME NEW S \in SUBSET Nat, S # {}
    PROVE  \E m \in S : \A k \in S : m <= k
<1>1. PICK R : R = OpToRel(<, Nat)
  OBVIOUS
<1>2. IsWellFoundedOn(R, Nat)
  BY <1>1, NatLessThanWellFounded
<1>3. PICK m \in S : \A k \in S : ~(<<k, m>> \in R)
  BY <1>2, WFMin
<1>4. ASSUME NEW k \in S PROVE m <= k
  <2>1. <<k, m>> \in R <=> k < m
    BY <1>1 DEF OpToRel
  <2>2. m \in Nat /\ k \in Nat
    OBVIOUS
  <2> QED BY <1>3, <2>1, <2>2
<1> QED BY <1>4

(* The version of a diff is one the providers rendered.                    *)
LEMMA DiffVersion ==
    ASSUME NEW item \in Items, item.context # 0
    PROVE  /\ item.context \in 1 .. MaxContext
           /\ Placed[item.context] \in {"developer", "user"}
           /\ DiffSize[item.context] \in Nat
<1>1. item.context \in 0 .. MaxContext
  BY DEF Items, Records
<1>2. item.context \in 1 .. MaxContext
  BY <1>1, SessionAssumption
<1> QED BY <1>2, SessionAssumption

(* What materializeContext does to the items that are not stored yet: one  *)
(* of the new ones, an input, carries the version, and those behind it are *)
(* as before.                                                              *)
Brings(old, new, v) ==
    /\ new \in Seq(Items)
    /\ \A i \in 1 .. Len(new) : new[i].kind = "input" \/ \E j \in 1 .. Len(old) : new[i] = old[j]
    /\ \E p \in 1 .. Len(new) :
         /\ new[p].context = v
         /\ \A i \in p + 1 .. Len(new) : \E j \in 1 .. Len(old) : new[i] = old[j]

LEMMA ContextItemType ==
    ASSUME NEW r \in Runs, NEW v \in 1 .. MaxContext
    PROVE  /\ contextItem(r, v) \in Items /\ contextItem(r, v).kind = "input"
           /\ contextItem(r, v).context = v
<1>1. Placed[v] \in Roles /\ DiffSize[v] \in Nat /\ v \in 0 .. MaxContext
  <2>1. Placed[v] \in {"developer", "user"} /\ DiffSize[v] \in Nat
    BY SessionAssumption
  <2> QED BY <2>1, SessionAssumption DEF Roles
<1>2. PICK x : x = inputItem(r)
  OBVIOUS
<1>3. x \in Records /\ x.kind = "input"
  BY <1>2, InputItemType DEF Items
<1>4. PICK y : y = [x EXCEPT !.role = Placed[v], !.size = DiffSize[v], !.context = v]
  OBVIOUS
<1>5. /\ y \in Records /\ y.kind = "input" /\ y.context = v /\ y.role = Placed[v]
      /\ y.size = DiffSize[v]
  BY <1>1, <1>3, <1>4 DEF Records
<1>6. y \in Items
  BY <1>5 DEF Items, Diff
<1>7. y = contextItem(r, v)
  BY <1>2, <1>4 DEF contextItem
<1> QED BY <1>5, <1>6, <1>7

LEMMA MergedItemType ==
    ASSUME NEW item \in Items, item.kind = "input", item.role = "user",
           NEW v \in 1 .. MaxContext, Placed[v] = "user"
    PROVE  /\ withDiff(item, v) \in Items /\ withDiff(item, v).kind = "input"
           /\ withDiff(item, v).context = v
<1>1. DiffSize[v] \in Nat /\ v \in 0 .. MaxContext
  BY SessionAssumption
<1>2. item \in Records /\ item.size \in Nat
  BY DEF Items, Records
<1>3. PICK size \in Nat : size = item.size + DiffSize[v]
  BY <1>1, <1>2
<1>4. PICK y : y = [item EXCEPT !.context = v, !.size = size]
  OBVIOUS
<1>5. y \in Records /\ y.kind = "input" /\ y.context = v /\ y.role = "user"
  BY <1>1, <1>2, <1>3, <1>4 DEF Records
<1>6. y \in Items
  BY <1>5 DEF Items, Diff
<1>7. y = withDiff(item, v)
  BY <1>3, <1>4 DEF withDiff
<1> QED BY <1>5, <1>6, <1>7

LEMMA DeveloperDiff ==
    ASSUME NEW t \in Seq(Items), NEW x \in Items, x.kind = "input"
    PROVE  Brings(t, <<x>> \o t, x.context)
<1>1. PICK m \in Nat : m = Len(t)
  OBVIOUS
<1>2. PICK one : one = <<x>>
  OBVIOUS
<1>3. one \in Seq(Items) /\ Len(one) = 1 /\ one[1] = x
  BY <1>2
<1>4. PICK u : u = one \o t
  OBVIOUS
<1>5. /\ u \in Seq(Items) /\ Len(u) = 1 + m
      /\ \A i \in 1 .. 1 + m : u[i] = IF i <= 1 THEN one[i] ELSE t[i - 1]
  <2>1. /\ u \in Seq(Items) /\ Len(u) = Len(one) + Len(t)
        /\ \A i \in 1 .. Len(one) + Len(t) :
             u[i] = IF i <= Len(one) THEN one[i] ELSE t[i - Len(one)]
    BY <1>3, <1>4, ConcatProperties
  <2>2. Len(one) = 1 /\ Len(t) = m
    BY <1>1, <1>3
  <2> QED BY <2>1, <2>2
<1>6. u[1] = x /\ 1 \in 1 .. Len(u)
  BY <1>1, <1>3, <1>5
<1>7. ASSUME NEW i \in 1 + 1 .. 1 + m PROVE \E j \in 1 .. m : u[i] = t[j]
  <2>1. i \in 1 .. 1 + m /\ ~(i <= 1) /\ i - 1 \in 1 .. m
    BY <1>1
  <2>2. u[i] = t[i - 1]
    BY <1>5, <2>1
  <2> QED BY <2>1, <2>2
<1>8. ASSUME NEW i \in 1 .. 1 + m PROVE u[i].kind = "input" \/ \E j \in 1 .. m : u[i] = t[j]
  <2>1. i = 1 \/ i \in 1 + 1 .. 1 + m
    BY <1>1
  <2> QED BY <1>6, <1>7, <2>1
<1>9. /\ \A i \in 1 .. Len(u) : u[i].kind = "input" \/ \E j \in 1 .. Len(t) : u[i] = t[j]
      /\ \A i \in 1 + 1 .. Len(u) : \E j \in 1 .. Len(t) : u[i] = t[j]
  BY <1>1, <1>5, <1>7, <1>8
<1>10. Brings(t, u, x.context)
  BY <1>5, <1>6, <1>9 DEF Brings
<1> QED BY <1>2, <1>4, <1>10

LEMMA UserDiff ==
    ASSUME NEW t \in Seq(Items), NEW r \in Runs, context \in 1 .. MaxContext,
           Placed[context] = "user"
    PROVE  Brings(t, addUserContextDiff(r, t), context)
<1>1. PICK m \in Nat : m = Len(t)
  OBVIOUS
<1>2. PICK M : M = {i \in DOMAIN t : t[i].kind = "input" /\ t[i].role = "user"}
  OBVIOUS
<1>3. PICK u : u = addUserContextDiff(r, t)
  OBVIOUS
<1>4. DOMAIN t = 1 .. m /\ \A i \in 1 .. m : t[i] \in Items
  BY <1>1
<1>5. CASE M = {}
  <2>1. PICK x \in Items : x = contextItem(r, context) /\ x.kind = "input" /\ x.context = context
    BY ContextItemType
  <2>2. u = Append(t, x)
    BY <1>2, <1>3, <1>5, <2>1 DEF addUserContextDiff
  <2>3. /\ u \in Seq(Items) /\ Len(u) = m + 1 /\ u[m + 1] = x
        /\ \A i \in 1 .. m : u[i] = t[i]
    BY <1>1, <2>1, <2>2, AppendProperties
  <2>4. ASSUME NEW i \in 1 .. m + 1 PROVE u[i].kind = "input" \/ \E j \in 1 .. m : u[i] = t[j]
    <3>1. i = m + 1 \/ i \in 1 .. m
      BY <1>1
    <3> QED BY <2>1, <2>3, <3>1
  <2>5. m + 1 \in 1 .. m + 1 /\ \A i \in (m + 1) + 1 .. m + 1 : FALSE
    BY <1>1
  <2> QED BY <1>1, <1>3, <2>1, <2>3, <2>4, <2>5 DEF Brings
<1>6. CASE M # {}
  <2>1. PICK k \in M : k = Min(M)
    <3>1. M \in SUBSET Nat
      BY <1>1, <1>2, <1>4
    <3>2. \E n \in M : \A i \in M : n <= i
      BY <1>6, <3>1, LeastOf
    <3> QED BY <3>2 DEF Min
  <2>2. k \in 1 .. m /\ t[k] \in Items /\ t[k].kind = "input" /\ t[k].role = "user"
    BY <1>2, <1>4, <2>1
  <2>3. PICK x \in Items : x = withDiff(t[k], context) /\ x.kind = "input" /\ x.context = context
    BY <2>2, MergedItemType
  <2>4. u = [t EXCEPT ![k] = x]
    BY <1>2, <1>3, <1>6, <2>1, <2>3 DEF addUserContextDiff
  <2>5. /\ u \in Seq(Items) /\ Len(u) = m
        /\ \A i \in 1 .. m : u[i] = IF i = k THEN x ELSE t[i]
    BY <1>1, <1>4, <2>2, <2>3, <2>4
  <2>6. \A i \in 1 .. m : u[i].kind = "input" \/ \E j \in 1 .. m : u[i] = t[j]
    BY <2>3, <2>5
  <2>7. \A i \in k + 1 .. m : i \in 1 .. m /\ i # k
    BY <1>1, <2>2
  <2>8. \A i \in k + 1 .. m : \E j \in 1 .. m : u[i] = t[j]
    BY <2>5, <2>7
  <2> QED BY <1>1, <1>3, <2>2, <2>3, <2>5, <2>6, <2>8 DEF Brings
<1> QED BY <1>5, <1>6

(* The stored items in front of the new ones.                              *)
LEMMA Replaced ==
    ASSUME NEW s \in Seq(Items), NEW k \in Nat, k <= Len(s), NEW t \in Seq(Items)
    PROVE  LET u == SubSeq(s, 1, k) \o t
           IN  /\ u \in Seq(Items) /\ Len(u) = k + Len(t)
               /\ \A i \in 1 .. Len(t) : u[k + i] = t[i]
<1>1. PICK n \in Nat, m \in Nat : n = Len(s) /\ m = Len(t)
  OBVIOUS
<1>2. PICK a : a = SubSeq(s, 1, k)
  OBVIOUS
<1>3. a \in Seq(Items) /\ Len(a) = k
  <2>1. \A i \in 1 .. k : s[i] \in Items
    BY <1>1
  <2> QED BY <1>1, <1>2, <2>1
<1>4. PICK u : u = a \o t
  OBVIOUS
<1>5. /\ u \in Seq(Items) /\ Len(u) = k + m
      /\ \A i \in 1 .. k + m : u[i] = IF i <= k THEN a[i] ELSE t[i - k]
  BY <1>1, <1>3, <1>4, ConcatProperties
<1>6. ASSUME NEW i \in 1 .. m PROVE u[k + i] = t[i]
  <2>1. k + i \in 1 .. k + m /\ ~(k + i <= k) /\ (k + i) - k = i
    BY <1>1
  <2> QED BY <1>5, <2>1
<1> QED BY <1>1, <1>2, <1>4, <1>5, <1>6

(* The pending items of the step: as before, or with the diff among those  *)
(* that are not stored yet and nothing new behind it.                      *)
LEMMA ContextPending ==
    ASSUME Inv, NEW r \in Runs
    PROVE  LET s == run[r].pending
               k == run[r].committed
               next == contextPendingItems(r)
           IN  /\ next \in Seq(Items) /\ k <= Len(next)
               /\ (\A i \in k + 1 .. Len(s) : s[i].kind = "input")
                    => \A i \in k + 1 .. Len(next) : next[i].kind = "input"
               /\ contextRenderRecords(r) = context => next = s
               /\ contextRenderRecords(r) # context =>
                    \E p \in k + 1 .. Len(next) :
                      /\ next[p].context = context
                      /\ \A i \in p + 1 .. Len(next) :
                           \E j \in k + 1 .. Len(s) : next[i] = s[j]
<1>1. run[r] \in RunStates /\ RunOK(r, run[r], thread, executed)
  BY CurrentRun
<1>2. PICK s, k, x : s = run[r].pending /\ k = run[r].committed /\ x = contextItem(r, context)
  OBVIOUS
<1>3. s \in Seq(Items) /\ k \in Nat /\ k <= Len(s) /\ Len(s) \in Nat
  <2>1. s \in Seq(Items) /\ k \in Nat
    BY <1>1, <1>2 DEF RunStates
  <2>2. k <= Len(s)
    BY <1>1, <1>2 DEF RunOK, Fitting
  <2> QED BY <2>1, <2>2
<1>4. context \in 1 .. MaxContext
  BY DEF Inv, TypeInv
<1>5. CASE contextRenderRecords(r) = context
  <2>1. contextPendingItems(r) = s
    BY <1>2, <1>5 DEF contextPendingItems
  <2> QED BY <1>2, <1>3, <1>5, <2>1
<1>6. CASE contextRenderRecords(r) # context
  <2>1. PICK t : t = SubSeq(s, k + 1, Len(s))
    OBVIOUS
  <2>2. /\ t \in Seq(Items) /\ Len(t) = Len(s) - k
        /\ \A j \in 1 .. Len(t) : t[j] = s[k + j] /\ k + j \in k + 1 .. Len(s)
    <3>1. t = newItems(run[r])
      BY <1>2, <2>1 DEF newItems
    <3>2. /\ t \in Seq(Items) /\ Len(t) = Len(s) - k /\ \A j \in 1 .. Len(t) : t[j] = s[k + j]
      BY <1>1, <1>2, <1>3, <3>1, NewItems
    <3>3. \A j \in 1 .. Len(t) : k + j \in k + 1 .. Len(s)
      BY <1>3, <3>2
    <3> QED BY <3>2, <3>3
  <2>3. PICK u : u = IF Placed[context] = "user" THEN addUserContextDiff(r, t) ELSE <<x>> \o t
    OBVIOUS
  <2>4. contextPendingItems(r) = SubSeq(s, 1, k) \o u
    BY <1>2, <1>6, <2>1, <2>3 DEF contextPendingItems
  <2>5. Brings(t, u, context)
    <3>1. CASE Placed[context] = "user"
      BY <1>4, <2>2, <2>3, <3>1, UserDiff
    <3>2. CASE Placed[context] # "user"
      <4>1. x \in Items /\ x.kind = "input" /\ x.context = context
        BY <1>2, <1>4, ContextItemType
      <4>2. Brings(t, <<x>> \o t, x.context)
        BY <2>2, <4>1, DeveloperDiff
      <4> QED BY <2>3, <3>2, <4>1, <4>2
    <3> QED BY <3>1, <3>2
  <2>6. PICK m \in Nat : u \in Seq(Items) /\ m = Len(u)
    BY <2>5 DEF Brings
  <2>7. PICK next : next = SubSeq(s, 1, k) \o u
    OBVIOUS
  <2>8. next \in Seq(Items) /\ Len(next) = k + m /\ \A i \in 1 .. m : next[k + i] = u[i]
    <3>1. s \in Seq(Items) /\ k \in Nat /\ k <= Len(s) /\ u \in Seq(Items)
      BY <1>3, <2>6
    <3>2. LET w == SubSeq(s, 1, k) \o u
          IN  /\ w \in Seq(Items) /\ Len(w) = k + Len(u)
              /\ \A i \in 1 .. Len(u) : w[k + i] = u[i]
      BY ONLY <3>1, Replaced
    <3> QED BY <2>6, <2>7, <3>2
  <2>9. k <= Len(next)
    BY <1>3, <2>6, <2>8
  <2>10. ASSUME NEW i \in k + 1 .. k + m PROVE i - k \in 1 .. m /\ next[i] = u[i - k]
    <3>1. i - k \in 1 .. m /\ k + (i - k) = i
      BY <1>3, <2>6
    <3>2. next[k + (i - k)] = u[i - k]
      BY <2>8, <3>1
    <3> QED BY <3>1, <3>2
  <2>11. ASSUME \A i \in k + 1 .. Len(s) : s[i].kind = "input", NEW i \in k + 1 .. k + m
         PROVE  next[i].kind = "input"
    <3>1. u[i - k].kind = "input" \/ \E j \in 1 .. Len(t) : u[i - k] = t[j]
      BY <2>5, <2>6, <2>10 DEF Brings
    <3>2. CASE \E j \in 1 .. Len(t) : u[i - k] = t[j]
      BY <2>2, <2>10, <2>11, <3>2
    <3> QED BY <2>10, <3>1, <3>2
  <2>12. PICK p \in 1 .. m : /\ u[p].context = context
                             /\ \A i \in p + 1 .. m : \E j \in 1 .. Len(t) : u[i] = t[j]
    BY <2>5, <2>6 DEF Brings
  <2>13. k + p \in k + 1 .. k + m /\ next[k + p].context = context
    <3>1. k + p \in k + 1 .. k + m
      BY <1>3, <2>6, <2>12
    <3> QED BY <2>8, <2>12, <3>1
  <2>14. ASSUME NEW i \in (k + p) + 1 .. k + m
         PROVE  \E j \in k + 1 .. Len(s) : next[i] = s[j]
    <3>1. i \in k + 1 .. k + m /\ i - k \in p + 1 .. m
      BY <1>3, <2>6, <2>12
    <3>2. PICK j \in 1 .. Len(t) : u[i - k] = t[j]
      BY <2>12, <3>1
    <3> QED BY <2>2, <2>10, <3>1, <3>2
  <2>15. /\ next \in Seq(Items) /\ k <= Len(next)
         /\ (\A i \in k + 1 .. Len(s) : s[i].kind = "input")
              => \A i \in k + 1 .. Len(next) : next[i].kind = "input"
         /\ \E q \in k + 1 .. Len(next) :
              /\ next[q].context = context
              /\ \A i \in q + 1 .. Len(next) : \E j \in k + 1 .. Len(s) : next[i] = s[j]
    BY <2>8, <2>9, <2>11, <2>13, <2>14
  <2>16. next = contextPendingItems(r)
    BY <2>4, <2>7
  <2> QED BY <1>2, <1>6, <2>15, <2>16, Zenon
<1> QED BY <1>5, <1>6

LEMMA materializeContextKeeps ==
    ASSUME Inv, NEW r \in Runs, materializeContext(r), quiet' \in BOOLEAN PROVE Inv'
<1>1. /\ run[r] \in RunStates /\ thread \in Threads /\ RunOK(r, run[r], thread, executed)
      /\ run[r].pc = "step" /\ run[r].step < MaxSteps
  BY CurrentRun DEF materializeContext
<1>2. PICK records : records = contextRenderRecords(r)
  OBVIOUS
<1>3. records \in -1 .. MaxContext /\ records <= context
  <2>1. run[r].records \in -1 .. MaxContext /\ run[r].records <= context
    BY <1>1 DEF RunStates, RunOK, Fitting
  <2>2. thread.rendered \in 0 .. MaxContext
    BY <1>1 DEF Threads
  <2>3. thread.rendered \in -1 .. MaxContext
    BY <2>2, SessionAssumption
  <2>4. thread.rendered <= context
    BY DEF Inv, TypeInv
  <2> QED BY <1>2, <2>1, <2>3, <2>4 DEF contextRenderRecords
<1>4. PICK next : next = contextPendingItems(r)
  OBVIOUS
<1>5. next \in Seq(Items) /\ run[r].committed <= Len(next)
  BY <1>4, ContextPending
<1>6. PICK h : h = [run[r] EXCEPT !.pc = "project", !.records = records, !.rendered = context,
                                  !.pending = next]
  OBVIOUS
<1>7. h \in RunStates
  <2>1. "project" \in Places /\ context \in 0 .. MaxContext
    BY DEF Places, Inv, TypeInv
  <2> QED BY <1>1, <1>3, <1>5, <1>6, <2>1 DEF RunStates
<1>8. /\ h.pc = "project" /\ h.records = records /\ h.rendered = context /\ h.pending = next
      /\ h.committed = run[r].committed /\ h.step = run[r].step
      /\ h.sink = run[r].sink /\ h.results = run[r].results /\ h.local = run[r].local
      /\ h.batch = run[r].batch /\ h.effects = run[r].effects /\ h.result = run[r].result
      /\ h.reply = run[r].reply
  BY <1>1, <1>6 DEF RunStates
<1>9. Fitting(h, context)
  <2>1. context <= context
    BY SessionAssumption DEF Inv, TypeInv
  <2> QED BY <1>1, <1>3, <1>5, <1>8, <2>1 DEF Fitting
<1>10. Shaped(h)
  <2>1. \A i \in run[r].committed + 1 .. Len(run[r].pending) : run[r].pending[i].kind = "input"
    BY <1>1 DEF RunOK, Shaped
  <2>2. \A i \in run[r].committed + 1 .. Len(next) : next[i].kind = "input"
    BY <1>4, <2>1, ContextPending
  <2> QED BY <1>1, <1>8, <2>2 DEF RunOK, Shaped
<1>11. Counted(r, h, executed)
  BY <1>1, <1>8 DEF RunOK, Counted, Count, Storing
<1>12. Told(r, h, thread, executed)
  BY <1>1, <1>8 DEF RunOK, Told, Unstored
<1>13. RunOK(r, h, thread, executed)
  BY <1>7, <1>9, <1>10, <1>11, <1>12 DEF RunOK
<1> QED BY <1>2, <1>4, <1>6, <1>13, LocalKeeps DEF materializeContext

LEMMA transcriptForPendingKeeps ==
    ASSUME Inv, NEW r \in Runs, transcriptForPending(r), quiet' \in BOOLEAN PROVE Inv'
<1>1. run[r] \in RunStates /\ RunOK(r, run[r], thread, executed) /\ run[r].pc = "project"
  BY CurrentRun DEF transcriptForPending
<1>2. PICK h : h = Goto(run[r], "model")
  OBVIOUS
<1>3. h \in RunStates /\ SameWork(run[r], h) /\ h.pc = "model" /\ h.step = run[r].step
  BY <1>1, <1>2 DEF Goto, RunStates, SameWork, Places
<1>4. run[r].step < MaxSteps
  BY <1>1 DEF RunOK, Fitting
<1>5. RunOK(r, h, thread, executed)
  BY <1>1, <1>3, <1>4, MoveOK DEF Between, Asking, Reactions
<1>6. RunOK(r, Finish(run[r], "failed"), thread, executed)
  BY <1>1, FinishOK
<1> QED BY <1>2, <1>5, <1>6, LocalKeeps DEF transcriptForPending

LEMMA ModelFailsKeeps ==
    ASSUME Inv, NEW r \in Runs, ModelFails(r), quiet' \in BOOLEAN PROVE Inv'
  BY CurrentRun, FinishOK, LocalKeeps DEF ModelFails

LEMMA OutputItems ==
    ASSUME NEW r \in Runs, NEW reply \in Answers
    PROVE  /\ outputs(r, reply) \in Seq(Items)
           /\ \A i \in 1 .. Len(outputs(r, reply)) :
                /\ outputs(r, reply)[i].kind = "output"
                /\ outputs(r, reply)[i].context = 0
<1>1. PICK out : out = reply.outputs
  OBVIOUS
<1>2. out \in Seq(Seq(ProviderCalls))
  BY <1>1 DEF Answers
<1>3. ASSUME NEW calls \in Seq(ProviderCalls)
      PROVE  /\ outputItem(r, calls) \in Items /\ outputItem(r, calls).kind = "output"
             /\ outputItem(r, calls).context = 0
  <2>1. "output" \in Kinds /\ "assistant" \in Roles
    BY DEF Kinds, Roles
  <2> QED BY <2>1, InputItemType DEF outputItem, Items, Records, Diff
<1>4. DOMAIN out = 1 .. Len(out) /\ Len(out) \in Nat /\ \A i \in 1 .. Len(out) : out[i] \in Seq(ProviderCalls)
  BY <1>2
<1>5. outputs(r, reply) = [i \in 1 .. Len(out) |-> outputItem(r, out[i])]
  BY <1>1, <1>4 DEF outputs
<1>6. PICK f : f = [i \in 1 .. Len(out) |-> outputItem(r, out[i])]
  OBVIOUS
<1>7. \A i \in 1 .. Len(out) : f[i] = outputItem(r, out[i])
  BY <1>6
<1>8. f \in [1 .. Len(out) -> Items]
  BY <1>3, <1>4, <1>6
<1>9. f \in Seq(Items) /\ Len(f) = Len(out)
  BY <1>4, <1>8
<1> QED BY <1>3, <1>4, <1>5, <1>6, <1>7, <1>9

LEMMA RespondKeeps ==
    ASSUME Inv, NEW r \in Runs, Respond(r), quiet' \in BOOLEAN PROVE Inv'
<1>1. run[r] \in RunStates /\ RunOK(r, run[r], thread, executed) /\ run[r].pc = "model"
  BY CurrentRun DEF Respond
<1>2. PICK reply, here :
        /\ reply \in Replies[r]
        /\ here = [run[r] EXCEPT !.sink = @ \o newItems(run[r]) \o outputs(r, reply),
                                 !.reply = reply]
        /\ Local(r, IF validateOperationRequests(stepItems(here), reply.requests)
                    THEN Goto(here, "commit") ELSE Finish(here, "failed"))
  BY DEF Respond
<1>3. reply \in Answers
  BY <1>2, SessionAssumption DEF Answers
<1>4. PICK a, b, c : a = run[r].sink /\ b = newItems(run[r]) /\ c = outputs(r, reply)
  OBVIOUS
<1>5. run[r].committed <= Len(run[r].pending)
  BY <1>1 DEF RunOK, Fitting
<1>6. a \in Seq(Items) /\ b \in Seq(Items) /\ c \in Seq(Items)
  BY <1>1, <1>3, <1>4, <1>5, NewItems, OutputItems DEF RunStates
<1>7. PICK sink \in Seq(Items) : sink = a \o b \o c
  <2>1. a \o b \in Seq(Items)
    BY <1>6
  <2>2. (a \o b) \o c \in Seq(Items)
    BY <1>6, <2>1, ConcatProperties
  <2> QED BY <2>2
<1>8. here = [run[r] EXCEPT !.sink = sink, !.reply = reply]
  BY <1>2, <1>4, <1>7
<1>9. here \in RunStates
  BY <1>1, <1>3, <1>8 DEF RunStates
<1>10. PICK h : h = Goto(here, "commit")
  OBVIOUS
<1>11. h \in RunStates
  <2>1. "commit" \in Places
    BY DEF Places
  <2> QED BY <1>9, <1>10, <2>1 DEF Goto, RunStates
<1>12. /\ h.pc = "commit" /\ h.sink = sink /\ h.reply = reply /\ h.records = run[r].records
       /\ h.rendered = run[r].rendered /\ h.pending = run[r].pending
       /\ h.committed = run[r].committed /\ h.step = run[r].step
       /\ h.results = run[r].results /\ h.local = run[r].local
       /\ h.batch = run[r].batch /\ h.effects = run[r].effects /\ h.result = run[r].result
  BY <1>1, <1>8, <1>10 DEF RunStates, Goto
<1>13. Fitting(h, context)
  <2>1. reply.kind = "operations" => reply.requests # <<>>
    BY <1>2, SessionAssumption
  <2> QED BY <1>1, <1>12, <2>1 DEF RunOK, Fitting
<1>14. Shaped(h)
  <2>1. \A i \in 1 .. Len(a) : a[i].kind # "tool_result"
    BY <1>1, <1>4 DEF RunOK, Shaped
  <2>2. \A i \in 1 .. Len(b) : b[i].kind # "tool_result"
    <3>1. \A i \in run[r].committed + 1 .. Len(run[r].pending) : run[r].pending[i].kind = "input"
      BY <1>1 DEF RunOK, Shaped
    <3>2. PICK s, k : s = run[r].pending /\ k = run[r].committed
      OBVIOUS
    <3>3. s \in Seq(Items) /\ k \in Nat
      BY <1>1, <3>2 DEF RunStates
    <3>4. Len(b) = Len(s) - k /\ \A i \in 1 .. Len(b) : b[i] = s[k + i]
      BY <1>1, <1>4, <1>5, <3>2, NewItems
    <3>5. ASSUME NEW i \in 1 .. Len(b) PROVE k + i \in k + 1 .. Len(s)
      BY <3>3, <3>4
    <3>6. \A i \in k + 1 .. Len(s) : s[i].kind = "input"
      BY <3>1, <3>2
    <3> QED BY <3>4, <3>5, <3>6
  <2>3. \A i \in 1 .. Len(c) : c[i].kind # "tool_result"
    BY <1>3, <1>4, OutputItems
  <2>4. \A i \in 1 .. Len(a \o b) : (a \o b)[i].kind # "tool_result"
    <3>1. Len(a) \in Nat /\ Len(b) \in Nat
      BY <1>6
    <3>2. /\ Len(a \o b) = Len(a) + Len(b)
          /\ \A i \in 1 .. Len(a) + Len(b) :
               (a \o b)[i] = IF i <= Len(a) THEN a[i] ELSE b[i - Len(a)]
      BY <1>6, ConcatProperties
    <3>3. \A i \in 1 .. Len(a) + Len(b) : i <= Len(a) \/ i - Len(a) \in 1 .. Len(b)
      BY <3>1
    <3> QED BY <2>1, <2>2, <3>1, <3>2, <3>3
  <2>5. a \o b \in Seq(Items)
    BY <1>6
  <2>6. \A i \in 1 .. Len(sink) : sink[i].kind # "tool_result"
    BY <1>6, <1>7, <2>3, <2>4, <2>5
  <2> QED BY <1>1, <1>12, <2>6 DEF RunOK, Shaped
<1>15. Counted(r, h, executed)
  BY <1>1, <1>12 DEF RunOK, Counted, Count, Storing
<1>16. Told(r, h, thread, executed)
  BY <1>1, <1>12 DEF RunOK, Told, Unstored
<1>17. RunOK(r, h, thread, executed)
  BY <1>11, <1>13, <1>14, <1>15, <1>16 DEF RunOK
<1>18. RunOK(r, Finish(here, "failed"), thread, executed)
  BY <1>9, FinishOK
<1> QED BY <1>2, <1>10, <1>17, <1>18, LocalKeeps DEF Respond

-----------------------------------------------------------------------------
(* The answer is applied.                                                  *)

LEMMA DecidedOK ==
    ASSUME Inv, NEW r \in Runs, run[r].pc = "commit",
           NEW here, here = [run[r] EXCEPT !.records = run[r].rendered]
    PROVE  here \in RunStates /\ RunOK(r, Decided(here), thread, executed)
<1>1. run[r] \in RunStates /\ RunOK(r, run[r], thread, executed)
  BY CurrentRun
<1>2. here \in RunStates
  <2>1. PICK n : n = run[r].rendered
    OBVIOUS
  <2>2. n \in 0 .. MaxContext
    BY <1>1, <2>1 DEF RunStates
  <2>3. n \in -1 .. MaxContext
    BY <2>2, SessionAssumption
  <2> QED BY <1>1, <2>1, <2>3 DEF RunStates
<1>3. /\ here.pc = "commit" /\ here.records = run[r].rendered /\ here.rendered = run[r].rendered
      /\ here.pending = run[r].pending /\ here.committed = run[r].committed
      /\ here.step = run[r].step /\ here.sink = run[r].sink /\ here.results = run[r].results
      /\ here.local = run[r].local /\ here.batch = run[r].batch /\ here.reply = run[r].reply
      /\ here.effects = run[r].effects /\ here.result = run[r].result
  BY <1>1 DEF RunStates
<1>4. RunOK(r, here, thread, executed)
  <2>1. Fitting(here, context)
    BY <1>1, <1>3 DEF RunOK, Fitting
  <2>2. Shaped(here)
    BY <1>1, <1>3, SameShape DEF RunOK
  <2>3. Counted(r, here, executed)
    BY <1>1, <1>3 DEF RunOK, Counted, Count
  <2>4. Told(r, here, thread, executed)
    BY <1>1, <1>3 DEF RunOK, Told, Unstored
  <2> QED BY <1>2, <2>1, <2>2, <2>3, <2>4 DEF RunOK
<1>5. CASE here.reply.kind = "operations"
  <2>1. PICK h : h = [here EXCEPT !.pc = "request"]
    OBVIOUS
  <2>2. h \in RunStates
    <3>1. "request" \in Places
      BY DEF Places
    <3> QED BY <1>2, <2>1, <3>1 DEF RunStates
  <2>3. /\ h.pc = "request" /\ h.records = here.records /\ h.rendered = here.rendered
        /\ h.pending = here.pending /\ h.committed = here.committed /\ h.step = here.step
        /\ h.sink = here.sink /\ h.results = here.results /\ h.local = here.local
        /\ h.batch = here.batch /\ h.reply = here.reply
        /\ h.effects = here.effects /\ h.result = here.result
    BY <1>2, <2>1 DEF RunStates
  <2>4. Fitting(h, context)
    BY <1>3, <1>4, <1>5, <2>3 DEF RunOK, Fitting
  <2>5. Shaped(h)
    BY <1>4, <2>3, SameShape DEF RunOK
  <2>6. h.batch = {} /\ \A call \in Ops(r, executed) : call.n <= here.effects + 0
    BY <1>3, <1>4, <2>3 DEF RunOK, Counted, Count, Storing
  <2>7. Cardinality({}) = 0 /\ IsFiniteSet({})
    BY FS_EmptySet
  <2>8. Count(h) = here.effects + 0
    BY <2>3, <2>6, <2>7 DEF Count
  <2>9. Cardinality(h.batch) < Len(h.reply.requests)
    <3>1. PICK q : q = h.reply.requests
      OBVIOUS
    <3>2. q \in Seq(ProviderCalls)
      <4>1. h.reply \in Answers
        <5>1. h.reply \in Answers \union {noReply}
          BY <2>2 DEF RunStates
        <5>2. noReply.kind # "operations"
          BY DEF noReply
        <5> QED BY <1>5, <2>3, <5>1, <5>2
      <4> QED BY <3>1, <4>1 DEF Answers
    <3>3. q # <<>>
      BY <1>3, <1>4, <1>5, <2>3, <3>1 DEF RunOK, Fitting
    <3> QED BY <2>6, <2>7, <3>1, <3>2, <3>3
  <2>10. Counted(r, h, executed)
    <3>1. h.batch \subseteq Ops(r, executed)
      BY <2>6
    <3>2. \A call \in Ops(r, executed) : call.n <= Count(h)
      BY <2>6, <2>8
    <3> QED BY <2>6, <2>7, <2>9, <3>1, <3>2 DEF Counted
  <2>11. Told(r, h, thread, executed)
    BY <1>3, <1>4, <2>3 DEF RunOK, Told, Unstored
  <2>12. RunOK(r, h, thread, executed)
    BY <2>2, <2>4, <2>5, <2>10, <2>11 DEF RunOK
  <2> QED BY <1>2, <1>5, <2>1, <2>12 DEF Decided
<1>6. CASE here.reply.kind # "operations"
  <2>1. PICK h : h = Goto(here, "flush")
    OBVIOUS
  <2>2. h \in RunStates /\ SameWork(here, h) /\ h.pc = "flush" /\ h.step = here.step
    <3>1. "flush" \in Places
      BY DEF Places
    <3> QED BY <1>2, <2>1, <3>1, GotoType
  <2>3. here.step < MaxSteps
    BY <1>3, <1>4 DEF RunOK, Fitting
  <2>4. RunOK(r, h, thread, executed)
    BY <1>3, <1>4, <2>2, <2>3, MoveOK DEF Between, Asking, Reactions
  <2>5. RunOK(r, Finish(here, "failed"), thread, executed)
    BY <1>2, FinishOK
  <2>6. Decided(here) = IF ValidateContinuity(stepItems(here)) THEN h ELSE Finish(here, "failed")
    BY <1>6, <2>1 DEF Decided
  <2> QED BY <1>2, <2>4, <2>5, <2>6
<1> QED BY <1>5, <1>6

LEMMA commitContextRenderKeeps ==
    ASSUME Inv, NEW r \in Runs, commitContextRender(r), quiet' \in BOOLEAN PROVE Inv'
<1>1. run[r] \in RunStates /\ RunOK(r, run[r], thread, executed) /\ run[r].pc = "commit"
  BY CurrentRun DEF commitContextRender
<1>2. PICK here : here = [run[r] EXCEPT !.records = run[r].rendered]
  OBVIOUS
<1>3. here \in RunStates /\ RunOK(r, Decided(here), thread, executed)
  BY <1>1, <1>2, DecidedOK
<1>4. PICK stored : stored = [thread EXCEPT !.rendered = run[r].rendered]
  OBVIOUS
<1>5. Stores(thread, stored, executed)
  <2>1. PICK n : n = run[r].rendered
    OBVIOUS
  <2>2. n \in 0 .. MaxContext
    BY <1>1, <2>1 DEF RunStates
  <2>3. n <= context
    BY <1>1, <2>1 DEF RunOK, Fitting
  <2> QED BY <1>4, <2>1, <2>2, <2>3 DEF Stores, Threads, Inv, TypeInv, RecordInv, BatchInv
<1>6. CASE Local(r, Decided(here))
  BY <1>3, <1>6, LocalKeeps DEF commitContextRender
<1>7. CASE appendThreadRecords(r, stored, Decided(here), Finish(here, "failed"))
  BY <1>3, <1>5, <1>7, MoreStored, FinishOK, AppendKeeps DEF commitContextRender
<1> QED BY <1>2, <1>4, <1>6, <1>7 DEF commitContextRender

(* Moves of a run while it has calls to store.                             *)
LEMMA StoringOK ==
    ASSUME NEW r \in Runs, NEW old, NEW new \in RunStates, NEW th, NEW ex,
           RunOK(r, old, th, ex), SameWork(old, new), new.step = old.step,
           \/ old.pc = "request" /\ new.pc = "execute"
           \/ old.pc = "check request" /\ new.pc = "check execute",
           new.pc = "execute" =>
             operationCallID(r, new.effects + Cardinality(new.batch) + 1) \in th.requested,
           new.pc = "check execute" => operationCallID(r, new.effects + 1) \in th.requested
    PROVE  RunOK(r, new, th, ex)
<1>1. Fitting(new, context)
  BY DEF RunOK, Fitting, SameWork
<1>2. Shaped(new)
  BY SameShape DEF RunOK, SameWork
<1>3. Counted(r, new, ex)
  BY DEF RunOK, Counted, Count, SameWork, Storing
<1>4. Told(r, new, th, ex)
  BY DEF RunOK, Told, Unstored, SameWork
<1> QED BY <1>1, <1>2, <1>3, <1>4 DEF RunOK

(* The call a run is at and the calls it has executed.                     *)
LEMMA BatchNumber ==
    ASSUME Inv, NEW r \in Runs, run[r].pc # "done"
    PROVE  /\ run[r].effects \in Nat /\ IsFiniteSet(run[r].batch)
           /\ Cardinality(run[r].batch) \in Nat
           /\ operationCall(r) \in Calls /\ ~IsReaction(operationCall(r))
           /\ operationCall(r).run = r
           /\ operationCall(r).n = run[r].effects + Cardinality(run[r].batch) + 1
           /\ checkCall(r) \in Calls /\ ~IsReaction(checkCall(r)) /\ checkCall(r).run = r
           /\ checkCall(r).n = run[r].effects + 1
<1>1. run[r] \in RunStates /\ RunOK(r, run[r], thread, executed)
  BY CurrentRun
<1>2. PICK e, k : e = run[r].effects /\ k = Cardinality(run[r].batch)
  OBVIOUS
<1>3. e \in Nat
  BY <1>1, <1>2 DEF RunStates
<1>4. IsFiniteSet(run[r].batch)
  BY <1>1 DEF RunOK, Counted
<1>5. k \in Nat
  BY <1>2, <1>4, FS_CardinalityType
<1>6. e + k + 1 \in Nat /\ e + 1 \in Nat
  BY <1>3, <1>5
<1>7. operationCall(r) = operationCallID(r, e + k + 1) /\ checkCall(r) = operationCallID(r, e + 1)
  BY <1>2 DEF operationCall, checkCall
<1> QED BY <1>2, <1>3, <1>4, <1>5, <1>6, <1>7, OperationCall

LEMMA RequestOperationKeeps ==
    ASSUME Inv, NEW r \in Runs, RequestOperation(r), quiet' \in BOOLEAN PROVE Inv'
<1>1. run[r] \in RunStates /\ RunOK(r, run[r], thread, executed) /\ run[r].pc = "request"
  BY CurrentRun DEF RequestOperation
<1>2. PICK stored : stored = [thread EXCEPT !.requested = @ \union {operationCall(r)}]
  OBVIOUS
<1>3. operationCall(r) \in Calls
  BY <1>1, BatchNumber
<1>4. Stores(thread, stored, executed) /\ operationCall(r) \in stored.requested
  BY <1>2, <1>3, RequestStores
<1>5. PICK h : h = Goto(run[r], "execute")
  OBVIOUS
<1>6. h \in RunStates /\ SameWork(run[r], h) /\ h.pc = "execute" /\ h.step = run[r].step
  <2>1. "execute" \in Places
    BY DEF Places
  <2> QED BY <1>1, <1>5, <2>1, GotoType
<1>7. operationCallID(r, h.effects + Cardinality(h.batch) + 1) \in stored.requested
  BY <1>4, <1>6 DEF operationCall, SameWork
<1>8. RunOK(r, h, stored, executed)
  BY <1>1, <1>4, <1>6, <1>7, MoreStored, StoringOK
<1> QED BY <1>1, <1>2, <1>4, <1>5, <1>8, FinishOK, AppendKeeps DEF RequestOperation

LEMMA RequestCheckKeeps ==
    ASSUME Inv, NEW r \in Runs, RequestCheck(r), quiet' \in BOOLEAN PROVE Inv'
<1>1. run[r] \in RunStates /\ RunOK(r, run[r], thread, executed) /\ run[r].pc = "check request"
  BY CurrentRun DEF RequestCheck
<1>2. PICK stored : stored = [thread EXCEPT !.requested = @ \union {checkCall(r)}]
  OBVIOUS
<1>3. checkCall(r) \in Calls
  BY <1>1, BatchNumber
<1>4. Stores(thread, stored, executed) /\ checkCall(r) \in stored.requested
  BY <1>2, <1>3, RequestStores
<1>5. PICK h : h = Goto(run[r], "check execute")
  OBVIOUS
<1>6. h \in RunStates /\ SameWork(run[r], h) /\ h.pc = "check execute" /\ h.step = run[r].step
  <2>1. "check execute" \in Places
    BY DEF Places
  <2> QED BY <1>1, <1>5, <2>1, GotoType
<1>7. operationCallID(r, h.effects + 1) \in stored.requested
  BY <1>4, <1>6 DEF checkCall, SameWork
<1>8. RunOK(r, h, stored, executed)
  BY <1>1, <1>4, <1>6, <1>7, MoreStored, StoringOK
<1> QED BY <1>1, <1>2, <1>4, <1>5, <1>8, FinishOK, AppendKeeps DEF RequestCheck

LEMMA ExecuteCheckKeeps ==
    ASSUME Inv, NEW r \in Runs, ExecuteCheck(r), quiet' \in BOOLEAN PROVE Inv'
<1>1. run[r] \in RunStates /\ RunOK(r, run[r], thread, executed) /\ run[r].pc = "check execute"
  BY CurrentRun DEF ExecuteCheck
<1>2. PICK call : call = checkCall(r)
  OBVIOUS
<1>3. /\ call \in Calls /\ call.run = r /\ ~IsReaction(call) /\ call.n = run[r].effects + 1
      /\ call = operationCallID(r, run[r].effects + 1)
  BY <1>1, <1>2, BatchNumber DEF checkCall
<1>4. call \in thread.requested
  BY <1>1, <1>3 DEF RunOK, Told
<1>5. executed' = executed \union {call}
  BY <1>2 DEF ExecuteCheck
<1>6. Stores(thread, thread, executed') /\ Executes(r) /\ executed' \subseteq Calls
  BY <1>3, <1>4, <1>5, SameThread DEF Executes, Inv, RecordInv, TypeInv
<1>7. PICK h : h = Goto(run[r], "check complete")
  OBVIOUS
<1>8. /\ h \in RunStates /\ SameWork(run[r], h) /\ h.pc = "check complete"
      /\ h.step = run[r].step
  <2>1. "check complete" \in Places
    BY DEF Places
  <2> QED BY <1>1, <1>7, <2>1, GotoType
<1>9. Ops(r, executed') = Ops(r, executed) \union {call}
  BY <1>3, <1>5 DEF Ops
<1>10. Fitting(h, context)
  BY <1>1, <1>8 DEF RunOK, Fitting, SameWork
<1>11. Shaped(h)
  BY <1>1, <1>8, SameShape DEF RunOK, SameWork
<1>12. Counted(r, h, executed')
  <2>1. \A c \in Ops(r, executed) : c.n <= run[r].effects + 0
    BY <1>1 DEF RunOK, Counted, Count
  <2>2. Count(h) = run[r].effects + 1
    BY <1>8 DEF Count, SameWork
  <2>3. run[r].effects \in Nat /\ \A c \in Ops(r, executed) : c.n \in Nat
    BY <1>1 DEF RunStates, Ops, Inv, TypeInv, Calls
  <2>4. \A c \in Ops(r, executed) : c.n <= Count(h)
    BY <2>1, <2>2, <2>3
  <2>5. call.n <= Count(h)
    BY <1>3, <2>2, <2>3
  <2>6. \A c \in Ops(r, executed') : c.n <= Count(h)
    BY <1>9, <2>4, <2>5
  <2> QED BY <1>1, <1>8, <1>9, <2>6 DEF RunOK, Counted, SameWork, Storing
<1>13. Told(r, h, thread, executed')
  <2>1. Ops(r, executed) \subseteq thread.completed \union run[r].batch
    BY <1>1 DEF RunOK, Told, Unstored
  <2>2. Unstored(r, h) = run[r].batch \union {call} /\ call \in executed'
    BY <1>3, <1>5, <1>8 DEF Unstored, SameWork
  <2>3. Ops(r, executed') \subseteq thread.completed \union Unstored(r, h)
    BY <1>9, <2>1, <2>2
  <2> QED BY <1>1, <1>3, <1>8, <2>2, <2>3 DEF RunOK, Told, SameWork
<1>14. RunOK(r, h, thread, executed')
  BY <1>8, <1>10, <1>11, <1>12, <1>13 DEF RunOK
<1> QED BY <1>6, <1>7, <1>14, StepKeeps DEF ExecuteCheck, Local, Move, Inv, TypeInv

LEMMA CompleteCheckKeeps ==
    ASSUME Inv, NEW r \in Runs, CompleteCheck(r), quiet' \in BOOLEAN PROVE Inv'
<1>1. run[r] \in RunStates /\ RunOK(r, run[r], thread, executed) /\ run[r].pc = "check complete"
  BY CurrentRun DEF CompleteCheck
<1>2. PICK call : call = checkCall(r)
  OBVIOUS
<1>3. call = operationCallID(r, run[r].effects + 1) /\ call \in executed
  BY <1>1, <1>2 DEF checkCall, RunOK, Told
<1>4. PICK stored : stored = [thread EXCEPT !.completed = @ \union {call}]
  OBVIOUS
<1>5. Stores(thread, stored, executed) /\ stored.completed = thread.completed \union {call}
  BY <1>3, <1>4, CompletionStores
<1>6. PICK n \in Nat : n = run[r].effects + 1
  <2>1. run[r].effects \in Nat
    BY <1>1 DEF RunStates
  <2> QED BY <2>1
<1>7. PICK h : h = [run[r] EXCEPT !.pc = "flush", !.effects = n]
  OBVIOUS
<1>8. h \in RunStates
  <2>1. "flush" \in Places
    BY DEF Places
  <2> QED BY <1>1, <1>7, <2>1 DEF RunStates
<1>9. /\ h.pc = "flush" /\ h.effects = n /\ h.records = run[r].records
      /\ h.rendered = run[r].rendered /\ h.pending = run[r].pending
      /\ h.committed = run[r].committed /\ h.step = run[r].step /\ h.sink = run[r].sink
      /\ h.results = run[r].results /\ h.local = run[r].local /\ h.batch = run[r].batch
      /\ h.reply = run[r].reply /\ h.result = run[r].result
  BY <1>1, <1>7 DEF RunStates
<1>10. Fitting(h, context)
  BY <1>1, <1>9 DEF RunOK, Fitting
<1>11. Shaped(h)
  BY <1>1, <1>9, SameShape DEF RunOK
<1>12. Counted(r, h, executed)
  <2>1. Count(run[r]) = n
    BY <1>1, <1>6 DEF Count
  <2>2. Count(h) = n
    <3>1. AtRest(h)
      BY <1>9 DEF AtRest
    <3> QED BY <1>9, <3>1, CountAtRest
  <2> QED BY <1>1, <1>9, <2>1, <2>2 DEF RunOK, Counted, Storing
<1>13. Told(r, h, stored, executed)
  <2>1. Ops(r, executed) \subseteq thread.completed \union (run[r].batch \union {call})
    BY <1>1, <1>3 DEF RunOK, Told, Unstored
  <2>2. Unstored(r, h) = run[r].batch
    BY <1>9 DEF Unstored
  <2>3. Ops(r, executed) \subseteq stored.completed \union Unstored(r, h)
    BY <1>5, <2>1, <2>2
  <2> QED BY <1>1, <1>5, <1>9, <2>3 DEF RunOK, Told, Stores
<1>14. RunOK(r, h, stored, executed)
  BY <1>8, <1>10, <1>11, <1>12, <1>13 DEF RunOK
<1>15. appendThreadRecords(r, stored, h, Finish(run[r], "failed"))
  BY <1>2, <1>4, <1>6, <1>7 DEF CompleteCheck
<1> QED BY <1>1, <1>5, <1>14, <1>15, FinishOK, AppendKeeps DEF CompleteCheck

(* The result of an operation, in the transcript.                          *)
LEMMA ResultItem ==
    ASSUME NEW r \in Runs, NEW call \in ProviderCalls, NEW size \in ResultSizes
    PROVE  LET item == operationResultTranscriptItem(r, call, size)
           IN  /\ item \in Items /\ item.kind = "tool_result" /\ item.context = 0
               /\ item.calls = <<call>>
<1>1. "tool_result" \in Kinds /\ "tool" \in Roles /\ size \in Nat
  BY SessionAssumption DEF Kinds, Roles
<1>2. <<call>> \in Seq(ProviderCalls)
  OBVIOUS
<1> QED BY <1>1, <1>2, InputItemType DEF operationResultTranscriptItem, Items, Records, Diff

(* The results of a batch grow by one, or stay.                            *)
LEMMA MoreResults ==
    ASSUME NEW r \in Runs, NEW call \in ProviderCalls, NEW size \in ResultSizes,
           NEW results \in Seq(Items),
           \A i \in 1 .. Len(results) :
             /\ results[i].kind = "tool_result" /\ results[i].context = 0
             /\ \E x \in ProviderCalls : x # NoCall /\ results[i].calls = <<x>>
    PROVE  LET next == IF call = NoCall THEN results
                       ELSE Append(results, operationResultTranscriptItem(r, call, size))
           IN  /\ next \in Seq(Items)
               /\ \A i \in 1 .. Len(next) :
                    /\ next[i].kind = "tool_result" /\ next[i].context = 0
                    /\ \E x \in ProviderCalls : x # NoCall /\ next[i].calls = <<x>>
<1>1. CASE call = NoCall
  BY <1>1
<1>2. CASE call # NoCall
  <2>1. PICK item \in Items : item = operationResultTranscriptItem(r, call, size)
    BY ResultItem
  <2>2. item.kind = "tool_result" /\ item.context = 0 /\ item.calls = <<call>>
    BY <2>1, ResultItem
  <2>3. PICK next : next = Append(results, item)
    OBVIOUS
  <2>4. /\ next \in Seq(Items)
        /\ \A i \in 1 .. Len(next) : next[i] = item \/ (i \in 1 .. Len(results) /\ next[i] = results[i])
    BY <2>1, <2>3
  <2>5. ASSUME NEW i \in 1 .. Len(next)
        PROVE  /\ next[i].kind = "tool_result" /\ next[i].context = 0
               /\ \E x \in ProviderCalls : x # NoCall /\ next[i].calls = <<x>>
    <3>1. CASE next[i] = item
      BY <1>2, <2>2, <3>1
    <3>2. CASE i \in 1 .. Len(results) /\ next[i] = results[i]
      BY <3>2
    <3> QED BY <2>4, <3>1, <3>2
  <2> QED BY <1>2, <2>1, <2>3, <2>4, <2>5
<1> QED BY <1>1, <1>2

LEMMA ExecuteOperationKeeps ==
    ASSUME Inv, NEW r \in Runs, ExecuteOperation(r), quiet' \in BOOLEAN PROVE Inv'
<1>1. run[r] \in RunStates /\ RunOK(r, run[r], thread, executed) /\ run[r].pc = "execute"
  BY CurrentRun DEF ExecuteOperation
<1>2. PICK call, e, k : /\ call = operationCall(r) /\ e = run[r].effects
                        /\ k = Cardinality(run[r].batch)
  OBVIOUS
<1>3. /\ e \in Nat /\ k \in Nat /\ IsFiniteSet(run[r].batch)
      /\ call \in Calls /\ call.run = r /\ ~IsReaction(call) /\ call.n = e + k + 1
  BY <1>1, <1>2, BatchNumber
<1>4. call \in thread.requested
  BY <1>1, <1>2 DEF RunOK, Told, operationCall
<1>5. executed' = executed \union {call}
  BY <1>2 DEF ExecuteOperation
<1>6. Stores(thread, thread, executed') /\ Executes(r) /\ executed' \subseteq Calls
  BY <1>3, <1>4, <1>5, SameThread DEF Executes, Inv, RecordInv, TypeInv
<1>7. Ops(r, executed') = Ops(r, executed) \union {call}
  BY <1>3, <1>5 DEF Ops
<1>8. /\ \A c \in Ops(r, executed) : c.n <= e + k /\ c.n \in Nat
      /\ run[r].batch \subseteq Ops(r, executed)
  <2>1. Count(run[r]) = e + k
    BY <1>1, <1>2 DEF Count
  <2>2. \A c \in Ops(r, executed) : c.n \in Nat
    BY DEF Ops, Inv, TypeInv, Calls
  <2> QED BY <1>1, <2>1, <2>2 DEF RunOK, Counted
<1>9. call \notin run[r].batch
  BY <1>3, <1>8
<1>10. PICK batch : batch = run[r].batch \union {call}
  OBVIOUS
<1>11. /\ IsFiniteSet(batch) /\ Cardinality(batch) = k + 1 /\ batch \in SUBSET Calls
       /\ batch \subseteq Ops(r, executed')
  <2>1. IsFiniteSet(batch) /\ Cardinality(batch) = k + 1
    BY <1>2, <1>3, <1>9, <1>10, FS_AddElement
  <2>2. batch \subseteq Ops(r, executed')
    BY <1>7, <1>8, <1>10
  <2>3. Ops(r, executed') \subseteq Calls
    BY <1>6 DEF Ops
  <2> QED BY <2>1, <2>2, <2>3
<1>12. \A c \in Ops(r, executed') : c.n <= e + (k + 1)
  <2>1. ASSUME NEW c \in Ops(r, executed) PROVE c.n <= e + (k + 1)
    <3>1. c.n <= e + k /\ c.n \in Nat
      BY <1>8
    <3> QED BY <1>3, <3>1
  <2>2. call.n <= e + (k + 1)
    BY <1>3
  <2> QED BY <1>7, <2>1, <2>2
<1>13. request(run[r]) \in ProviderCalls
  <2>1. run[r].reply \in Answers /\ k < Len(run[r].reply.requests)
    <3>1. run[r].reply.kind = "operations" /\ k < Len(run[r].reply.requests)
      BY <1>1, <1>2 DEF RunOK, Fitting, Counted
    <3>2. run[r].reply \in Answers \union {noReply}
      BY <1>1 DEF RunStates
    <3>3. noReply.kind # "operations"
      BY DEF noReply
    <3> QED BY <3>1, <3>2, <3>3
  <2>2. PICK q \in Seq(ProviderCalls) : q = run[r].reply.requests
    BY <2>1 DEF Answers
  <2>3. q[k + 1] \in ProviderCalls
    BY <1>3, <2>1, <2>2
  <2> QED BY <1>2, <2>2, <2>3 DEF request
<1>14. PICK size \in ResultSizes :
         LET asked == request(run[r])
             here == [run[r] EXCEPT
                        !.batch = @ \union {call},
                        !.results = IF asked = NoCall THEN @
                                    ELSE Append(@, operationResultTranscriptItem(r, asked, size))]
             more == Cardinality(here.batch) < Len(here.reply.requests)
             checks == Range(here.reply.requests) \intersect Edits # {}
             done == [here EXCEPT !.effects = @ + Cardinality(here.batch)]
         IN  Local(r, IF more THEN Goto(here, "request")
                      ELSE Goto(done, IF checks THEN "check request" ELSE "flush"))
  BY <1>2 DEF ExecuteOperation
<1>15. PICK results : results = IF request(run[r]) = NoCall THEN run[r].results
               ELSE Append(run[r].results, operationResultTranscriptItem(r, request(run[r]), size))
  OBVIOUS
<1>16. /\ results \in Seq(Items)
       /\ \A i \in 1 .. Len(results) :
             /\ results[i].kind = "tool_result" /\ results[i].context = 0
             /\ \E x \in ProviderCalls : x # NoCall /\ results[i].calls = <<x>>
  <2>1. PICK old \in Seq(Items) : old = run[r].results
    BY <1>1 DEF RunStates
  <2>2. \A i \in 1 .. Len(old) :
             /\ old[i].kind = "tool_result" /\ old[i].context = 0
             /\ \E x \in ProviderCalls : x # NoCall /\ old[i].calls = <<x>>
    BY <1>1, <2>1 DEF RunOK, Shaped
  <2>3. size \in ResultSizes
    BY <1>14
  <2>4. PICK asked \in ProviderCalls : asked = request(run[r])
    BY <1>13
  <2>5. results = IF asked = NoCall THEN old
                  ELSE Append(old, operationResultTranscriptItem(r, asked, size))
    BY <1>15, <2>1, <2>4
  <2> QED BY <2>2, <2>3, <2>5, MoreResults
<1>17. PICK here : here = [run[r] EXCEPT !.batch = batch, !.results = results]
  OBVIOUS
<1>18. here \in RunStates /\ here.batch = batch /\ here.effects = e /\ here.reply = run[r].reply
  BY <1>1, <1>2, <1>11, <1>16, <1>17 DEF RunStates
<1>19. PICK checks : checks = (Range(here.reply.requests) \intersect Edits # {})
  OBVIOUS
<1>20. PICK done : done = [here EXCEPT !.effects = @ + Cardinality(here.batch)]
  OBVIOUS
<1>21. PICK pc : pc = IF checks THEN "check request" ELSE "flush"
  OBVIOUS
<1>22. /\ pc \in {"check request", "flush"}
       /\ done = [here EXCEPT !.effects = e + (k + 1)]
       /\ Local(r, IF k + 1 < Len(run[r].reply.requests) THEN Goto(here, "request")
                   ELSE Goto(done, pc))
  <2>1. Local(r, IF Cardinality(here.batch) < Len(here.reply.requests) THEN Goto(here, "request")
                 ELSE Goto(done, pc))
    BY <1>10, <1>14, <1>15, <1>17, <1>19, <1>20, <1>21
  <2>2. done = [here EXCEPT !.effects = e + (k + 1)]
    BY <1>11, <1>18, <1>20
  <2>3. pc \in {"check request", "flush"}
    BY <1>21
  <2> QED BY <1>11, <1>18, <2>1, <2>2, <2>3
<1>23. ASSUME NEW h \in RunStates,
              h.batch = batch, h.results = results, h.reply = run[r].reply,
              h.records = run[r].records, h.rendered = run[r].rendered,
              h.pending = run[r].pending, h.committed = run[r].committed,
              h.step = run[r].step, h.sink = run[r].sink, h.local = run[r].local,
              h.result = run[r].result,
              \/ h.pc = "request" /\ h.effects = e /\ k + 1 < Len(run[r].reply.requests)
              \/ h.pc \in {"check request", "flush"} /\ h.effects = e + (k + 1)
       PROVE  RunOK(r, h, thread, executed')
  <2>1. Fitting(h, context)
    BY <1>1, <1>23 DEF RunOK, Fitting
  <2>2. Shaped(h)
    <3>1. h.pc # "checkpoint"
      BY <1>23
    <3>2. Shaped(run[r])
      BY <1>1 DEF RunOK
    <3>3. \A i \in h.committed + 1 .. Len(h.pending) : h.pending[i].kind = "input"
      BY <1>23, <3>2 DEF Shaped
    <3>4. \A i \in 1 .. Len(h.sink) : h.sink[i].kind # "tool_result"
      BY <1>23, <3>2 DEF Shaped
    <3>5. Batched(h.local)
      BY <1>23, <3>2 DEF Shaped
    <3> QED BY <1>16, <1>23, <3>1, <3>3, <3>4, <3>5 DEF Shaped
  <2>3. Count(h) = e + (k + 1)
    <3>1. CASE h.pc = "request"
      BY <1>11, <1>23, <3>1 DEF Count
    <3>2. CASE h.pc \in {"check request", "flush"}
      <4>1. AtRest(h) /\ h.effects = e + (k + 1)
        BY <1>23, <3>2 DEF AtRest
      <4>2. e + (k + 1) \in Nat
        <5>1. e \in Nat /\ k \in Nat
          BY <1>3
        <5> QED BY <5>1
      <4> QED BY <4>1, <4>2, CountAtRest
    <3> QED BY <1>23, <3>1, <3>2
  <2>4. Counted(r, h, executed')
    BY <1>11, <1>12, <1>23, <2>3 DEF Counted, Storing
  <2>5. Told(r, h, thread, executed')
    <3>1. Ops(r, executed) \subseteq thread.completed \union run[r].batch
      BY <1>1 DEF RunOK, Told, Unstored
    <3>2. Unstored(r, h) = batch
      BY <1>23 DEF Unstored
    <3>3. Ops(r, executed') \subseteq thread.completed \union Unstored(r, h)
      BY <1>7, <1>10, <3>1, <3>2
    <3> QED BY <1>1, <1>23, <3>3 DEF RunOK, Told
  <2> QED BY <1>23, <2>1, <2>2, <2>4, <2>5 DEF RunOK
<1>24. CASE k + 1 < Len(run[r].reply.requests)
  <2>1. PICK h : h = [here EXCEPT !.pc = "request"]
    OBVIOUS
  <2>2. h \in RunStates
    <3>1. "request" \in Places
      BY DEF Places
    <3> QED BY <1>18, <2>1, <3>1 DEF RunStates
  <2>3. /\ h.pc = "request" /\ h.effects = e
        /\ h.batch = batch /\ h.results = results /\ h.reply = run[r].reply
        /\ h.records = run[r].records /\ h.rendered = run[r].rendered
        /\ h.pending = run[r].pending /\ h.committed = run[r].committed
        /\ h.step = run[r].step /\ h.sink = run[r].sink /\ h.local = run[r].local
        /\ h.result = run[r].result
    BY <1>1, <1>2, <1>17, <2>1 DEF RunStates
  <2>4. RunOK(r, h, thread, executed')
    BY <1>23, <1>24, <2>2, <2>3
  <2>5. Local(r, h)
    BY <1>22, <1>24, <2>1 DEF Goto
  <2> QED BY <1>6, <2>4, <2>5, StepKeeps DEF ExecuteOperation, Local, Move, Inv, TypeInv
<1>25. CASE ~(k + 1 < Len(run[r].reply.requests))
  <2>1. PICK h : h = [here EXCEPT !.effects = e + (k + 1), !.pc = pc]
    OBVIOUS
  <2>2. h \in RunStates
    <3>1. pc \in Places
      BY <1>22 DEF Places
    <3>2. e \in Nat /\ k \in Nat
      BY <1>3
    <3>3. PICK n \in Nat : n = e + (k + 1)
      BY <3>2
    <3> QED BY <1>18, <2>1, <3>1, <3>3 DEF RunStates
  <2>3. /\ h.pc = pc /\ h.effects = e + (k + 1)
        /\ h.batch = batch /\ h.results = results /\ h.reply = run[r].reply
        /\ h.records = run[r].records /\ h.rendered = run[r].rendered
        /\ h.pending = run[r].pending /\ h.committed = run[r].committed
        /\ h.step = run[r].step /\ h.sink = run[r].sink /\ h.local = run[r].local
        /\ h.result = run[r].result
    BY <1>1, <1>17, <2>1 DEF RunStates
  <2>4. RunOK(r, h, thread, executed')
    BY <1>22, <1>23, <2>2, <2>3
  <2>5. Local(r, h)
    <3>1. h = Goto(done, pc)
      BY <1>18, <1>22, <2>1 DEF Goto, RunStates
    <3> QED BY <1>22, <1>25, <3>1
  <2> QED BY <1>6, <2>4, <2>5, StepKeeps DEF ExecuteOperation, Local, Move, Inv, TypeInv
<1> QED BY <1>24, <1>25

-----------------------------------------------------------------------------
(* The ends of a turn.                                                     *)

LEMMA OutboundStores ==
    ASSUME Inv, NEW r \in Runs
    PROVE  LET stored == [thread EXCEPT !.outbound = @ \union {r}]
           IN  Stores(thread, stored, executed) /\ r \in stored.outbound
  BY DEF Stores, Threads, Inv, TypeInv, RecordInv, BatchInv

LEMMA StepLimitKeeps ==
    ASSUME Inv, NEW r \in Runs, StepLimit(r), quiet' \in BOOLEAN PROVE Inv'
<1>1. run[r] \in RunStates /\ RunOK(r, run[r], thread, executed) /\ run[r].pc = "step"
  BY CurrentRun DEF StepLimit
<1>2. PICK stored : stored = [thread EXCEPT !.outbound = @ \union {r}]
  OBVIOUS
<1>3. Stores(thread, stored, executed)
  BY <1>2, OutboundStores
<1>4. PICK h : h = Goto(run[r], "evaluate")
  OBVIOUS
<1>5. h \in RunStates /\ SameWork(run[r], h) /\ h.pc = "evaluate"
  <2>1. "evaluate" \in Places
    BY DEF Places
  <2> QED BY <1>1, <1>4, <2>1, GotoType
<1>6. RunOK(r, h, thread, executed)
  BY <1>1, <1>5, MoveOK DEF Between, Asking, Reactions
<1>7. CASE Local(r, h)
  BY <1>6, <1>7, LocalKeeps DEF StepLimit
<1>8. CASE appendThreadRecords(r, stored, Finish(run[r], "failed"), Finish(run[r], "failed"))
  BY <1>1, <1>3, <1>8, FinishOK, AppendKeeps DEF StepLimit
<1> QED BY <1>2, <1>4, <1>7, <1>8 DEF StepLimit

LEMMA applyTerminalAgentDecisionKeeps ==
    ASSUME Inv, NEW r \in Runs, applyTerminalAgentDecision(r), quiet' \in BOOLEAN PROVE Inv'
<1>1. run[r] \in RunStates /\ RunOK(r, run[r], thread, executed) /\ run[r].pc = "terminal"
  BY CurrentRun DEF applyTerminalAgentDecision
<1>2. PICK stored : stored = [thread EXCEPT !.outbound = @ \union {r}]
  OBVIOUS
<1>3. Stores(thread, stored, executed) /\ r \in stored.outbound
  BY <1>2, OutboundStores
<1>4. PICK h : h = Goto(run[r], "compact")
  OBVIOUS
<1>5. h \in RunStates /\ SameWork(run[r], h) /\ h.pc = "compact" /\ h.reply = run[r].reply
  <2>1. "compact" \in Places
    BY DEF Places
  <2> QED BY <1>1, <1>4, <2>1, GotoType DEF SameWork
<1>6. CASE run[r].reply.kind = "wait"
  <2>1. RunOK(r, h, thread, executed)
    BY <1>1, <1>5, <1>6, MoveOK DEF Between, Asking, Reactions
  <2> QED BY <1>4, <1>6, <2>1, LocalKeeps DEF applyTerminalAgentDecision
<1>7. CASE run[r].reply.kind # "wait"
  <2>1. RunOK(r, run[r], stored, executed)
    BY <1>1, <1>3, MoreStored
  <2>2. RunOK(r, h, stored, executed)
    BY <1>1, <1>3, <1>5, <2>1, MoveOK DEF Between, Asking, Reactions
  <2>3. appendThreadRecords(r, stored, h, Finish(run[r], "failed"))
    BY <1>2, <1>4, <1>7 DEF applyTerminalAgentDecision
  <2> QED BY <1>1, <1>3, <2>2, <2>3, FinishOK, AppendKeeps DEF applyTerminalAgentDecision
<1> QED BY <1>6, <1>7

LEMMA evaluateContinuationKeeps ==
    ASSUME Inv, NEW r \in Runs, evaluateContinuation(r), quiet' \in BOOLEAN PROVE Inv'
<1>1. run[r] \in RunStates /\ RunOK(r, run[r], thread, executed) /\ run[r].pc = "evaluate"
  BY CurrentRun DEF evaluateContinuation
<1>2. PICK h : h = Goto(run[r], "terminal")
  OBVIOUS
<1>3. h \in RunStates /\ SameWork(run[r], h) /\ h.pc = "terminal"
  <2>1. "terminal" \in Places
    BY DEF Places
  <2> QED BY <1>1, <1>2, <2>1, GotoType
<1>4. RunOK(r, h, thread, executed)
  BY <1>1, <1>3, MoveOK DEF Between, Asking, Reactions
<1>5. CASE Local(r, h)
  BY <1>4, <1>5, LocalKeeps DEF evaluateContinuation
<1>6. CASE Local(r, Finish(run[r], "failed"))
  BY <1>1, <1>6, FinishOK, LocalKeeps DEF evaluateContinuation
<1>7. PICK n : n = run[r].cont + 1
  OBVIOUS
<1>8. PICK sent \in Seq(Items) : sent = <<inputItem(r)>>
  BY OneInput
<1>9. PICK g : g = [run[r] EXCEPT !.pc = "react", !.phase = "turn", !.cont = n, !.step = 0,
                                  !.pending = sent, !.committed = 0]
  OBVIOUS
<1>10. CASE Local(r, g) /\ ~(run[r].cont >= MaxContinuations)
  <2>1. n \in 0 .. MaxContinuations /\ 0 \in 0 .. MaxSteps
    <3>1. PICK c \in 0 .. MaxContinuations : c = run[r].cont
      BY <1>1 DEF RunStates
    <3> QED BY <1>7, <1>10, <3>1, SessionAssumption
  <2>2. "react" \in Places
    BY DEF Places
  <2>3. g \in RunStates
    BY <1>1, <1>9, <2>1, <2>2 DEF RunStates
  <2>4. /\ g.pc = "react" /\ g.pending = sent /\ g.committed = 0
        /\ g.records = run[r].records /\ g.rendered = run[r].rendered
        /\ g.sink = run[r].sink /\ g.results = run[r].results /\ g.local = run[r].local
        /\ g.batch = run[r].batch /\ g.effects = run[r].effects /\ g.result = run[r].result
        /\ g.reply = run[r].reply
    BY <1>1, <1>9 DEF RunStates
  <2>5. Fitting(g, context)
    <3>1. Len(sent) = 1
      BY <1>8
    <3>2. g.committed <= Len(g.pending)
      BY <2>4, <3>1
    <3> QED BY <1>1, <2>4, <3>2 DEF RunOK, Fitting
  <2>6. Shaped(g)
    <3>1. \A i \in 1 .. Len(sent) : sent[i].kind = "input"
      BY <1>8, OneInput, InputItemType
    <3>2. \A i \in g.committed + 1 .. Len(g.pending) : g.pending[i].kind = "input"
      BY <2>4, <3>1
    <3> QED BY <1>1, <2>4, <3>2 DEF RunOK, Shaped
  <2>7. Counted(r, g, executed)
    BY <1>1, <2>4 DEF RunOK, Counted, Count, Storing
  <2>8. Told(r, g, thread, executed)
    BY <1>1, <2>4 DEF RunOK, Told, Unstored
  <2>9. RunOK(r, g, thread, executed)
    BY <2>3, <2>5, <2>6, <2>7, <2>8 DEF RunOK
  <2> QED BY <1>10, <2>9, LocalKeeps DEF evaluateContinuation
<1>11. \/ Local(r, h) \/ Local(r, Finish(run[r], "failed"))
       \/ Local(r, g) /\ ~(run[r].cont >= MaxContinuations)
  <2>1. PICK verdict \in {"stop", "continue", "error"} :
          Local(r, CASE verdict = "stop"  -> Goto(run[r], "terminal")
                     [] verdict = "error" -> Finish(run[r], "failed")
                     [] OTHER -> IF run[r].cont >= MaxContinuations THEN Finish(run[r], "failed")
                                 ELSE [run[r] EXCEPT !.pc = "react", !.phase = "turn",
                                                     !.cont = @ + 1, !.step = 0,
                                                     !.pending = <<inputItem(r)>>, !.committed = 0])
    BY DEF evaluateContinuation
  <2>2. g = [run[r] EXCEPT !.pc = "react", !.phase = "turn", !.cont = @ + 1, !.step = 0,
                           !.pending = <<inputItem(r)>>, !.committed = 0]
    BY <1>7, <1>8, <1>9
  <2>3. Local(r, CASE verdict = "stop" -> h
                   [] verdict = "error" -> Finish(run[r], "failed")
                   [] OTHER -> IF run[r].cont >= MaxContinuations THEN Finish(run[r], "failed")
                               ELSE g)
    BY <1>2, <2>1, <2>2
  <2>4. CASE verdict = "stop"
    BY <2>3, <2>4
  <2>5. CASE verdict = "error"
    BY <2>3, <2>5
  <2>6. CASE verdict = "continue"
    BY <2>3, <2>6
  <2> QED BY <2>4, <2>5, <2>6
<1> QED BY <1>5, <1>6, <1>10, <1>11

-----------------------------------------------------------------------------
(* Batches make a transcript continuous.                                   *)

LEMMA OneCall == \A x : Range(<<x>>) = {x}
  BY DEF Range

LEMMA SomeCall ==
    ASSUME NEW calls \in Seq(ProviderCalls)
    PROVE  calls # <<>> <=> \E x : x \in Range(calls)
  BY DEF Range

LEMMA Kind ==
    ASSUME NEW item
    PROVE  ~(IsOutput(item) /\ IsResult(item)) /\ ~(Calling(item) /\ IsResult(item))
  BY DEF IsOutput, IsResult, Calling

LEMMA Open ==
    ASSUME NEW s, NEW i, NEW x
    PROVE  x \in openBefore(s, i) <=>
             \E j \in 1 .. i - 1 :
               /\ IsOutput(s[j]) /\ x \in Range(s[j].calls)
               /\ \A k \in j + 1 .. i - 1 : IsResult(s[k]) => x \notin Range(s[k].calls)
  BY DEF openBefore

(* Where a position of a batch is: with the calls or with the results.     *)
LEMMA BatchSides ==
    ASSUME NEW s, NEW b \in Int, NEW c \in Int, NEW e \in Int, Batch(s, b, c, e),
           NEW i \in b .. e
    PROVE  /\ i <= c => Calling(s[i])
           /\ i > c => IsResult(s[i])
           /\ IsResult(s[i]) => i > c
           /\ Calling(s[i]) => i <= c
           /\ Calling(s[i]) \/ IsResult(s[i])
           /\ b <= c /\ c < e
<1>0. b <= c /\ c < e
  BY DEF Batch
<1>1. i <= c => Calling(s[i])
  BY DEF Batch
<1>2. i > c => IsResult(s[i])
  BY DEF Batch
<1> QED BY <1>0, <1>1, <1>2, Kind

(* Batches that overlap are the same.                                      *)
Spans(s, b, c, e, i) ==
    b \in Nat \ {0} /\ c \in Nat /\ e \in Nat /\ i \in b .. e /\ Batch(s, b, c, e)

LEMMA BatchUnique ==
    ASSUME NEW s, NEW i, NEW b, NEW c, NEW e, Spans(s, b, c, e, i),
           NEW b2, NEW c2, NEW e2, Spans(s, b2, c2, e2, i)
    PROVE  b = b2 /\ c = c2 /\ e = e2
<1>0. /\ b \in Int /\ c \in Int /\ e \in Int /\ b2 \in Int /\ c2 \in Int /\ e2 \in Int
      /\ i \in Int /\ b <= i /\ i <= e /\ b2 <= i /\ i <= e2 /\ 1 <= b /\ 1 <= b2
      /\ Batch(s, b, c, e) /\ Batch(s, b2, c2, e2)
  BY DEF Spans
<1> USE <1>0
<1>1. b <= c /\ c < e /\ b2 <= c2 /\ c2 < e2
  BY DEF Batch
<1>2. c = c2
  <2>1. ASSUME NEW p \in Int, NEW q \in Int, NEW f \in Int, NEW p2 \in Int, NEW q2 \in Int,
               NEW f2 \in Int, Batch(s, p, q, f), Batch(s, p2, q2, f2),
               p <= i, i <= f, p2 <= i, i <= f2, q < q2
        PROVE  FALSE
    <3>1. p <= q /\ q < f /\ p2 <= q2 /\ q2 < f2
      BY <2>1 DEF Batch
    <3>2. CASE i <= q2
      <4>1. Calling(s[i])
        BY <2>1, <3>1, <3>2, BatchSides
      <4>2. i <= q
        BY <2>1, <3>1, <4>1, BatchSides
      <4>3. q + 1 \in p .. f /\ q + 1 \in p2 .. f2 /\ q + 1 <= q2 /\ q + 1 > q
        BY <2>1, <3>1, <4>2
      <4>4. IsResult(s[q + 1]) /\ Calling(s[q + 1])
        BY <2>1, <4>3, BatchSides
      <4> QED BY <4>4, Kind
    <3>3. CASE i > q2
      <4>1. q2 \in p .. f /\ q2 \in p2 .. f2 /\ q2 > q /\ q2 <= q2
        BY <2>1, <3>1, <3>3
      <4>2. IsResult(s[q2]) /\ Calling(s[q2])
        BY <2>1, <4>1, BatchSides
      <4> QED BY <4>2, Kind
    <3> QED BY <2>1, <3>2, <3>3
  <2>2. ~(c < c2) /\ ~(c2 < c)
    BY <2>1
  <2> QED BY <2>2
<1>3. b = b2
  <2>1. ASSUME NEW p \in Int, NEW f \in Int, NEW p2 \in Int, NEW f2 \in Int,
               Batch(s, p, c, f), Batch(s, p2, c, f2), p < p2, 1 <= p
        PROVE  FALSE
    <3>1. p2 <= c /\ c < f /\ (p2 = 1 \/ ~Calling(s[p2 - 1]))
      BY <2>1 DEF Batch
    <3>2. p2 - 1 \in p .. f /\ p2 - 1 <= c /\ p2 # 1
      BY <2>1, <3>1
    <3>3. Calling(s[p2 - 1])
      BY <2>1, <3>2, BatchSides
    <3> QED BY <3>1, <3>2, <3>3
  <2>2. ~(b < b2) /\ ~(b2 < b)
    BY <1>2, <2>1
  <2> QED BY <2>2
<1>4. e = e2
  <2>1. ASSUME NEW f \in Int, NEW f2 \in Int,
               Batch(s, b, c, f), Batch(s, b, c, f2), f < f2
        PROVE  FALSE
    <3>1. c < f /\ c < f2
      BY <2>1 DEF Batch
    <3>2. f2 \in c + 1 .. f2
      BY <3>1
    <3>3. PICK j \in b .. c : \E x \in Range(s[j].calls) : s[f2].calls = <<x>>
      BY <2>1, <3>2 DEF Batch
    <3>4. PICK x \in Range(s[j].calls) : s[f2].calls = <<x>>
      BY <3>3
    <3>5. PICK k \in c + 1 .. f : s[k].calls = <<x>>
      BY <2>1, <3>4 DEF Batch
    <3>6. k \in c + 1 .. f2
      BY <2>1, <3>5
    <3>7. k = f2
      BY <2>1, <3>2, <3>4, <3>5, <3>6 DEF Batch
    <3> QED BY <2>1, <3>5, <3>7
  <2>2. ~(e < e2) /\ ~(e2 < e)
    BY <1>2, <1>3, <2>1
  <2> QED BY <2>2
<1> QED BY <1>2, <1>3, <1>4

(* Outside of batches no call is open.                                     *)
LEMMA NothingOpen ==
    ASSUME NEW s \in Seq(Items), Batched(s), NEW i \in 1 .. Len(s) + 1,
           \A b, c, e \in 1 .. Len(s) : Batch(s, b, c, e) => i <= b \/ i > e
    PROVE  openBefore(s, i) = {}
<1>1. Len(s) \in Nat
  OBVIOUS
<1>2. ASSUME NEW x \in openBefore(s, i) PROVE FALSE
  <2>1. PICK j \in 1 .. i - 1 :
           /\ IsOutput(s[j]) /\ x \in Range(s[j].calls)
           /\ \A k \in j + 1 .. i - 1 : IsResult(s[k]) => x \notin Range(s[k].calls)
    BY Open
  <2>2. j \in 1 .. Len(s) /\ s[j] \in Items
    BY <1>1
  <2>3. Calling(s[j])
    <3>1. s[j].calls \in Seq(ProviderCalls)
      BY <2>2 DEF Items, Records
    <3> QED BY <2>1, <3>1, SomeCall DEF Calling
  <2>4. PICK b, c, e \in 1 .. Len(s) : b <= j /\ j <= e /\ Batch(s, b, c, e)
    BY <2>2, <2>3 DEF Batched
  <2>5. i > e
    BY <1>1, <2>4
  <2>6. j <= c /\ c < e
    BY <2>3, <2>4, BatchSides
  <2>7. PICK k \in c + 1 .. e : s[k].calls = <<x>>
    <3>1. j \in b .. c
      BY <2>4, <2>6
    <3> QED BY <2>1, <2>4, <3>1 DEF Batch
  <2>8. IsResult(s[k])
    BY <2>4, <2>7 DEF Batch
  <2>9. k \in j + 1 .. i - 1
    BY <1>1, <2>4, <2>5, <2>6, <2>7
  <2>10. x \in Range(s[k].calls)
    BY <2>7, OneCall
  <2> QED BY <2>1, <2>8, <2>9, <2>10
<1> QED BY <1>2

LEMMA BatchedContinuous ==
    ASSUME NEW s \in Seq(Items), Batched(s)
    PROVE  continuous(s)
<1>1. Len(s) \in Nat /\ DOMAIN s = 1 .. Len(s)
  OBVIOUS
<1>2. openBefore(s, Len(s) + 1) = {}
  <2>1. Len(s) + 1 \in 1 .. Len(s) + 1
    BY <1>1
  <2>2. \A b, c, e \in 1 .. Len(s) : Batch(s, b, c, e) => Len(s) + 1 <= b \/ Len(s) + 1 > e
    BY <1>1
  <2> QED BY <2>1, <2>2, NothingOpen
<1>3. ASSUME NEW i \in 1 .. Len(s), Calling(s[i])
      PROVE  /\ NoCall \notin Range(s[i].calls)
             /\ IsInjective(s[i].calls)
             /\ Range(s[i].calls) \intersect openBefore(s, i) = {}
  <2>1. PICK b, c, e \in 1 .. Len(s) : b <= i /\ i <= e /\ Batch(s, b, c, e)
    BY <1>3 DEF Batched
  <2>2. i \in b .. c
    BY <1>3, <2>1, BatchSides
  <2>3. NoCall \notin Range(s[i].calls) /\ IsInjective(s[i].calls)
    BY <2>1, <2>2 DEF Batch
  <2>4. ASSUME NEW x \in Range(s[i].calls), x \in openBefore(s, i) PROVE FALSE
    <3>1. PICK j \in 1 .. i - 1 :
             /\ IsOutput(s[j]) /\ x \in Range(s[j].calls)
             /\ \A k \in j + 1 .. i - 1 : IsResult(s[k]) => x \notin Range(s[k].calls)
      BY <2>4, Open
    <3>2. j \in 1 .. Len(s) /\ s[j] \in Items /\ j < i
      BY <1>1
    <3>3. Calling(s[j])
      <4>1. s[j].calls \in Seq(ProviderCalls)
        BY <3>2 DEF Items, Records
      <4> QED BY <3>1, <4>1, SomeCall DEF Calling
    <3>4. PICK b2, c2, e2 \in 1 .. Len(s) : b2 <= j /\ j <= e2 /\ Batch(s, b2, c2, e2)
      BY <3>2, <3>3 DEF Batched
    <3>5. j \in b2 .. c2 /\ c2 < e2
      BY <3>3, <3>4, BatchSides
    <3>6. CASE i <= e2
      <4>1. i \in b2 .. e2
        BY <1>1, <3>2, <3>4, <3>6
      <4>2. i \in b2 .. c2
        BY <1>3, <3>4, <4>1, BatchSides
      <4>3. i # j
        BY <3>2
      <4>4. Range(s[i].calls) \intersect Range(s[j].calls) = {}
        BY <3>4, <3>5, <4>2, <4>3 DEF Batch
      <4> QED BY <2>4, <3>1, <4>4
    <3>7. CASE i > e2
      <4>1. PICK k \in c2 + 1 .. e2 : s[k].calls = <<x>>
        BY <3>1, <3>4, <3>5 DEF Batch
      <4>2. IsResult(s[k]) /\ x \in Range(s[k].calls)
        BY <3>4, <4>1, OneCall DEF Batch
      <4>3. k \in j + 1 .. i - 1
        BY <1>1, <3>4, <3>5, <3>7, <4>1
      <4> QED BY <3>1, <4>2, <4>3
    <3> QED BY <3>6, <3>7
  <2> QED BY <2>3, <2>4
<1>4. ASSUME NEW i \in 1 .. Len(s), IsResult(s[i])
      PROVE  Range(s[i].calls) \subseteq openBefore(s, i)
  <2>1. PICK b, c, e \in 1 .. Len(s) : b <= i /\ i <= e /\ Batch(s, b, c, e)
    BY <1>4 DEF Batched
  <2>2. i \in c + 1 .. e
    BY <1>4, <2>1, BatchSides
  <2>3. PICK j \in b .. c : \E x \in Range(s[j].calls) : s[i].calls = <<x>>
    BY <2>1, <2>2 DEF Batch
  <2>4. PICK x \in Range(s[j].calls) : s[i].calls = <<x>>
    BY <2>3
  <2>5. IsOutput(s[j]) /\ j \in 1 .. i - 1
    BY <2>1, <2>2, <2>3 DEF Batch, Calling
  <2>6. ASSUME NEW k \in j + 1 .. i - 1, IsResult(s[k]), x \in Range(s[k].calls) PROVE FALSE
    <3>1. k \in b .. e /\ k < i
      BY <2>1, <2>2, <2>3
    <3>2. k \in c + 1 .. e
      BY <2>1, <2>6, <3>1, BatchSides
    <3>3. PICK y : s[k].calls = <<y>>
      BY <2>1, <3>2 DEF Batch
    <3>4. y = x
      BY <2>6, <3>3, OneCall
    <3>5. k = i
      BY <2>1, <2>2, <2>4, <3>2, <3>3, <3>4 DEF Batch
    <3> QED BY <3>1, <3>5
  <2>7. x \in openBefore(s, i)
    BY <2>5, <2>6, Open
  <2> QED BY <2>4, <2>7, OneCall
<1>5. ASSUME NEW i \in 1 .. Len(s), ~Calling(s[i]), ~IsResult(s[i])
      PROVE  openBefore(s, i) = {}
  <2>1. ASSUME NEW b \in 1 .. Len(s), NEW c \in 1 .. Len(s), NEW e \in 1 .. Len(s),
               Batch(s, b, c, e), ~(i <= b), ~(i > e)
        PROVE  FALSE
    <3>1. i \in b .. e
      BY <2>1
    <3> QED BY <1>5, <2>1, <3>1, BatchSides
  <2>2. i \in 1 .. Len(s) + 1
    BY <1>1
  <2> QED BY <2>1, <2>2, NothingOpen
<1> QED BY <1>1, <1>2, <1>3, <1>4, <1>5 DEF continuous, Calling

(* A batch found again elsewhere is a batch there.                         *)
Copied(s, t, b, e, d) ==
    \A i \in b .. e : t[i + d].kind = s[i].kind /\ t[i + d].calls = s[i].calls
Fresh(t, k) == k = 1 \/ ~Calling(t[k - 1])

LEMMA BatchShift ==
    ASSUME NEW s, NEW t, NEW b \in Int, NEW c \in Int, NEW e \in Int, NEW d \in Int,
           Batch(s, b, c, e), Copied(s, t, b, e, d), Fresh(t, b + d)
    PROVE  Batch(t, b + d, c + d, e + d)
<1>0. b <= c /\ c < e
  BY DEF Batch
<1>1. b + d <= c + d /\ c + d < e + d
  BY <1>0
<1>2. ASSUME NEW i \in b + d .. e + d
      PROVE  /\ i - d \in b .. e
             /\ t[i].kind = s[i - d].kind /\ t[i].calls = s[i - d].calls
             /\ i \in b + d .. c + d => i - d \in b .. c
             /\ i \in (c + d) + 1 .. e + d => i - d \in c + 1 .. e
  <2>1. i - d \in b .. e /\ (i - d) + d = i
    OBVIOUS
  <2>2. t[(i - d) + d].kind = s[i - d].kind /\ t[(i - d) + d].calls = s[i - d].calls
    BY <2>1 DEF Copied
  <2>3. /\ i \in b + d .. c + d => i - d \in b .. c
        /\ i \in (c + d) + 1 .. e + d => i - d \in c + 1 .. e
    OBVIOUS
  <2> QED BY <2>1, <2>2, <2>3
<1>3. \A i \in b + d .. c + d : i \in b + d .. e + d
  BY <1>0
<1>4. \A i \in (c + d) + 1 .. e + d : i \in b + d .. e + d
  BY <1>0
<1>5. ASSUME NEW i \in b + d .. c + d
      PROVE  /\ Calling(t[i]) /\ NoCall \notin Range(t[i].calls) /\ IsInjective(t[i].calls)
             /\ \A x \in Range(t[i].calls) : \E j \in (c + d) + 1 .. e + d : t[j].calls = <<x>>
  <2>1. i - d \in b .. c /\ t[i].kind = s[i - d].kind /\ t[i].calls = s[i - d].calls
    BY <1>2, <1>3
  <2>2. /\ Calling(s[i - d]) /\ NoCall \notin Range(s[i - d].calls)
        /\ IsInjective(s[i - d].calls)
    BY <2>1 DEF Batch
  <2>3. ASSUME NEW x \in Range(t[i].calls)
        PROVE  \E j \in (c + d) + 1 .. e + d : t[j].calls = <<x>>
    <3>1. PICK j \in c + 1 .. e : s[j].calls = <<x>>
      BY <2>1 DEF Batch
    <3>2. j \in b .. e /\ j + d \in (c + d) + 1 .. e + d
      BY <1>0, <3>1
    <3>3. t[j + d].calls = <<x>>
      BY <3>1, <3>2 DEF Copied
    <3> QED BY <3>2, <3>3
  <2> QED BY <2>1, <2>2, <2>3 DEF Calling, IsOutput
<1>6. ASSUME NEW i \in b + d .. c + d, NEW j \in b + d .. c + d, i # j
      PROVE  Range(t[i].calls) \intersect Range(t[j].calls) = {}
  <2>1. /\ i - d \in b .. c /\ t[i].calls = s[i - d].calls
        /\ j - d \in b .. c /\ t[j].calls = s[j - d].calls
    BY <1>2, <1>3
  <2>2. i - d # j - d
    BY <1>6
  <2> QED BY <2>1, <2>2 DEF Batch
<1>7. ASSUME NEW j \in (c + d) + 1 .. e + d
      PROVE  /\ IsResult(t[j])
             /\ \E i \in b + d .. c + d : \E x \in Range(t[i].calls) : t[j].calls = <<x>>
  <2>1. j - d \in c + 1 .. e /\ t[j].kind = s[j - d].kind /\ t[j].calls = s[j - d].calls
    BY <1>2, <1>4
  <2>2. IsResult(s[j - d])
    BY <2>1 DEF Batch
  <2>3. PICK i \in b .. c : \E x \in Range(s[i].calls) : s[j - d].calls = <<x>>
    BY <2>1 DEF Batch
  <2>4. i \in b .. e /\ i + d \in b + d .. c + d
    BY <1>0, <2>3
  <2>5. t[i + d].calls = s[i].calls
    BY <2>4 DEF Copied
  <2> QED BY <2>1, <2>2, <2>3, <2>4, <2>5 DEF IsResult
<1>8. ASSUME NEW j \in (c + d) + 1 .. e + d, NEW k \in (c + d) + 1 .. e + d,
             t[j].calls = t[k].calls
      PROVE  j = k
  <2>1. /\ j - d \in c + 1 .. e /\ t[j].calls = s[j - d].calls
        /\ k - d \in c + 1 .. e /\ t[k].calls = s[k - d].calls
    BY <1>2, <1>4
  <2>2. PICK p, q : p = j - d /\ q = k - d
    OBVIOUS
  <2>3. p \in c + 1 .. e /\ q \in c + 1 .. e /\ s[p].calls = s[q].calls
    BY <1>8, <2>1, <2>2
  <2>4. p = q
    BY <2>3 DEF Batch
  <2> QED BY <2>2, <2>4
<1>9. PICK p, q, f : p = b + d /\ q = c + d /\ f = e + d
  OBVIOUS
<1>10. p <= q /\ q < f
  BY <1>1, <1>9
<1>11. \A i \in p .. q : /\ Calling(t[i]) /\ NoCall \notin Range(t[i].calls)
                         /\ IsInjective(t[i].calls)
  BY <1>5, <1>9
<1>12. \A i \in p .. q : \A x \in Range(t[i].calls) : \E j \in q + 1 .. f : t[j].calls = <<x>>
  BY <1>5, <1>9
<1>13. \A i, j \in p .. q : i # j => Range(t[i].calls) \intersect Range(t[j].calls) = {}
  BY <1>6, <1>9
<1>14. \A j \in q + 1 .. f : /\ IsResult(t[j])
                             /\ \E i \in p .. q : \E x \in Range(t[i].calls) : t[j].calls = <<x>>
  BY <1>7, <1>9
<1>15. \A j, k \in q + 1 .. f : t[j].calls = t[k].calls => j = k
  BY <1>8, <1>9
<1>16. p = 1 \/ ~Calling(t[p - 1])
  BY <1>9 DEF Fresh
<1>17. Batch(t, p, q, f)
  BY ONLY <1>10, <1>11, <1>12, <1>13, <1>14, <1>15, <1>16 DEF Batch
<1> QED BY <1>9, <1>17

(* A batched transcript does not end in a call.                            *)
LEMMA BatchedEnd ==
    ASSUME NEW s \in Seq(Items), Batched(s), Len(s) # 0
    PROVE  ~Calling(s[Len(s)])
<1> SUFFICES ASSUME Calling(s[Len(s)]) PROVE FALSE
  OBVIOUS
<1>1. PICK n \in Nat : n = Len(s)
  OBVIOUS
<1>2. n \in 1 .. Len(s)
  BY <1>1
<1>3. PICK b, c, e \in 1 .. Len(s) : b <= n /\ n <= e /\ Batch(s, b, c, e)
  BY <1>1, <1>2 DEF Batched
<1>4. n <= c /\ c < e
  BY <1>1, <1>3, BatchSides
<1> QED BY <1>1, <1>3, <1>4

LEMMA BatchedConcat ==
    ASSUME NEW s \in Seq(Items), NEW t \in Seq(Items), Batched(s), Batched(t)
    PROVE  Batched(s \o t)
<1>1. PICK n \in Nat, m \in Nat : n = Len(s) /\ m = Len(t)
  OBVIOUS
<1>2. PICK u : u = s \o t
  OBVIOUS
<1>3. /\ u \in Seq(Items) /\ Len(u) = n + m
      /\ \A i \in 1 .. n : u[i] = s[i]
      /\ \A i \in 1 .. m : u[i + n] = t[i]
  BY <1>1, <1>2
<1>4. ASSUME NEW i \in 1 .. n + m, Calling(u[i]) \/ IsResult(u[i])
      PROVE  \E b, c, e \in 1 .. n + m : b <= i /\ i <= e /\ Batch(u, b, c, e)
  <2>1. CASE i <= n
    <3>1. i \in 1 .. Len(s) /\ u[i] = s[i]
      BY <1>1, <1>3, <2>1
    <3>2. PICK b, c, e \in 1 .. Len(s) : b <= i /\ i <= e /\ Batch(s, b, c, e)
      BY <1>4, <3>1 DEF Batched
    <3>3. Copied(s, u, b, e, 0)
      <4>1. ASSUME NEW j \in b .. e PROVE j + 0 \in 1 .. n /\ j + 0 = j
        BY <1>1, <3>2
      <4> QED BY <1>3, <4>1 DEF Copied
    <3>4. Fresh(u, b + 0)
      <4>1. b = 1 \/ ~Calling(s[b - 1])
        BY <3>2 DEF Batch
      <4>2. CASE b # 1
        <5>1. b - 1 \in 1 .. n /\ b + 0 - 1 = b - 1
          BY <1>1, <3>2, <4>2
        <5> QED BY <1>3, <4>1, <4>2, <5>1 DEF Fresh
      <4> QED BY <4>2, <3>2 DEF Fresh
    <3>5. Batch(u, b + 0, c + 0, e + 0)
      BY <3>2, <3>3, <3>4, BatchShift
    <3>6. b + 0 = b /\ c + 0 = c /\ e + 0 = e
          /\ b \in 1 .. n + m /\ c \in 1 .. n + m /\ e \in 1 .. n + m
      BY <1>1, <3>2
    <3>7. Batch(u, b, c, e)
      BY <3>5, <3>6
    <3> QED BY <3>2, <3>6, <3>7
  <2>2. CASE i > n
    <3>1. PICK k \in 1 .. Len(t) : i = k + n /\ u[i] = t[k]
      <4>1. i - n \in 1 .. Len(t) /\ i = (i - n) + n
        BY <1>1, <2>2
      <4>2. u[i] = t[i - n]
        BY <1>1, <1>3, <4>1
      <4> QED BY <4>1, <4>2
    <3>2. PICK b, c, e \in 1 .. Len(t) : b <= k /\ k <= e /\ Batch(t, b, c, e)
      BY <1>4, <3>1 DEF Batched
    <3>3. Copied(t, u, b, e, n)
      <4>1. \A j \in b .. e : j \in 1 .. m
        BY <1>1, <3>2
      <4> QED BY <1>3, <4>1 DEF Copied
    <3>4. Fresh(u, b + n)
      <4>1. b = 1 \/ ~Calling(t[b - 1])
        BY <3>2 DEF Batch
      <4>2. CASE b # 1
        <5>1. b - 1 \in 1 .. m /\ b + n - 1 = (b - 1) + n
          BY <1>1, <3>2, <4>2
        <5> QED BY <1>3, <4>1, <4>2, <5>1 DEF Fresh
      <4>3. CASE b = 1 /\ n # 0
        <5>1. b + n - 1 = n /\ n \in 1 .. n
          BY <1>1, <4>3
        <5>2. ~Calling(s[n])
          BY <1>1, <4>3, BatchedEnd
        <5>3. u[n] = s[n]
          BY <1>3, <5>1
        <5> QED BY <5>1, <5>2, <5>3 DEF Fresh
      <4>4. CASE b = 1 /\ n = 0
        BY <4>4 DEF Fresh
      <4> QED BY <4>2, <4>3, <4>4
    <3>5. Batch(u, b + n, c + n, e + n)
      BY <1>1, <3>2, <3>3, <3>4, BatchShift
    <3>6. /\ b + n \in 1 .. n + m /\ c + n \in 1 .. n + m /\ e + n \in 1 .. n + m
          /\ b + n <= i /\ i <= e + n
      BY <1>1, <3>1, <3>2
    <3> QED BY <3>5, <3>6
  <2> QED BY <1>1, <2>1, <2>2
<1> QED BY <1>1, <1>2, <1>3, <1>4 DEF Batched

LEMMA InputsBatched ==
    ASSUME NEW s, \A i \in 1 .. Len(s) : s[i].kind = "input"
    PROVE  Batched(s)
  BY DEF Batched, Calling, IsOutput, IsResult

-----------------------------------------------------------------------------
(* What a run appends behind its own items is batched if it is continuous. *)

LEMMA OpenBehind ==
    ASSUME NEW s \in Seq(Items), NEW t \in Seq(Items), Batched(s), NEW i \in 1 .. Len(t) + 1
    PROVE  openBefore(s \o t, i + Len(s)) = openBefore(t, i)
<1>1. PICK n \in Nat, m \in Nat : n = Len(s) /\ m = Len(t)
  OBVIOUS
<1>2. PICK u : u = s \o t
  OBVIOUS
<1>3. /\ \A k \in 1 .. n : u[k] = s[k]
      /\ \A k \in 1 .. m : u[k + n] = t[k]
  BY <1>1, <1>2
<1>4. openBefore(s, n + 1) = {}
  BY <1>1, BatchedContinuous DEF continuous
<1>5. ASSUME NEW x \in openBefore(u, i + n) PROVE x \in openBefore(t, i)
  <2>1. PICK j \in 1 .. i + n - 1 :
           /\ IsOutput(u[j]) /\ x \in Range(u[j].calls)
           /\ \A k \in j + 1 .. i + n - 1 : IsResult(u[k]) => x \notin Range(u[k].calls)
    BY Open
  <2>2. CASE j <= n
    <3>1. j \in 1 .. n /\ j \in 1 .. (n + 1) - 1
      BY <1>1, <2>2
    <3>2. u[j] = s[j]
      BY <1>3, <3>1
    <3>3. ASSUME NEW k \in j + 1 .. (n + 1) - 1, IsResult(s[k]) PROVE x \notin Range(s[k].calls)
      <4>1. k \in 1 .. n /\ k \in j + 1 .. i + n - 1
        BY <1>1, <2>2
      <4> QED BY <1>3, <2>1, <3>3, <4>1
    <3>4. x \in openBefore(s, n + 1)
      BY <2>1, <3>1, <3>2, <3>3, Open
    <3> QED BY <1>4, <3>4
  <2>3. CASE j > n
    <3>1. PICK p \in 1 .. i - 1 : j = p + n /\ p \in 1 .. m
      <4>1. j - n \in 1 .. i - 1 /\ j - n \in 1 .. m /\ j = (j - n) + n
        BY <1>1, <2>3
      <4> QED BY <4>1
    <3>2. u[j] = t[p]
      BY <1>3, <3>1
    <3>3. ASSUME NEW k \in p + 1 .. i - 1, IsResult(t[k]) PROVE x \notin Range(t[k].calls)
      <4>1. k \in 1 .. m /\ k + n \in j + 1 .. i + n - 1
        BY <1>1, <3>1
      <4>2. u[k + n] = t[k]
        BY <1>3, <4>1
      <4> QED BY <2>1, <3>3, <4>1, <4>2
    <3> QED BY <2>1, <3>1, <3>2, <3>3, Open
  <2> QED BY <1>1, <2>2, <2>3
<1>6. ASSUME NEW x \in openBefore(t, i) PROVE x \in openBefore(u, i + n)
  <2>1. PICK j \in 1 .. i - 1 :
           /\ IsOutput(t[j]) /\ x \in Range(t[j].calls)
           /\ \A k \in j + 1 .. i - 1 : IsResult(t[k]) => x \notin Range(t[k].calls)
    BY Open
  <2>2. j \in 1 .. m /\ j + n \in 1 .. i + n - 1
    BY <1>1
  <2>3. u[j + n] = t[j]
    BY <1>3, <2>2
  <2>4. ASSUME NEW k \in (j + n) + 1 .. i + n - 1, IsResult(u[k]) PROVE x \notin Range(u[k].calls)
    <3>1. PICK q \in j + 1 .. i - 1 : k = q + n /\ q \in 1 .. m
      <4>1. k - n \in j + 1 .. i - 1 /\ k - n \in 1 .. m /\ k = (k - n) + n
        BY <1>1
      <4> QED BY <4>1
    <3>2. u[k] = t[q]
      BY <1>3, <3>1
    <3> QED BY <2>1, <2>4, <3>1, <3>2
  <2>5. IsOutput(u[j + n]) /\ x \in Range(u[j + n].calls)
    BY <2>1, <2>3
  <2> QED BY <2>2, <2>4, <2>5, Open
<1> QED BY <1>1, <1>2, <1>5, <1>6

(* What continuity asks of an item and of the calls open before it.        *)
ItemFits(item, open) ==
    /\ Calling(item) => /\ NoCall \notin Range(item.calls) /\ IsInjective(item.calls)
                        /\ Range(item.calls) \intersect open = {}
    /\ IsResult(item) => Range(item.calls) \subseteq open
    /\ ~Calling(item) /\ ~IsResult(item) => open = {}

LEMMA ContinuousItems ==
    ASSUME NEW s
    PROVE  continuous(s) <=> /\ \A i \in DOMAIN s : ItemFits(s[i], openBefore(s, i))
                             /\ openBefore(s, Len(s) + 1) = {}
<1>1. ASSUME NEW i \in DOMAIN s
      PROVE  ItemFits(s[i], openBefore(s, i)) <=>
               CASE IsOutput(s[i]) /\ s[i].calls # <<>> ->
                /\ NoCall \notin Range(s[i].calls)
                /\ IsInjective(s[i].calls)
                /\ Range(s[i].calls) \cap openBefore(s, i) = {}
                 [] IsResult(s[i]) -> Range(s[i].calls) \subseteq openBefore(s, i)
                 [] OTHER -> openBefore(s, i) = {}
  <2>1. PICK c, o, q, z : /\ c = Calling(s[i]) /\ o = openBefore(s, i) /\ q = IsResult(s[i])
                          /\ z = s[i].calls
    OBVIOUS
  <2>2. ~(c /\ q)
    BY <2>1, Kind
  <2>3. c = (IsOutput(s[i]) /\ s[i].calls # <<>>)
    BY <2>1 DEF Calling
  <2> QED BY <2>1, <2>2, <2>3 DEF ItemFits
<1> QED BY <1>1 DEF continuous

LEMMA ContinuousBehind ==
    ASSUME NEW s \in Seq(Items), NEW t \in Seq(Items), Batched(s), continuous(s \o t)
    PROVE  continuous(t)
<1>1. PICK n \in Nat, m \in Nat : n = Len(s) /\ m = Len(t)
  OBVIOUS
<1>2. PICK u : u = s \o t
  OBVIOUS
<1>3. /\ Len(u) = n + m /\ DOMAIN u = 1 .. n + m
      /\ \A k \in 1 .. m : u[k + n] = t[k]
  BY <1>1, <1>2
<1>4. /\ \A i \in 1 .. n + m : ItemFits(u[i], openBefore(u, i))
      /\ openBefore(u, (n + m) + 1) = {}
  BY <1>2, <1>3, ContinuousItems
<1>5. ASSUME NEW i \in 1 .. m PROVE ItemFits(t[i], openBefore(t, i))
  <2>1. i + n \in 1 .. n + m /\ i \in 1 .. m + 1
    BY <1>1
  <2>2. openBefore(u, i + n) = openBefore(t, i)
    BY <1>1, <1>2, <2>1, OpenBehind
  <2> QED BY <1>3, <1>4, <2>1, <2>2
<1>6. openBefore(t, m + 1) = {}
  <2>1. m + 1 \in 1 .. m + 1 /\ (m + 1) + n = (n + m) + 1
    BY <1>1
  <2>2. openBefore(u, (m + 1) + n) = openBefore(t, m + 1)
    BY <1>1, <1>2, <2>1, OpenBehind
  <2> QED BY <1>4, <2>1, <2>2
<1>7. DOMAIN t = 1 .. m
  BY <1>1
<1> QED BY <1>1, <1>5, <1>6, <1>7, ContinuousItems

(* Items without results, then results of one call each: if that is        *)
(* continuous, it is batched.                                              *)
LEMMA AnswerBatched ==
    ASSUME NEW t \in Seq(Items), NEW n \in Nat, n <= Len(t), continuous(t),
           \A i \in 1 .. n : ~IsResult(t[i]),
           \A i \in n + 1 .. Len(t) : IsResult(t[i]) /\ \E x : t[i].calls = <<x>>
    PROVE  Batched(t)
<1>1. PICK m \in Nat : m = Len(t) /\ DOMAIN t = 1 .. m
  OBVIOUS
<1>2. /\ \A i \in 1 .. m : ItemFits(t[i], openBefore(t, i))
      /\ openBefore(t, m + 1) = {}
  BY <1>1, ContinuousItems
<1>3. ASSUME NEW j \in 1 .. n, Calling(t[j]), NEW i \in j + 1 .. n + 1
      PROVE  Range(t[j].calls) \subseteq openBefore(t, i)
  <2>1. j \in 1 .. i - 1
    OBVIOUS
  <2>2. \A k \in j + 1 .. i - 1 : ~IsResult(t[k])
    OBVIOUS
  <2>3. IsOutput(t[j])
    BY <1>3 DEF Calling
  <2> QED BY <2>1, <2>2, <2>3, Open
<1>4. ASSUME NEW j \in 1 .. n, Calling(t[j]) PROVE \E x : x \in Range(t[j].calls)
  <2>1. t[j] \in Items
    BY <1>1
  <2>2. t[j].calls \in Seq(ProviderCalls)
    BY <2>1 DEF Items, Records
  <2> QED BY <1>4, <2>2, SomeCall DEF Calling
<1>5. CASE \A j \in 1 .. n : ~Calling(t[j])
  <2>1. ASSUME NEW i \in n + 1 .. m PROVE FALSE
    <3>1. n + 1 \in 1 .. m /\ n + 1 \in n + 1 .. m
      BY <1>1
    <3>2. PICK x : t[n + 1].calls = <<x>>
      BY <1>1, <3>1
    <3>3. x \in openBefore(t, n + 1)
      <4>1. ItemFits(t[n + 1], openBefore(t, n + 1)) /\ IsResult(t[n + 1])
        BY <1>1, <1>2, <3>1
      <4>2. Range(t[n + 1].calls) \subseteq openBefore(t, n + 1)
        BY <4>1 DEF ItemFits
      <4>3. Range(t[n + 1].calls) = {x}
        BY <3>2, OneCall
      <4> QED BY <4>2, <4>3
    <3>4. PICK j \in 1 .. (n + 1) - 1 : IsOutput(t[j]) /\ x \in Range(t[j].calls)
      BY <3>3, Open
    <3>5. j \in 1 .. n /\ j \in 1 .. m
      BY <1>1, <3>4
    <3>6. t[j] \in Items
      BY <1>1, <3>5
    <3>7. t[j].calls \in Seq(ProviderCalls)
      BY <3>6 DEF Items, Records
    <3>8. Calling(t[j])
      BY <3>4, <3>7, SomeCall DEF Calling
    <3> QED BY <1>5, <3>5, <3>8
  <2>2. \A i \in 1 .. m : i \in 1 .. n \/ i \in n + 1 .. m
    BY <1>1
  <2>3. \A i \in 1 .. m : ~Calling(t[i]) /\ ~IsResult(t[i])
    BY <1>5, <2>1, <2>2
  <2> QED BY <1>1, <2>3 DEF Batched
<1>6. CASE \E j \in 1 .. n : Calling(t[j])
  <2>1. PICK b \in 1 .. n : Calling(t[b]) /\ \A j \in 1 .. n : Calling(t[j]) => b <= j
    <3>1. PICK S : S = {j \in 1 .. n : Calling(t[j])}
      OBVIOUS
    <3>2. S \in SUBSET Nat /\ S # {}
      BY <1>6, <3>1
    <3>3. PICK b \in S : \A k \in S : b <= k
      BY <3>2, LeastOf
    <3> QED BY <3>1, <3>3
  <2>2. ASSUME NEW j \in b .. n PROVE Calling(t[j])
    <3>1. CASE j = b
      BY <2>1, <3>1
    <3>2. CASE j # b
      <4>1. b \in 1 .. n /\ j \in b + 1 .. n + 1 /\ j \in 1 .. m /\ j \in 1 .. n
        BY <1>1, <2>1, <3>2
      <4>2. Range(t[b].calls) \subseteq openBefore(t, j)
        BY <1>3, <2>1, <4>1
      <4>3. openBefore(t, j) # {}
        BY <1>4, <2>1, <4>2
      <4> QED BY <1>2, <4>1, <4>3 DEF ItemFits
    <3> QED BY <3>1, <3>2
  <2>3. b \in 1 .. m /\ n \in 1 .. m /\ b <= n
    BY <1>1, <2>1
  <2>4. ASSUME NEW j \in b .. n, NEW x \in Range(t[j].calls)
        PROVE  \E k \in n + 1 .. m : t[k].calls = <<x>>
    <3>1. j \in 1 .. n /\ j \in 1 .. (m + 1) - 1
      BY <1>1, <2>1
    <3>2. IsOutput(t[j])
      BY <2>2 DEF Calling
    <3>3. x \notin openBefore(t, m + 1)
      BY <1>2
    <3>4. PICK k \in j + 1 .. (m + 1) - 1 : IsResult(t[k]) /\ x \in Range(t[k].calls)
      BY <3>1, <3>2, <3>3, Open
    <3>5. k \in 1 .. m /\ ~(k \in 1 .. n)
      BY <1>1, <3>1, <3>4
    <3>6. k \in n + 1 .. m
      BY <1>1, <3>5
    <3>7. PICK y : t[k].calls = <<y>>
      BY <1>1, <3>6
    <3>8. y = x
      BY <3>4, <3>7, OneCall
    <3> QED BY <3>6, <3>7, <3>8
  <2>5. n < m
    <3>1. PICK x : x \in Range(t[b].calls)
      BY <1>4, <2>1
    <3>2. b \in b .. n
      BY <2>1
    <3>3. PICK k \in n + 1 .. m : TRUE
      BY <2>4, <3>1, <3>2
    <3> QED BY <1>1, <3>3
  <2>6. \A i \in b .. n : /\ Calling(t[i]) /\ NoCall \notin Range(t[i].calls)
                           /\ IsInjective(t[i].calls)
    <3>1. \A i \in b .. n : i \in 1 .. m
      BY <1>1, <2>1
    <3> QED BY <1>2, <2>2, <3>1 DEF ItemFits
  <2>7. \A i, j \in b .. n : i # j => Range(t[i].calls) \intersect Range(t[j].calls) = {}
    <3>1. ASSUME NEW i \in b .. n, NEW j \in b .. n, i < j
          PROVE  Range(t[i].calls) \intersect Range(t[j].calls) = {}
      <4>1. i \in 1 .. n /\ j \in i + 1 .. n + 1 /\ j \in 1 .. m
        BY <1>1, <2>1, <3>1
      <4>2. Range(t[i].calls) \subseteq openBefore(t, j)
        BY <1>3, <2>2, <4>1
      <4>3. Range(t[j].calls) \intersect openBefore(t, j) = {}
        BY <1>2, <2>2, <4>1 DEF ItemFits
      <4> QED BY <4>2, <4>3
    <3>2. \A i, j \in b .. n : i # j => i < j \/ j < i
      BY <2>1
    <3> QED BY <3>1, <3>2
  <2>8. ASSUME NEW k \in n + 1 .. m
        PROVE  IsResult(t[k]) /\ \E i \in b .. n : \E x \in Range(t[i].calls) : t[k].calls = <<x>>
    <3>1. k \in 1 .. m
      BY <1>1
    <3>2. PICK x : IsResult(t[k]) /\ t[k].calls = <<x>>
      BY <1>1
    <3>3. x \in openBefore(t, k)
      BY <1>2, <3>1, <3>2, OneCall DEF ItemFits
    <3>4. PICK j \in 1 .. k - 1 : IsOutput(t[j]) /\ x \in Range(t[j].calls)
      BY <3>3, Open
    <3>5. j \in 1 .. m /\ t[j] \in Items
      BY <1>1, <3>1, <3>4
    <3>6. t[j].calls \in Seq(ProviderCalls)
      BY <3>5 DEF Items, Records
    <3>7. Calling(t[j])
      BY <3>4, <3>6, SomeCall DEF Calling
    <3>8. ~(j \in n + 1 .. m)
      BY <1>1, <3>7, Kind
    <3>9. j \in 1 .. n
      BY <1>1, <3>5, <3>8
    <3>10. j \in b .. n
      BY <2>1, <3>7, <3>9
    <3> QED BY <3>2, <3>4, <3>10
  <2>9. ASSUME NEW k \in n + 1 .. m, NEW l \in n + 1 .. m, t[k].calls = t[l].calls, k < l
        PROVE  FALSE
    <3>1. k \in 1 .. m /\ l \in 1 .. m
      BY <1>1
    <3>2. PICK x : t[k].calls = <<x>> /\ t[l].calls = <<x>> /\ IsResult(t[k]) /\ IsResult(t[l])
      BY <1>1, <2>9
    <3>3. x \in openBefore(t, l)
      BY <1>2, <3>1, <3>2, OneCall DEF ItemFits
    <3>4. PICK j \in 1 .. l - 1 :
            /\ IsOutput(t[j])
            /\ \A i \in j + 1 .. l - 1 : IsResult(t[i]) => x \notin Range(t[i].calls)
      BY <3>3, Open
    <3>5. ~(j \in n + 1 .. m)
      BY <1>1, <3>4, Kind
    <3>6. k \in j + 1 .. l - 1
      BY <1>1, <2>9, <3>1, <3>4, <3>5
    <3>7. x \in Range(t[k].calls)
      BY <3>2, OneCall
    <3> QED BY <3>2, <3>4, <3>6, <3>7
  <2>10. \A k, l \in n + 1 .. m : t[k].calls = t[l].calls => k = l
    <3>1. \A k, l \in n + 1 .. m : k = l \/ k < l \/ l < k
      OBVIOUS
    <3> QED BY <2>9, <3>1
  <2>11. b = 1 \/ ~Calling(t[b - 1])
    <3>1. CASE b # 1
      <4>1. b - 1 \in 1 .. n /\ ~(b <= b - 1)
        BY <2>1, <3>1
      <4> QED BY <2>1, <4>1
    <3> QED BY <3>1
  <2>12. Batch(t, b, n, m)
    BY <2>3, <2>4, <2>5, <2>6, <2>7, <2>8, <2>10, <2>11 DEF Batch
  <2>13. ASSUME NEW i \in 1 .. m, Calling(t[i]) \/ IsResult(t[i]) PROVE b <= i /\ i <= m
    <3>1. CASE i \in 1 .. n
      BY <1>1, <2>1, <2>13, <3>1
    <3>2. CASE ~(i \in 1 .. n)
      BY <1>1, <2>1, <3>2
    <3> QED BY <3>1, <3>2
  <2>14. m \in 1 .. m
    BY <1>1, <2>5
  <2> QED BY <1>1, <2>3, <2>12, <2>13, <2>14 DEF Batched
<1> QED BY <1>5, <1>6

LEMMA Validated ==
    ASSUME NEW s PROVE ValidateContinuity(s) <=> continuous(s)
  BY DEF ValidateContinuity

(* What a run stores at the end of a step.                                 *)
LEMMA FlushedItems ==
    ASSUME Inv, NEW r \in Runs,
           continuous(run[r].local \o (run[r].sink \o run[r].results))
    PROVE  LET items == run[r].sink \o run[r].results
           IN  items \in Seq(Items) /\ Batched(items)
<1>1. run[r] \in RunStates /\ Shaped(run[r])
  BY CurrentRun DEF RunOK
<1>2. PICK local, sink, results \in Seq(Items) :
        local = run[r].local /\ sink = run[r].sink /\ results = run[r].results
  BY <1>1 DEF RunStates
<1>3. Batched(local)
  BY <1>1, <1>2 DEF Shaped
<1>4. PICK n \in Nat, m \in Nat : n = Len(sink) /\ m = Len(results)
  BY <1>2
<1>5. PICK t : t = sink \o results
  OBVIOUS
<1>6. /\ t \in Seq(Items) /\ Len(t) = n + m
      /\ \A i \in 1 .. n : t[i] = sink[i]
      /\ \A i \in 1 .. m : t[i + n] = results[i]
  BY <1>4, <1>5
<1>7. continuous(t)
  <2>1. continuous(local \o t)
    BY <1>2, <1>5
  <2>2. local \in Seq(Items) /\ t \in Seq(Items)
    BY <1>2, <1>6
  <2> QED BY <1>3, <2>1, <2>2, ContinuousBehind
<1>8. \A i \in 1 .. n : ~IsResult(t[i])
  <2>1. \A i \in 1 .. n : sink[i].kind # "tool_result"
    BY <1>1, <1>2, <1>4 DEF Shaped
  <2> QED BY <1>6, <2>1 DEF IsResult
<1>9. ASSUME NEW i \in n + 1 .. Len(t) PROVE IsResult(t[i]) /\ \E x : t[i].calls = <<x>>
  <2>1. PICK k \in 1 .. m : i = k + n
    <3>1. i - n \in 1 .. m /\ i = (i - n) + n
      BY <1>4, <1>6
    <3> QED BY <3>1
  <2>2. t[i] = results[k]
    BY <1>6, <2>1
  <2>3. results[k].kind = "tool_result" /\ \E x \in ProviderCalls : results[k].calls = <<x>>
    BY <1>1, <1>2, <1>4 DEF Shaped
  <2> QED BY <2>2, <2>3 DEF IsResult
<1>10. n <= Len(t)
  BY <1>4, <1>6
<1>11. Batched(t)
  BY <1>6, <1>7, <1>8, <1>9, <1>10, AnswerBatched
<1> QED BY <1>2, <1>5, <1>6, <1>11

LEMMA FlushStores ==
    ASSUME Inv, NEW items \in Seq(Items), Batched(items), NEW calls \in SUBSET executed
    PROVE  LET stored == [thread EXCEPT !.items = @ \o items, !.completed = @ \union calls]
           IN  /\ Stores(thread, stored, executed)
               /\ stored.completed = thread.completed \union calls
<1>1. PICK all : all = thread.items \o items
  OBVIOUS
<1>2. thread \in Threads /\ thread.items \in Seq(Items) /\ Batched(thread.items)
  BY DEF Inv, TypeInv, BatchInv, Threads
<1>3. all \in Seq(Items) /\ Batched(all)
  <2>1. PICK s \in Seq(Items) : s = thread.items
    BY <1>2
  <2>2. s \o items \in Seq(Items)
    OBVIOUS
  <2> QED BY <1>1, <1>2, <2>1, <2>2, BatchedConcat
<1>4. PICK stored : stored = [thread EXCEPT !.items = all, !.completed = @ \union calls]
  OBVIOUS
<1>5. /\ stored.items = all /\ stored.completed = thread.completed \union calls
      /\ stored.rendered = thread.rendered /\ stored.applied = thread.applied
      /\ stored.received = thread.received /\ stored.requested = thread.requested
      /\ stored.outbound = thread.outbound
  BY <1>2, <1>4 DEF Threads
<1>6. executed \subseteq Calls /\ thread.completed \subseteq executed /\ executed \subseteq thread.requested
  BY DEF Inv, TypeInv, RecordInv
<1>7. PICK done \in SUBSET Calls : done = thread.completed \union calls
  BY <1>6
<1>8. stored \in Threads
  <2>1. stored = [thread EXCEPT !.items = all, !.completed = done]
    BY <1>4, <1>7
  <2> QED BY <1>2, <1>3, <2>1 DEF Threads
<1>9. Stores(thread, stored, executed)
  <2>1. thread.rendered <= context
    BY DEF Inv, TypeInv
  <2> QED BY <1>3, <1>5, <1>6, <1>8, <2>1 DEF Stores
<1> QED BY <1>1, <1>4, <1>5, <1>9

LEMMA FlushWithTranscriptItemsKeeps ==
    ASSUME Inv, NEW r \in Runs, FlushWithTranscriptItems(r), quiet' \in BOOLEAN PROVE Inv'
<1>1. run[r] \in RunStates /\ RunOK(r, run[r], thread, executed) /\ run[r].pc = "flush"
  BY CurrentRun DEF FlushWithTranscriptItems
<1>2. PICK items : items = run[r].sink \o run[r].results
  OBVIOUS
<1>3. CASE ~ValidateContinuity(run[r].local \o items)
  <2>1. Local(r, Finish(run[r], "failed"))
    BY <1>2, <1>3 DEF FlushWithTranscriptItems
  <2> QED BY <1>1, <2>1, FinishOK, LocalKeeps DEF FlushWithTranscriptItems
<1>4. CASE ValidateContinuity(run[r].local \o items)
  <2>1. items \in Seq(Items) /\ Batched(items)
    BY <1>2, <1>4, Validated, FlushedItems
  <2>2. run[r].batch \in SUBSET executed /\ run[r].batch \subseteq Ops(r, executed)
    BY <1>1 DEF RunOK, Counted, Ops
  <2>3. PICK stored : stored = [thread EXCEPT !.items = @ \o items,
                                              !.completed = @ \union run[r].batch]
    OBVIOUS
  <2>4. /\ Stores(thread, stored, executed)
        /\ stored.completed = thread.completed \union run[r].batch
    BY <2>1, <2>2, <2>3, FlushStores
  <2>5. PICK local : local = run[r].local \o items
    OBVIOUS
  <2>6. local \in Seq(Items) /\ Batched(local)
    <3>1. PICK s \in Seq(Items) : s = run[r].local
      BY <1>1 DEF RunStates
    <3>2. Batched(s)
      BY <1>1, <3>1 DEF RunOK, Shaped
    <3>3. s \o items \in Seq(Items)
      BY <2>1
    <3> QED BY <2>1, <2>5, <3>1, <3>2, <3>3, BatchedConcat
  <2>7. ASSUME NEW h \in RunStates,
               h.sink = <<>>, h.results = <<>>, h.batch = {}, h.local = local,
               h.records = run[r].records, h.rendered = run[r].rendered,
               h.effects = run[r].effects, h.result = run[r].result,
               h.pc \in {"react", "evaluate"}, h.committed <= Len(h.pending),
               \A i \in h.committed + 1 .. Len(h.pending) : h.pending[i].kind = "input"
        PROVE  RunOK(r, h, stored, executed)
    <3>1. Fitting(h, context)
      BY <1>1, <2>7 DEF RunOK, Fitting
    <3>2. Shaped(h)
      BY <2>6, <2>7 DEF Shaped
    <3>3. Counted(r, h, executed)
      <4>1. Count(h) = h.effects
        <5>1. AtRest(h) /\ h.effects \in Nat
          BY <1>1, <2>7 DEF AtRest, RunStates
        <5> QED BY <5>1, CountAtRest
      <4>2. Count(run[r]) = run[r].effects
        <5>1. AtRest(run[r]) /\ run[r].effects \in Nat
          BY <1>1 DEF AtRest, RunStates
        <5> QED BY <5>1, CountAtRest
      <4>3. \A call \in Ops(r, executed) : call.n <= Count(h)
        BY <1>1, <2>7, <4>1, <4>2 DEF RunOK, Counted
      <4> QED BY <2>7, <4>3, FS_EmptySet DEF Counted, Storing
    <3>4. Told(r, h, stored, executed)
      <4>1. Ops(r, executed) \subseteq stored.completed
        BY <1>1, <2>4 DEF RunOK, Told, Unstored
      <4>2. r \in stored.received
        BY <1>1, <2>4 DEF RunOK, Told, Stores
      <4>3. run[r].result = "none"
        BY <1>1 DEF RunOK, Told
      <4> QED BY <2>7, <4>1, <4>2, <4>3 DEF Told
    <3> QED BY <2>7, <3>1, <3>2, <3>3, <3>4 DEF RunOK
  <2>8. PICK results \in Seq(Items) : results = run[r].results
    BY <1>1 DEF RunStates
  <2>9. PICK next : next = [run[r] EXCEPT !.sink = <<>>, !.results = <<>>, !.batch = {},
                                          !.local = local]
    OBVIOUS
  <2>10. /\ next \in RunStates /\ next.sink = <<>> /\ next.results = <<>> /\ next.batch = {}
         /\ next.local = local /\ next.records = run[r].records
         /\ next.rendered = run[r].rendered /\ next.effects = run[r].effects
         /\ next.result = run[r].result /\ next.pending = run[r].pending
         /\ next.committed = run[r].committed /\ next.step = run[r].step
    <3>1. <<>> \in Seq(Items)
      OBVIOUS
    <3> QED BY <1>1, <2>6, <2>9, <3>1 DEF RunStates
  <2>11. PICK n, k : n = next.step + 1 /\ k = Len(results)
    OBVIOUS
  <2>12. n \in 0 .. MaxSteps /\ k \in Nat
    <3>1. PICK c \in 0 .. MaxSteps : c = run[r].step
      BY <1>1 DEF RunStates
    <3>2. c < MaxSteps
      BY <1>1, <3>1 DEF RunOK, Fitting
    <3>3. n = c + 1
      BY <2>10, <2>11, <3>1
    <3>4. n \in 0 .. MaxSteps
      <4>1. MaxSteps \in Nat
        BY SessionAssumption
      <4> QED BY ONLY <3>1, <3>2, <3>3, <4>1
    <3>5. k \in Nat
      BY <2>8, <2>11
    <3> QED BY <3>4, <3>5
  <2>13. PICK g : g = [next EXCEPT !.pc = "react", !.phase = "followup", !.step = n,
                                   !.pending = results, !.committed = k]
    OBVIOUS
  <2>14. RunOK(r, g, stored, executed)
    <3>1. "react" \in Places
      BY DEF Places
    <3>2. g \in RunStates
      BY <2>8, <2>10, <2>12, <2>13, <3>1 DEF RunStates
    <3>3. /\ g.sink = <<>> /\ g.results = <<>> /\ g.batch = {} /\ g.local = local
          /\ g.records = run[r].records /\ g.rendered = run[r].rendered
          /\ g.effects = run[r].effects /\ g.result = run[r].result
          /\ g.pc = "react" /\ g.committed = k /\ g.pending = results
      BY <2>10, <2>13 DEF RunStates
    <3>4. g.committed <= Len(g.pending)
      BY <2>11, <2>12, <3>3
    <3>5. \A i \in g.committed + 1 .. Len(g.pending) : FALSE
      BY <2>11, <2>12, <3>3
    <3> QED BY <2>7, <3>2, <3>3, <3>4, <3>5
  <2>15. PICK f : f = Goto(next, "evaluate")
    OBVIOUS
  <2>16. RunOK(r, f, stored, executed)
    <3>1. "evaluate" \in Places
      BY DEF Places
    <3>2. f \in RunStates /\ SameWork(next, f) /\ f.pc = "evaluate"
      BY <2>10, <2>15, <3>1, GotoType
    <3>3. run[r].committed <= Len(run[r].pending)
      BY <1>1 DEF RunOK, Fitting
    <3>4. \A i \in run[r].committed + 1 .. Len(run[r].pending) : run[r].pending[i].kind = "input"
      BY <1>1 DEF RunOK, Shaped
    <3>5. f.committed = run[r].committed /\ f.pending = run[r].pending
      BY <2>10, <3>2 DEF SameWork
    <3> QED BY <2>7, <2>10, <3>2, <3>3, <3>4, <3>5 DEF SameWork
  <2>17. appendThreadRecords(r, stored, IF run[r].reply.kind = "operations" THEN g ELSE f,
                             Finish(run[r], "failed"))
    <3>1. g = [next EXCEPT !.pc = "react", !.phase = "followup", !.step = @ + 1,
                           !.pending = run[r].results, !.committed = Len(run[r].results)]
      BY <2>8, <2>11, <2>13
    <3>2. next = [run[r] EXCEPT !.sink = <<>>, !.results = <<>>, !.batch = {}, !.local = @ \o items]
      BY <2>5, <2>9
    <3> QED BY <1>2, <1>4, <2>3, <2>15, <3>1, <3>2 DEF FlushWithTranscriptItems
  <2> QED BY <1>1, <2>4, <2>14, <2>16, <2>17, FinishOK, AppendKeeps DEF FlushWithTranscriptItems
<1> QED BY <1>3, <1>4

-----------------------------------------------------------------------------
(* Compaction: the groups of a batched transcript are its batches and the  *)
(* items outside of them.                                                  *)

Opens(s, i) == IsOutput(s[i]) /\ Ids(s[i]) # {}
CallIDs(s, start, to) == UNION {Ids(s[i]) : i \in start .. to}
Complete(s, start, calls, end) ==
    /\ \A i \in start .. calls : Opens(s, i)
    /\ \A i \in calls + 1 .. end : /\ IsResult(s[i]) /\ Ids(s[i]) \subseteq CallIDs(s, start, calls)
    /\ CallIDs(s, start, calls) = CallIDs(s, calls + 1, end)
Closes(s, start, end) == \E calls \in start .. end - 1 : Complete(s, start, calls, end)
FirstClosing(s, start, end) ==
    Closes(s, start, end) /\ \A e \in start + 1 .. end - 1 : ~Closes(s, start, e)

LEMMA GroupEnd ==
    ASSUME NEW s, NEW start
    PROVE  /\ ~Opens(s, start) => toolCallResultGroupEnd(s, start) = start + 1
           /\ Opens(s, start) /\ (\E end \in start + 1 .. Len(s) : Closes(s, start, end)) =>
                toolCallResultGroupEnd(s, start) =
                  1 + CHOOSE end \in start + 1 .. Len(s) : FirstClosing(s, start, end)
  BY DEF toolCallResultGroupEnd, Opens, Closes, Complete, CallIDs, FirstClosing

LEMMA GroupOfOne ==
    ASSUME NEW s \in Seq(Items), NEW i \in 1 .. Len(s), ~Calling(s[i])
    PROVE  toolCallResultGroupEnd(s, i) = i + 1
<1>1. s[i] \in Items
  OBVIOUS
<1>2. s[i].calls \in Seq(ProviderCalls)
  BY <1>1 DEF Items, Records
<1>3. ~Opens(s, i)
  BY <1>2, SomeCall DEF Opens, Ids, Calling
<1> QED BY <1>3, GroupEnd

LEMMA GroupOfBatch ==
    ASSUME NEW s \in Seq(Items), NEW b \in 1 .. Len(s), NEW c \in 1 .. Len(s),
           NEW e \in 1 .. Len(s), Batch(s, b, c, e)
    PROVE  toolCallResultGroupEnd(s, b) = e + 1
<1>1. Len(s) \in Nat
  OBVIOUS
<1>2. b <= c /\ c < e /\ b \in b .. c
  BY DEF Batch
<1>3. ASSUME NEW i \in b .. c PROVE Ids(s[i]) = Range(s[i].calls) /\ Opens(s, i)
  <2>1. i \in 1 .. Len(s)
    BY <1>1, <1>2
  <2>2. s[i] \in Items
    BY <2>1
  <2>3. s[i].calls \in Seq(ProviderCalls)
    BY <2>2 DEF Items, Records
  <2>4. Calling(s[i]) /\ NoCall \notin Range(s[i].calls)
    BY DEF Batch
  <2> QED BY <2>3, <2>4, SomeCall DEF Ids, Opens, Calling
<1>4. ASSUME NEW j \in c + 1 .. e
      PROVE  /\ IsResult(s[j])
             /\ \E x : s[j].calls = <<x>> /\ Ids(s[j]) = {x} /\ x \in CallIDs(s, b, c)
  <2>1. IsResult(s[j]) /\ \E i \in b .. c : \E x \in Range(s[i].calls) : s[j].calls = <<x>>
    BY DEF Batch
  <2>2. PICK i \in b .. c : \E x \in Range(s[i].calls) : s[j].calls = <<x>>
    BY <2>1
  <2>3. PICK x \in Range(s[i].calls) : s[j].calls = <<x>>
    BY <2>2
  <2>4. x # NoCall
    BY <2>2, <2>3 DEF Batch
  <2>5. Ids(s[j]) = {x}
    BY <2>3, <2>4, OneCall DEF Ids
  <2>6. x \in Ids(s[i])
    BY <1>3, <2>2
  <2>7. x \in CallIDs(s, b, c)
    BY <2>2, <2>6 DEF CallIDs
  <2> QED BY <2>1, <2>3, <2>5, <2>7
<1>5. Complete(s, b, c, e)
  <2>1. ASSUME NEW x \in CallIDs(s, b, c) PROVE x \in CallIDs(s, c + 1, e)
    <3>1. PICK i \in b .. c : x \in Ids(s[i])
      BY DEF CallIDs
    <3>2. x \in Range(s[i].calls)
      BY <1>3, <3>1
    <3>3. PICK j \in c + 1 .. e : s[j].calls = <<x>>
      BY <3>1, <3>2 DEF Batch
    <3>4. PICK y : s[j].calls = <<y>> /\ Ids(s[j]) = {y}
      BY <1>4, <3>3
    <3>5. x = y
      BY <3>3, <3>4, OneCall
    <3>6. x \in Ids(s[j])
      BY <3>4, <3>5
    <3> QED BY <3>3, <3>6 DEF CallIDs
  <2>2. ASSUME NEW x \in CallIDs(s, c + 1, e) PROVE x \in CallIDs(s, b, c)
    <3>1. PICK j \in c + 1 .. e : x \in Ids(s[j])
      BY DEF CallIDs
    <3> QED BY <1>4, <3>1
  <2>3. \A j \in c + 1 .. e : IsResult(s[j]) /\ Ids(s[j]) \subseteq CallIDs(s, b, c)
    BY <1>4
  <2>4. CallIDs(s, b, c) = CallIDs(s, c + 1, e)
    BY <2>1, <2>2
  <2> QED BY <1>3, <2>3, <2>4 DEF Complete
<1>6. Closes(s, b, e)
  <2>1. c \in b .. e - 1
    BY <1>2
  <2> QED BY <1>5, <2>1 DEF Closes
<1>7. ASSUME NEW f \in b + 1 .. e - 1, Closes(s, b, f) PROVE FALSE
  <2>1. PICK q \in b .. f - 1 : Complete(s, b, q, f)
    BY <1>7 DEF Closes
  <2>2. q <= c
    <3>1. SUFFICES ASSUME q > c PROVE FALSE
      BY <2>1
    <3>2. c + 1 \in b .. q /\ c + 1 \in c + 1 .. e
      BY <1>2, <2>1, <3>1
    <3>3. IsOutput(s[c + 1])
      BY <2>1, <3>2 DEF Complete, Opens
    <3>4. IsResult(s[c + 1])
      BY <3>2 DEF Batch
    <3> QED BY <3>3, <3>4, Kind
  <2>3. q >= c
    <3>1. SUFFICES ASSUME q < c PROVE FALSE
      BY <2>1
    <3>2. q + 1 \in b .. c /\ q + 1 \in q + 1 .. f
      BY <1>2, <2>1, <3>1
    <3>3. IsResult(s[q + 1])
      BY <2>1, <3>2 DEF Complete
    <3>4. IsOutput(s[q + 1])
      BY <1>3, <3>2 DEF Opens
    <3> QED BY <3>3, <3>4, Kind
  <2>4. q = c
    BY <2>1, <2>2, <2>3
  <2>5. e \in c + 1 .. e
    BY <1>2
  <2>6. PICK x : s[e].calls = <<x>> /\ x \in CallIDs(s, b, c)
    BY <1>4, <2>5
  <2>7. x \in CallIDs(s, c + 1, f)
    BY <2>1, <2>4, <2>6 DEF Complete
  <2>8. PICK k \in c + 1 .. f : x \in Ids(s[k])
    BY <2>7 DEF CallIDs
  <2>9. k \in c + 1 .. e /\ k # e
    BY <2>8
  <2>10. PICK y : s[k].calls = <<y>> /\ Ids(s[k]) = {y}
    BY <1>4, <2>9
  <2>11. s[k].calls = s[e].calls
    BY <2>6, <2>8, <2>10
  <2>12. k = e
    BY <2>5, <2>9, <2>11 DEF Batch
  <2> QED BY <2>9, <2>12
<1>8. FirstClosing(s, b, e) /\ e \in b + 1 .. Len(s)
  BY <1>1, <1>2, <1>6, <1>7 DEF FirstClosing
<1>9. ASSUME NEW f \in b + 1 .. Len(s), FirstClosing(s, b, f) PROVE f = e
  <2>1. ~(f < e)
    <3>1. SUFFICES ASSUME f < e PROVE FALSE
      OBVIOUS
    <3>2. f \in b + 1 .. e - 1
      BY <3>1
    <3> QED BY <1>7, <1>9, <3>2 DEF FirstClosing
  <2>2. ~(e < f)
    <3>1. SUFFICES ASSUME e < f PROVE FALSE
      OBVIOUS
    <3>2. e \in b + 1 .. f - 1
      BY <1>2, <3>1
    <3> QED BY <1>6, <1>9, <3>2 DEF FirstClosing
  <2> QED BY <2>1, <2>2
<1>10. (CHOOSE end \in b + 1 .. Len(s) : FirstClosing(s, b, end)) = e
  BY <1>8, <1>9
<1>11. toolCallResultGroupEnd(s, b) = 1 + e
  <2>1. Opens(s, b)
    BY <1>2, <1>3
  <2>2. \E end \in b + 1 .. Len(s) : Closes(s, b, end)
    BY <1>6, <1>8
  <2> QED BY <1>10, <2>1, <2>2, GroupEnd
<1> QED BY <1>11

(* Outside a batch: no batch begins before the position and goes on at it. *)
Outside(s, i) == \A b, c, e \in 1 .. Len(s) : Batch(s, b, c, e) => i <= b \/ i > e
Boundaries(s) == {i \in 1 .. Len(s) + 1 : Outside(s, i)}

LEMMA GroupStep ==
    ASSUME NEW s \in Seq(Items), Batched(s), NEW i \in 1 .. Len(s), Outside(s, i)
    PROVE  LET end == toolCallResultGroupEnd(s, i)
           IN  /\ end \in Boundaries(s) /\ i < end
               /\ \A b, c, e \in 1 .. Len(s) : \A j \in i .. end - 1 :
                    Batch(s, b, c, e) /\ b <= j /\ j <= e => b = i /\ e + 1 = end
<1>1. PICK m \in Nat : m = Len(s)
  OBVIOUS
<1>2. CASE Calling(s[i])
  <2>1. PICK b, c, e \in 1 .. Len(s) : b <= i /\ i <= e /\ Batch(s, b, c, e)
    BY <1>2 DEF Batched
  <2>2. i = b
    BY <2>1 DEF Outside
  <2>3. toolCallResultGroupEnd(s, i) = e + 1
    BY <2>1, <2>2, GroupOfBatch
  <2>4. ASSUME NEW b2 \in 1 .. Len(s), NEW c2 \in 1 .. Len(s), NEW e2 \in 1 .. Len(s),
               NEW j \in i .. e, Batch(s, b2, c2, e2), b2 <= j, j <= e2
        PROVE  b2 = i /\ e2 = e
    <3>1. Spans(s, b, c, e, j) /\ Spans(s, b2, c2, e2, j)
      BY <2>1, <2>2, <2>4 DEF Spans
    <3>2. b = b2 /\ e = e2
      BY <3>1, BatchUnique
    <3> QED BY <2>2, <3>2
  <2>5. Outside(s, e + 1)
    <3>1. SUFFICES ASSUME NEW b2 \in 1 .. Len(s), NEW c2 \in 1 .. Len(s), NEW e2 \in 1 .. Len(s),
                          Batch(s, b2, c2, e2), ~(e + 1 <= b2), ~(e + 1 > e2)
                   PROVE  FALSE
      BY DEF Outside
    <3>2. e \in i .. e /\ b2 <= e /\ e <= e2 /\ e # e2
      BY <1>1, <2>1, <2>2, <3>1
    <3> QED BY <2>4, <3>1, <3>2
  <2>6. e + 1 \in 1 .. Len(s) + 1 /\ i < e + 1
    BY <1>1, <2>1
  <2>7. (e + 1) - 1 = e
    BY <2>1
  <2> QED BY <2>3, <2>4, <2>5, <2>6, <2>7 DEF Boundaries
<1>3. CASE ~Calling(s[i])
  <2>1. toolCallResultGroupEnd(s, i) = i + 1
    BY <1>3, GroupOfOne
  <2>2. ASSUME NEW b \in 1 .. Len(s), NEW c \in 1 .. Len(s), NEW e \in 1 .. Len(s),
               Batch(s, b, c, e), b <= i, i <= e
        PROVE  FALSE
    <3>1. i <= b
      BY <2>2 DEF Outside
    <3>2. i = b /\ b <= c
      BY <2>2, <3>1 DEF Batch
    <3>3. b \in b .. c
      BY <3>2
    <3> QED BY <1>3, <2>2, <3>2, <3>3 DEF Batch
  <2>3. Outside(s, i + 1)
    <3>1. SUFFICES ASSUME NEW b2 \in 1 .. Len(s), NEW c2 \in 1 .. Len(s), NEW e2 \in 1 .. Len(s),
                          Batch(s, b2, c2, e2), ~(i + 1 <= b2), ~(i + 1 > e2)
                   PROVE  FALSE
      BY DEF Outside
    <3>2. b2 <= i /\ i <= e2
      BY <3>1
    <3> QED BY <2>2, <3>1, <3>2
  <2>4. i + 1 \in 1 .. Len(s) + 1 /\ i < i + 1
    BY <1>1
  <2>5. \A j \in i .. (i + 1) - 1 : j = i
    OBVIOUS
  <2> QED BY <2>1, <2>2, <2>3, <2>4, <2>5 DEF Boundaries
<1> QED BY <1>2, <1>3

(* A function given by its first value and the next one exists.            *)
Maps(D, N, V) == N \in Nat /\ D \in [1 .. N -> [V -> V]]
Iterates(f, D, N, V, v) ==
    f \in [0 .. N -> V] /\ f[0] = v /\ \A n \in 1 .. N : f[n] = D[n][f[n - 1]]

LEMMA Iterated ==
    ASSUME NEW D, NEW N, NEW V, Maps(D, N, V), NEW v \in V
    PROVE  \E f : Iterates(f, D, N, V, v)
<1>0. N \in Nat /\ D \in [1 .. N -> [V -> V]]
  BY DEF Maps
<1> USE <1>0
<1> DEFINE Good(m) == \E f \in [0 .. m -> V] : f[0] = v /\ \A n \in 1 .. m : f[n] = D[n][f[n - 1]]
           S == {m \in 0 .. N : ~Good(m)}
<1>1. Good(0)
  <2>1. PICK f : f = [n \in 0 .. 0 |-> v]
    OBVIOUS
  <2>2. f \in [0 .. 0 -> V] /\ f[0] = v /\ \A n \in 1 .. 0 : FALSE
    BY <2>1
  <2> QED BY <2>2
<1>2. ASSUME NEW m \in 1 .. N, Good(m - 1) PROVE Good(m)
  <2>1. PICK f \in [0 .. m - 1 -> V] : f[0] = v /\ \A n \in 1 .. m - 1 : f[n] = D[n][f[n - 1]]
    BY <1>2
  <2>2. f[m - 1] \in V
    BY <2>1
  <2>3. PICK w \in V : w = D[m][f[m - 1]]
    BY <2>2
  <2>4. PICK g : g = [n \in 0 .. m |-> IF n = m THEN w ELSE f[n]]
    OBVIOUS
  <2>5. g \in [0 .. m -> V]
    <3>1. \A n \in 0 .. m : n # m => n \in 0 .. m - 1
      OBVIOUS
    <3> QED BY <2>1, <2>3, <2>4, <3>1
  <2>6. g[m] = w /\ \A n \in 0 .. m - 1 : g[n] = f[n]
    BY <2>4
  <2>7. g[0] = v
    BY <2>1, <2>6
  <2>8. ASSUME NEW n \in 1 .. m PROVE g[n] = D[n][g[n - 1]]
    <3>1. g[n - 1] = f[n - 1]
      BY <2>6
    <3>2. CASE n = m
      BY <2>3, <2>6, <3>1, <3>2
    <3>3. CASE n # m
      <4>1. n \in 1 .. m - 1 /\ n \in 0 .. m - 1
        BY <3>3
      <4> QED BY <2>1, <2>6, <3>1, <4>1
    <3> QED BY <3>2, <3>3
  <2> QED BY <2>5, <2>7, <2>8
<1> HIDE DEF Good
<1>3. S = {}
  <2>1. SUFFICES ASSUME S # {} PROVE FALSE
    OBVIOUS
  <2>2. S \in SUBSET Nat
    OBVIOUS
  <2>3. PICK m \in S : \A k \in S : m <= k
    BY <2>1, <2>2, LeastOf
  <2>4. m \in 0 .. N /\ ~Good(m)
    BY <2>3
  <2>5. m # 0
    BY <1>1, <2>4
  <2>6. m \in 1 .. N /\ m - 1 \in 0 .. N /\ ~(m <= m - 1)
    BY <2>4, <2>5
  <2>7. Good(m - 1)
    BY <2>3, <2>6
  <2> QED BY <1>2, <2>4, <2>6, <2>7
<1>4. Good(N)
  BY <1>3
<1> QED BY <1>4 DEF Good, Iterates

(* Every group of a batched transcript starts outside of batches.          *)
LEMMA GroupStarts ==
    ASSUME NEW s \in Seq(Items), Batched(s), NEW g \in transcriptGroups(s)
    PROVE  /\ g.start \in 1 .. Len(s) /\ Outside(s, g.start)
           /\ g.end = toolCallResultGroupEnd(s, g.start)
<1>1. PICK m \in Nat : m = Len(s)
  OBVIOUS
<1>2. PICK end : end = groupEnds(s)
  OBVIOUS
<1>3. end = [i \in 1 .. m + 1 |-> IF i > m THEN i ELSE toolCallResultGroupEnd(s, i)]
  BY <1>1, <1>2 DEF groupEnds
<1>4. PICK G : G = Boundaries(s)
  OBVIOUS
<1>5. G \subseteq 1 .. m + 1
  BY <1>1, <1>4 DEF Boundaries
<1>6. ASSUME NEW i \in G PROVE end[i] \in G
  <2>1. i \in 1 .. m + 1
    BY <1>5
  <2>2. CASE i > m
    BY <1>3, <2>1, <2>2
  <2>3. CASE ~(i > m)
    <3>1. i \in 1 .. m /\ Outside(s, i)
      BY <1>4, <2>1, <2>3 DEF Boundaries
    <3>2. end[i] = toolCallResultGroupEnd(s, i)
      BY <1>3, <2>1, <2>3
    <3> QED BY <1>1, <1>4, <3>1, <3>2, GroupStep
  <2> QED BY <2>2, <2>3
<1>7. 1 \in G
  <2>1. 1 \in 1 .. m + 1
    BY <1>1
  <2>2. Outside(s, 1)
    BY DEF Outside
  <2> QED BY <1>1, <1>4, <2>1, <2>2 DEF Boundaries
<1>8. Len(end) = m + 1
  <2>1. PICK V, n : V = {end[i] : i \in 1 .. m + 1} /\ n = m + 1
    OBVIOUS
  <2>2. end \in [1 .. n -> V] /\ n \in Nat
    BY <1>1, <1>3, <2>1
  <2>3. end \in Seq(V) /\ Len(end) = n
    BY <2>2
  <2> QED BY <2>1, <2>3
<1>9. \E f : f = [n \in 1 .. m + 1 |-> IF n = 1 THEN 1 ELSE end[f[n - 1]]]
  <2>1. PICK D : D = [n \in 1 .. m |-> [i \in G |-> end[i]]]
    OBVIOUS
  <2>2. D \in [1 .. m -> [G -> G]]
    BY <1>6, <2>1
  <2>3. PICK h \in [0 .. m -> G] : h[0] = 1 /\ \A n \in 1 .. m : h[n] = D[n][h[n - 1]]
    <3>1. Maps(D, m, G)
      BY <1>1, <2>2 DEF Maps
    <3>2. PICK h : Iterates(h, D, m, G, 1)
      BY <1>7, <3>1, Iterated
    <3> QED BY <3>2 DEF Iterates
  <2>4. PICK f : f = [n \in 1 .. m + 1 |-> h[n - 1]]
    OBVIOUS
  <2>5. ASSUME NEW n \in 1 .. m + 1 PROVE f[n] = IF n = 1 THEN 1 ELSE end[f[n - 1]]
    <3>1. f[n] = h[n - 1]
      BY <2>4
    <3>2. CASE n = 1
      BY <2>3, <3>1, <3>2
    <3>3. CASE n # 1
      <4>1. n - 1 \in 1 .. m /\ n - 1 \in 1 .. m + 1 /\ (n - 1) - 1 \in 0 .. m
        BY <1>1, <3>3
      <4>2. f[n - 1] = h[(n - 1) - 1]
        BY <2>4, <4>1
      <4>3. h[n - 1] = D[n - 1][h[(n - 1) - 1]]
        BY <2>3, <4>1
      <4>4. h[(n - 1) - 1] \in G
        BY <2>3, <4>1
      <4>5. h[n - 1] = end[h[(n - 1) - 1]]
        BY <2>1, <4>1, <4>3, <4>4
      <4> QED BY <3>1, <3>3, <4>2, <4>5
    <3> QED BY <3>2, <3>3
  <2>6. f = [n \in 1 .. m + 1 |-> IF n = 1 THEN 1 ELSE end[f[n - 1]]]
    BY <2>4, <2>5
  <2> QED BY <2>6
<1>10. PICK start : /\ start = CHOOSE f : f = [n \in 1 .. m + 1 |-> IF n = 1 THEN 1 ELSE end[f[n - 1]]]
                    /\ g \in {[start |-> i, end |-> end[i]] : i \in Range(start) \ {m + 1}}
  BY <1>2, <1>8 DEF transcriptGroups, groupsEndingAt
<1>11. start = [n \in 1 .. m + 1 |-> IF n = 1 THEN 1 ELSE end[start[n - 1]]]
  BY <1>9, <1>10
<1>12. PICK S : S = {n \in 1 .. m + 1 : start[n] \notin G}
  OBVIOUS
<1>13. S = {}
  <2>1. SUFFICES ASSUME S # {} PROVE FALSE
    OBVIOUS
  <2>2. S \in SUBSET Nat
    BY <1>12
  <2>3. PICK n \in S : \A k \in S : n <= k
    BY <2>1, <2>2, LeastOf
  <2>4. n \in 1 .. m + 1 /\ start[n] \notin G
    BY <1>12, <2>3
  <2>5. n # 1
    BY <1>7, <1>11, <2>4
  <2>6. n - 1 \in 1 .. m + 1 /\ ~(n <= n - 1)
    BY <1>1, <2>4, <2>5
  <2>7. start[n - 1] \in G
    BY <1>12, <2>3, <2>6
  <2>8. start[n] = end[start[n - 1]]
    BY <1>11, <2>4, <2>5
  <2> QED BY <1>6, <2>4, <2>7, <2>8
<1>14. PICK i \in Range(start) \ {m + 1} : g = [start |-> i, end |-> end[i]]
  BY <1>10
<1>15. i \in G /\ i # m + 1
  <2>1. PICK n \in DOMAIN start : i = start[n]
    BY <1>14 DEF Range
  <2>2. DOMAIN start = 1 .. m + 1
    BY <1>11
  <2> QED BY <1>12, <1>13, <1>14, <2>1, <2>2
<1>16. i \in 1 .. m /\ Outside(s, i)
  BY <1>1, <1>4, <1>5, <1>15 DEF Boundaries
<1>17. end[i] = toolCallResultGroupEnd(s, i)
  <2>1. i \in 1 .. m + 1 /\ ~(i > m)
    BY <1>1, <1>16
  <2> QED BY <1>3, <2>1
<1> QED BY <1>1, <1>14, <1>16, <1>17

LEMMA OmittedGroups ==
    ASSUME NEW s, NEW groups
    PROVE  \E K : /\ omittedIndices(s, groups) = UNION {g.start .. g.end - 1 : g \in K}
                  /\ \A g \in K : g \in groups /\ groupDroppable(SubSeq(s, g.start, g.end - 1))
<1> DEFINE droppable(g) == /\ g.end <= Max({Len(s) - PreserveRecent, 0}) + 1
                           /\ groupDroppable(SubSeq(s, g.start, g.end - 1))
           indices(g) == g.start .. g.end - 1
           without(omitted) == [i \in DOMAIN s |-> [size |-> IF i \in omitted THEN 0 ELSE s[i].size]]
           dropped(candidates) ==
             {g \in candidates :
                \E rest \in {without(UNION {indices(h) : h \in {h \in candidates : h.start < g.start}})} :
                  estimateItemsTokens(rest) > Budget}
           C == {g \in groups : droppable(g)}
<1>1. omittedIndices(s, groups) = UNION {UNION {indices(g) : g \in dropped(candidates)} :
                                           candidates \in {C}}
  BY DEF omittedIndices
<1>2. \A g \in dropped(C) : g \in groups /\ groupDroppable(SubSeq(s, g.start, g.end - 1))
  OBVIOUS
<1>3. PICK K : K = dropped(C)
  OBVIOUS
<1>4. UNION {UNION {indices(g) : g \in dropped(candidates)} : candidates \in {C}}
        = UNION {indices(g) : g \in K}
  <2> HIDE DEF C, dropped
  <2> QED BY <1>3
<1> QED BY <1>1, <1>2, <1>3, <1>4

(* What compaction leaves out: whole batches, and of the context only what *)
(* is in messages of the user.                                             *)
LEMMA Omitted ==
    ASSUME NEW s \in Seq(Items), Batched(s)
    PROVE  LET O == omittedIndices(s, transcriptGroups(s))
           IN  /\ O \subseteq 1 .. Len(s)
               /\ \A b, c, e \in 1 .. Len(s) : Batch(s, b, c, e) =>
                    \A i, j \in b .. e : i \in O => j \in O
               /\ \A i \in O : s[i].context # 0 => ~Durable(s[i].context)
<1>1. PICK m \in Nat : m = Len(s)
  OBVIOUS
<1>2. PICK O : O = omittedIndices(s, transcriptGroups(s))
  OBVIOUS
<1>3. PICK K : /\ O = UNION {g.start .. g.end - 1 : g \in K}
               /\ \A g \in K : g \in transcriptGroups(s) /\ groupDroppable(SubSeq(s, g.start, g.end - 1))
  BY <1>2, OmittedGroups
<1>4. ASSUME NEW i \in O
      PROVE  \E g \in K : /\ i \in g.start .. g.end - 1 /\ g.start .. g.end - 1 \subseteq O
                          /\ g.start \in 1 .. m /\ Outside(s, g.start)
                          /\ g.end = toolCallResultGroupEnd(s, g.start)
                          /\ g.end \in 1 .. m + 1 /\ g.start < g.end
  <2>1. PICK g \in K : i \in g.start .. g.end - 1
    BY <1>3
  <2>2. g.start .. g.end - 1 \subseteq O
    BY <1>3, <2>1
  <2>3. /\ g.start \in 1 .. m /\ Outside(s, g.start)
        /\ g.end = toolCallResultGroupEnd(s, g.start)
    BY <1>1, <1>3, <2>1, GroupStarts
  <2>4. g.end \in Boundaries(s) /\ g.start < g.end
    BY <1>1, <2>3, GroupStep
  <2> QED BY <1>1, <2>1, <2>2, <2>3, <2>4 DEF Boundaries
<1>5. O \subseteq 1 .. m
  <2>1. SUFFICES ASSUME NEW i \in O PROVE i \in 1 .. m
    OBVIOUS
  <2>2. PICK a, z : i \in a .. z - 1 /\ a \in 1 .. m /\ z \in 1 .. m + 1
    BY <1>4
  <2> QED BY <1>1, <2>2
<1>6. ASSUME NEW b \in 1 .. m, NEW c \in 1 .. m, NEW e \in 1 .. m, Batch(s, b, c, e),
             NEW i \in b .. e, NEW j \in b .. e, i \in O
      PROVE  j \in O
  <2>1. PICK g \in K : /\ i \in g.start .. g.end - 1 /\ g.start .. g.end - 1 \subseteq O
                       /\ g.start \in 1 .. m /\ Outside(s, g.start)
                       /\ g.end = toolCallResultGroupEnd(s, g.start)
                       /\ g.end \in 1 .. m + 1 /\ g.start < g.end
    BY <1>4, <1>6
  <2>2. b <= i /\ i <= e
    BY <1>1
  <2>3. b = g.start /\ e + 1 = g.end
    BY <1>1, <1>6, <2>1, <2>2, GroupStep
  <2>4. j \in g.start .. g.end - 1
    BY <1>1, <2>3
  <2> QED BY <2>1, <2>4
<1>7. ASSUME NEW i \in O, s[i].context # 0 PROVE ~Durable(s[i].context)
  <2>1. PICK g \in K : /\ i \in g.start .. g.end - 1
                       /\ g.start \in 1 .. m /\ g.end \in 1 .. m + 1 /\ g.start < g.end
    BY <1>4
  <2>2. PICK a, z : a = g.start /\ z = g.end - 1
    OBVIOUS
  <2>3. a \in 1 .. m /\ z \in 1 .. m /\ a <= z /\ i \in a .. z
    BY <1>1, <2>1, <2>2
  <2>4. PICK t : t = SubSeq(s, a, z)
    OBVIOUS
  <2>5. groupDroppable(t)
    BY <1>3, <2>1, <2>2, <2>4
  <2>6. PICK k : k = i - a + 1
    OBVIOUS
  <2>7. k \in DOMAIN t /\ t[k] = s[i]
    <3>1. /\ t \in Seq(Items) /\ Len(t) = z - a + 1
          /\ \A n \in 1 .. z - a + 1 : t[n] = s[a + n - 1]
      BY <1>1, <2>3, <2>4
    <3>2. k \in 1 .. z - a + 1 /\ a + k - 1 = i
      BY <2>3, <2>6
    <3> QED BY <3>1, <3>2
  <2>8. ~(s[i].kind = "input" /\ s[i].role = "developer")
    BY <2>5, <2>7 DEF groupDroppable
  <2>9. s[i] \in Items
    BY <1>1, <1>5
  <2>10. s[i].role = Placed[s[i].context] /\ s[i].role # "developer"
    BY <1>7, <2>8, <2>9 DEF Items, Diff
  <2>11. Placed[s[i].context] \in {"developer", "user"}
    BY <1>7, <2>9, DiffVersion
  <2> QED BY <2>10, <2>11 DEF Durable
<1> QED BY <1>1, <1>2, <1>5, <1>6, <1>7

(* What is left of each item, and where it is then.                        *)
Remains(O, i) == i \notin O \/ i = Min(O)
Remainder(s, O, i) == IF i \notin O THEN s[i] ELSE compactionNotice
Left(s, O, i) == IF Remains(O, i) THEN <<Remainder(s, O, i)>> ELSE <<>>

(* u is what is left of s, and pos[i] how much of it comes from the items  *)
(* up to i.                                                                *)
Selection(s, O, u, pos) ==
    /\ u \in Seq(Items) /\ pos \in [0 .. Len(s) -> Nat]
    /\ pos[0] = 0 /\ pos[Len(s)] = Len(u)
    /\ \A i \in 1 .. Len(s) :
         IF Remains(O, i) THEN pos[i] = pos[i - 1] + 1 /\ u[pos[i]] = Remainder(s, O, i)
         ELSE pos[i] = pos[i - 1]

LEMMA NoticeType ==
    /\ compactionNotice \in Items /\ compactionNotice.kind = "input"
    /\ compactionNotice.context = 0
<1>1. /\ "input" \in Kinds /\ "developer" \in Roles /\ 1 \in Nat /\ 0 \in 0 .. MaxContext
      /\ <<>> \in Seq(ProviderCalls)
  BY SessionAssumption DEF Kinds, Roles
<1> QED BY <1>1 DEF compactionNotice, Items, Records, Diff

LEMMA LeftType ==
    ASSUME NEW s \in Seq(Items), NEW O, NEW i \in 1 .. Len(s)
    PROVE  /\ Remainder(s, O, i) \in Items
           /\ Left(s, O, i) \in Seq(Items)
           /\ Remains(O, i) => Len(Left(s, O, i)) = 1 /\ Left(s, O, i)[1] = Remainder(s, O, i)
           /\ ~Remains(O, i) => Left(s, O, i) = <<>>
<1>1. PICK x : x = Remainder(s, O, i)
  OBVIOUS
<1>2. x \in Items
  BY <1>1, NoticeType DEF Remainder
<1>3. <<x>> \in Seq(Items) /\ Len(<<x>>) = 1 /\ <<x>>[1] = x
  BY <1>2
<1> QED BY <1>1, <1>2, <1>3 DEF Left

LEMMA OmitSelects ==
    ASSUME NEW s \in Seq(Items), NEW O
    PROVE  \E pos : Selection(s, O, omitOldItems(s, O), pos)
<1>1. PICK m \in Nat : m = Len(s)
  OBVIOUS
<1>2. PICK V : V = Seq(Items)
  OBVIOUS
<1>3. \E f : f = [n \in 0 .. m |-> IF n = 0 THEN <<>> ELSE f[n - 1] \o Left(s, O, n)]
  <2>1. PICK D : D = [n \in 1 .. m |-> [v \in V |-> v \o Left(s, O, n)]]
    OBVIOUS
  <2>2. ASSUME NEW n \in 1 .. m, NEW v \in V PROVE v \o Left(s, O, n) \in V
    BY <1>1, <1>2, LeftType, ConcatProperties
  <2>3. Maps(D, m, V)
    BY <1>1, <2>1, <2>2 DEF Maps
  <2>4. <<>> \in V
    BY <1>2
  <2>5. PICK f : Iterates(f, D, m, V, <<>>)
    BY <2>3, <2>4, Iterated
  <2>6. f \in [0 .. m -> V] /\ f[0] = <<>> /\ \A n \in 1 .. m : f[n] = D[n][f[n - 1]]
    BY <2>5 DEF Iterates
  <2>7. ASSUME NEW n \in 1 .. m PROVE f[n] = f[n - 1] \o Left(s, O, n)
    <3>1. f[n - 1] \in V
      <4>1. n - 1 \in 0 .. m
        BY <1>1
      <4> QED BY <2>6, <4>1
    <3> QED BY <2>1, <2>6, <3>1
  <2>8. \A n \in 0 .. m : n # 0 => n \in 1 .. m
    BY <1>1
  <2>9. f = [n \in 0 .. m |-> IF n = 0 THEN <<>> ELSE f[n - 1] \o Left(s, O, n)]
    BY <2>6, <2>7, <2>8
  <2> QED BY <2>9
<1>4. PICK upTo : /\ upTo = CHOOSE f : f = [n \in 0 .. m |-> IF n = 0 THEN <<>>
                                                             ELSE f[n - 1] \o Left(s, O, n)]
                  /\ omitOldItems(s, O) = upTo[m]
  <2> DEFINE kept(i) == IF i \notin O THEN <<s[i]>>
                        ELSE IF i = Min(O) THEN <<compactionNotice>> ELSE <<>>
  <2>1. ASSUME NEW i PROVE kept(i) = Left(s, O, i)
    <3>1. CASE i \notin O
      BY <3>1 DEF Left, Remains, Remainder
    <3>2. CASE i \in O /\ i = Min(O)
      BY <3>2 DEF Left, Remains, Remainder
    <3>3. CASE i \in O /\ i # Min(O)
      BY <3>3 DEF Left, Remains, Remainder
    <3> QED BY <3>1, <3>2, <3>3
  <2>2. omitOldItems(s, O) = (CHOOSE f : f = [n \in 0 .. Len(s) |-> IF n = 0 THEN <<>>
                                                      ELSE f[n - 1] \o kept(n)])[Len(s)]
    BY DEF omitOldItems
  <2> HIDE DEF kept
  <2> QED BY <1>1, <2>1, <2>2
<1>5. upTo = [n \in 0 .. m |-> IF n = 0 THEN <<>> ELSE upTo[n - 1] \o Left(s, O, n)]
  BY <1>3, <1>4
<1>6. upTo[0] = <<>> /\ \A n \in 1 .. m : upTo[n] = upTo[n - 1] \o Left(s, O, n)
  <2>1. 0 \in 0 .. m /\ \A n \in 1 .. m : n \in 0 .. m /\ n # 0
    BY <1>1
  <2> QED BY <1>5, <2>1
<1>7. \A n \in 0 .. m : upTo[n] \in Seq(Items)
  <2>1. PICK S : S = {n \in 0 .. m : upTo[n] \notin Seq(Items)}
    OBVIOUS
  <2>2. SUFFICES ASSUME S # {} PROVE FALSE
    BY <2>1
  <2>3. S \in SUBSET Nat
    BY <2>1
  <2>4. PICK n \in S : \A k \in S : n <= k
    BY <2>2, <2>3, LeastOf
  <2>5. n \in 0 .. m /\ upTo[n] \notin Seq(Items)
    BY <2>1, <2>4
  <2>6. n # 0
    <3>1. <<>> \in Seq(Items)
      OBVIOUS
    <3> QED BY <1>6, <2>5, <3>1
  <2>7. n \in 1 .. m /\ n - 1 \in 0 .. m /\ ~(n <= n - 1)
    BY <1>1, <2>5, <2>6
  <2>8. upTo[n - 1] \in Seq(Items)
    BY <2>1, <2>4, <2>7
  <2>9. upTo[n] = upTo[n - 1] \o Left(s, O, n) /\ Left(s, O, n) \in Seq(Items)
    BY <1>1, <1>6, <2>7, LeftType
  <2>10. upTo[n] \in Seq(Items)
    BY <2>8, <2>9, ConcatProperties
  <2> QED BY <2>5, <2>10
<1>8. ASSUME NEW n \in 1 .. m
      PROVE  /\ IF Remains(O, n)
                THEN Len(upTo[n]) = Len(upTo[n - 1]) + 1 /\ upTo[n][Len(upTo[n])] = Remainder(s, O, n)
                ELSE Len(upTo[n]) = Len(upTo[n - 1])
             /\ \A k \in 1 .. Len(upTo[n - 1]) : upTo[n][k] = upTo[n - 1][k]
             /\ Len(upTo[n - 1]) <= Len(upTo[n])
  <2>1. n - 1 \in 0 .. m
    BY <1>1
  <2>2. PICK a \in Seq(Items), z \in Seq(Items) : a = upTo[n - 1] /\ z = Left(s, O, n)
    BY <1>1, <1>7, <2>1, LeftType
  <2>3. upTo[n] = a \o z
    BY <1>6, <2>2
  <2>4. /\ Len(a \o z) = Len(a) + Len(z)
        /\ \A k \in 1 .. Len(a) + Len(z) : (a \o z)[k] = IF k <= Len(a) THEN a[k] ELSE z[k - Len(a)]
    BY ConcatProperties
  <2>5. PICK w, p, q : w = a \o z /\ p = Len(a) /\ q = Len(z)
    OBVIOUS
  <2>6. p \in Nat /\ q \in Nat
    BY <2>5
  <2>7. /\ Len(w) = p + q
        /\ \A k \in 1 .. p + q : w[k] = IF k <= p THEN a[k] ELSE z[k - p]
    BY <2>4, <2>5
  <2>8. CASE Remains(O, n)
    <3>1. q = 1 /\ z[1] = Remainder(s, O, n)
      BY <1>1, <2>2, <2>5, <2>8, LeftType
    <3>2. p + 1 \in 1 .. p + q /\ ~(p + 1 <= p) /\ (p + 1) - p = 1
      BY <2>6, <3>1
    <3>3. w[p + 1] = z[1]
      BY <2>7, <3>2
    <3>4. Len(w) = p + 1 /\ w[Len(w)] = Remainder(s, O, n)
      BY <2>7, <3>1, <3>3
    <3>5. \A k \in 1 .. p : w[k] = a[k]
      BY <2>6, <2>7, <3>1
    <3>6. p <= Len(w)
      BY <2>6, <3>4
    <3> QED BY <2>2, <2>3, <2>5, <2>8, <3>4, <3>5, <3>6
  <2>9. CASE ~Remains(O, n)
    <3>1. q = 0
      BY <1>1, <2>2, <2>5, <2>9, LeftType
    <3>2. Len(w) = p
      BY <2>6, <2>7, <3>1
    <3>3. \A k \in 1 .. p : w[k] = a[k]
      BY <2>6, <2>7, <3>1
    <3>4. p <= Len(w)
      BY <2>6, <3>2
    <3> QED BY <2>2, <2>3, <2>5, <2>9, <3>2, <3>3, <3>4
  <2> QED BY <2>8, <2>9
<1>9. ASSUME NEW i \in 0 .. m, NEW n \in i .. m
      PROVE  /\ Len(upTo[i]) <= Len(upTo[n])
             /\ \A k \in 1 .. Len(upTo[i]) : upTo[n][k] = upTo[i][k]
  <2> DEFINE Good(l) == /\ Len(upTo[i]) <= Len(upTo[l])
                        /\ \A k \in 1 .. Len(upTo[i]) : upTo[l][k] = upTo[i][k]
             S == {l \in i .. m : ~Good(l)}
  <2>1. SUFFICES ASSUME S # {} PROVE FALSE
    OBVIOUS
  <2>2. S \in SUBSET Nat
    BY <1>1
  <2>3. PICK l \in S : \A k \in S : l <= k
    BY <2>1, <2>2, LeastOf
  <2>4. l \in i .. m /\ ~Good(l)
    BY <2>3
  <2>5. Good(i)
    <3>1. Len(upTo[i]) \in Nat
      BY <1>7
    <3> QED BY <3>1
  <2> HIDE DEF Good
  <2>6. l # i
    BY <2>4, <2>5
  <2>7. l \in 1 .. m /\ l - 1 \in i .. m /\ ~(l <= l - 1) /\ l - 1 \in 0 .. m /\ l \in 0 .. m
    BY <1>1, <2>4, <2>6
  <2>8. Good(l - 1)
    BY <2>3, <2>7
  <2>9. PICK x, y, z \in Nat : x = Len(upTo[i]) /\ y = Len(upTo[l - 1]) /\ z = Len(upTo[l])
    BY <1>7, <2>7
  <2>10. y <= z /\ \A k \in 1 .. y : upTo[l][k] = upTo[l - 1][k]
    BY <1>8, <2>7, <2>9
  <2>11. x <= y /\ \A k \in 1 .. x : upTo[l - 1][k] = upTo[i][k]
    BY <2>8, <2>9 DEF Good
  <2>12. x <= z /\ \A k \in 1 .. x : upTo[l][k] = upTo[i][k]
    BY <2>9, <2>10, <2>11
  <2>13. Good(l)
    BY <2>9, <2>12 DEF Good
  <2> QED BY <2>4, <2>13
<1>10. PICK u, pos : u = upTo[m] /\ pos = [i \in 0 .. m |-> Len(upTo[i])]
  OBVIOUS
<1>11. u \in Seq(Items) /\ pos \in [0 .. m -> Nat] /\ pos[0] = 0 /\ pos[m] = Len(u)
  <2>1. m \in 0 .. m /\ 0 \in 0 .. m
    BY <1>1
  <2>2. \A i \in 0 .. m : Len(upTo[i]) \in Nat
    BY <1>7
  <2>3. Len(upTo[0]) = 0
    BY <1>6
  <2> QED BY <1>7, <1>10, <2>1, <2>2, <2>3
<1>12. ASSUME NEW i \in 1 .. m
       PROVE  IF Remains(O, i) THEN pos[i] = pos[i - 1] + 1 /\ u[pos[i]] = Remainder(s, O, i)
              ELSE pos[i] = pos[i - 1]
  <2>1. i \in 0 .. m /\ i - 1 \in 0 .. m /\ m \in i .. m
    BY <1>1
  <2>2. pos[i] = Len(upTo[i]) /\ pos[i - 1] = Len(upTo[i - 1])
    BY <1>10, <2>1
  <2>3. CASE Remains(O, i)
    <3>1. pos[i] = pos[i - 1] + 1 /\ upTo[i][pos[i]] = Remainder(s, O, i)
      BY <1>8, <2>2, <2>3
    <3>2. pos[i - 1] \in Nat
      BY <1>11, <2>1
    <3>3. pos[i] \in 1 .. Len(upTo[i])
      <4>1. PICK p, q : p = pos[i] /\ q = pos[i - 1] /\ q \in Nat /\ p = q + 1 /\ p = Len(upTo[i])
        BY <2>2, <3>1, <3>2
      <4>2. p \in 1 .. p
        BY <4>1
      <4> QED BY <4>1, <4>2
    <3>4. u[pos[i]] = upTo[i][pos[i]]
      BY <1>9, <1>10, <2>1, <3>3
    <3> QED BY <2>3, <3>1, <3>4
  <2>4. CASE ~Remains(O, i)
    BY <1>8, <2>2, <2>4
  <2> QED BY <2>3, <2>4
<1>13. Selection(s, O, u, pos)
  BY <1>1, <1>11, <1>12 DEF Selection
<1>14. omitOldItems(s, O) = u
  BY <1>4, <1>10
<1> QED BY <1>13, <1>14

LEMMA SelectionOrder ==
    ASSUME NEW s \in Seq(Items), NEW O, NEW u, NEW pos, Selection(s, O, u, pos),
           NEW i \in 0 .. Len(s), NEW j \in i .. Len(s)
    PROVE  /\ pos[i] \in Nat /\ pos[j] \in Nat /\ pos[i] <= pos[j]
           /\ i < j /\ Remains(O, j) => pos[i] < pos[j]
<1>1. PICK m \in Nat : m = Len(s)
  OBVIOUS
<1>2. /\ \A l \in 0 .. m : pos[l] \in Nat
      /\ \A l \in 1 .. m : pos[l] = IF Remains(O, l) THEN pos[l - 1] + 1 ELSE pos[l - 1]
  BY <1>1 DEF Selection
<1> DEFINE S == {l \in i .. m : ~(pos[i] <= pos[l])}
<1>3. S = {}
  <2>1. SUFFICES ASSUME S # {} PROVE FALSE
    OBVIOUS
  <2>2. S \in SUBSET Nat
    BY <1>1
  <2>3. PICK l \in S : \A k \in S : l <= k
    BY <2>1, <2>2, LeastOf
  <2>4. l \in i .. m /\ ~(pos[i] <= pos[l])
    BY <2>3
  <2>5. pos[i] \in Nat /\ l \in 0 .. m
    BY <1>1, <1>2, <2>4
  <2>6. l # i
    BY <2>4, <2>5
  <2>7. l - 1 \in i .. m /\ l \in 1 .. m /\ l - 1 \in 0 .. m /\ ~(l <= l - 1)
    BY <1>1, <2>4, <2>6
  <2>8. pos[i] <= pos[l - 1]
    BY <2>3, <2>7
  <2>9. pos[l - 1] \in Nat /\ pos[l] \in Nat /\ (pos[l] = pos[l - 1] + 1 \/ pos[l] = pos[l - 1])
    BY <1>2, <2>5, <2>7
  <2> QED BY <2>4, <2>5, <2>8, <2>9
<1>4. i \in 0 .. m /\ j \in 0 .. m /\ j \in i .. m
  BY <1>1
<1>5. pos[i] <= pos[j] /\ pos[i] \in Nat /\ pos[j] \in Nat
  BY <1>2, <1>3, <1>4
<1>6. ASSUME i < j, Remains(O, j) PROVE pos[i] < pos[j]
  <2>1. j \in 1 .. m /\ j - 1 \in i .. m /\ j - 1 \in 0 .. m
    BY <1>1, <1>6
  <2>2. pos[j] = pos[j - 1] + 1 /\ pos[j - 1] \in Nat
    BY <1>2, <1>6, <2>1
  <2>3. pos[i] <= pos[j - 1]
    BY <1>3, <2>1
  <2> QED BY <1>5, <2>2, <2>3
<1> QED BY <1>5, <1>6

(* Everything that is left is left of some item.                           *)
LEMMA SelectionOnto ==
    ASSUME NEW s \in Seq(Items), NEW O, NEW u, NEW pos, Selection(s, O, u, pos),
           NEW k \in 1 .. Len(u)
    PROVE  \E i \in 1 .. Len(s) : Remains(O, i) /\ pos[i] = k /\ u[k] = Remainder(s, O, i)
<1>1. PICK m \in Nat : m = Len(s)
  OBVIOUS
<1>2. /\ \A l \in 0 .. m : pos[l] \in Nat
      /\ \A l \in 1 .. m : pos[l] = IF Remains(O, l) THEN pos[l - 1] + 1 ELSE pos[l - 1]
      /\ \A l \in 1 .. m : Remains(O, l) => u[pos[l]] = Remainder(s, O, l)
      /\ pos[0] = 0 /\ pos[m] = Len(u)
  BY <1>1 DEF Selection
<1>3. k \in Nat \ {0}
  OBVIOUS
<1> DEFINE S == {l \in 0 .. m : pos[l] >= k}
<1>4. S # {}
  <2>1. m \in 0 .. m /\ pos[m] >= k
    BY <1>1, <1>2
  <2> QED BY <2>1
<1>5. S \in SUBSET Nat
  BY <1>1
<1>6. PICK i \in S : \A l \in S : i <= l
  BY <1>4, <1>5, LeastOf
<1>7. i \in 0 .. m /\ pos[i] >= k
  BY <1>6
<1>8. i # 0
  BY <1>2, <1>3, <1>7
<1>9. i \in 1 .. m /\ i - 1 \in 0 .. m /\ ~(i <= i - 1)
  BY <1>1, <1>7, <1>8
<1>10. ~(pos[i - 1] >= k)
  BY <1>6, <1>9
<1>11. pos[i - 1] \in Nat /\ pos[i] \in Nat
  BY <1>2, <1>7, <1>9
<1>12. Remains(O, i)
  <2>1. SUFFICES ASSUME ~Remains(O, i) PROVE FALSE
    OBVIOUS
  <2>2. pos[i] = pos[i - 1]
    BY <1>2, <1>9, <2>1
  <2> QED BY <1>7, <1>10, <2>2
<1>13. pos[i] = pos[i - 1] + 1
  BY <1>2, <1>9, <1>12
<1>14. pos[i] = k
  BY <1>3, <1>7, <1>10, <1>11, <1>13
<1> QED BY <1>1, <1>2, <1>9, <1>12, <1>14

(* Neighbours that are left stay neighbours.                               *)
LEMMA SelectionRow ==
    ASSUME NEW s \in Seq(Items), NEW O, NEW u, NEW pos, Selection(s, O, u, pos),
           NEW b \in 1 .. Len(s), NEW e \in b .. Len(s), \A l \in b .. e : Remains(O, l),
           NEW i \in b .. e
    PROVE  pos[i] = i + (pos[b] - b)
<1>1. PICK m \in Nat : m = Len(s)
  OBVIOUS
<1>2. /\ \A l \in 0 .. m : pos[l] \in Nat
      /\ \A l \in 1 .. m : Remains(O, l) => pos[l] = pos[l - 1] + 1
  BY <1>1 DEF Selection
<1> DEFINE S == {l \in b .. e : pos[l] # l + (pos[b] - b)}
<1>3. SUFFICES ASSUME S # {} PROVE FALSE
  OBVIOUS
<1>4. S \in SUBSET Nat
  BY <1>1
<1>5. PICK l \in S : \A k \in S : l <= k
  BY <1>3, <1>4, LeastOf
<1>6. l \in b .. e /\ pos[l] # l + (pos[b] - b)
  BY <1>5
<1>7. pos[b] \in Nat
  BY <1>1, <1>2
<1>8. l # b
  BY <1>6, <1>7
<1>9. l - 1 \in b .. e /\ l \in 1 .. m /\ l - 1 \in 0 .. m /\ ~(l <= l - 1)
  BY <1>1, <1>6, <1>8
<1>10. pos[l - 1] = (l - 1) + (pos[b] - b)
  BY <1>5, <1>9
<1>11. pos[l] = pos[l - 1] + 1
  BY <1>2, <1>6, <1>9
<1> QED BY <1>6, <1>7, <1>9, <1>10, <1>11

(* Whole batches, and what is between them.                                *)
Whole(s, O) ==
    /\ O \subseteq 1 .. Len(s)
    /\ \A b, c, e \in 1 .. Len(s) : Batch(s, b, c, e) =>
         \A i, j \in b .. e : i \in O => j \in O
    /\ \A i \in O : s[i].context # 0 => ~Durable(s[i].context)

LEMMA SelectionBatched ==
    ASSUME NEW s \in Seq(Items), Batched(s), NEW O, Whole(s, O),
           NEW u, NEW pos, Selection(s, O, u, pos)
    PROVE  Batched(u)
<1>1. PICK m \in Nat, n \in Nat : m = Len(s) /\ n = Len(u)
  BY DEF Selection
<1>2. ASSUME NEW k \in 1 .. n, Calling(u[k]) \/ IsResult(u[k])
      PROVE  \E i \in 1 .. m : i \notin O /\ pos[i] = k /\ u[k] = s[i]
  <2>1. k \in 1 .. Len(u)
    BY <1>1
  <2>2. PICK i \in 1 .. Len(s) : Remains(O, i) /\ pos[i] = k /\ u[k] = Remainder(s, O, i)
    BY <2>1, SelectionOnto
  <2>3. i \notin O
    <3>1. SUFFICES ASSUME i \in O PROVE FALSE
      OBVIOUS
    <3>2. u[k].kind = "input"
      BY <2>2, <3>1, NoticeType DEF Remainder
    <3> QED BY <1>2, <3>2 DEF Calling, IsOutput, IsResult
  <2> QED BY <1>1, <2>2, <2>3 DEF Remainder
<1>3. ASSUME NEW i \in 1 .. m, i \notin O, Calling(s[i]) \/ IsResult(s[i])
      PROVE  \E b, c, e \in 1 .. m : /\ b <= i /\ i <= e /\ Batch(s, b, c, e)
                                     /\ \A l \in b .. e : l \notin O
  <2>1. PICK b, c, e \in 1 .. Len(s) : b <= i /\ i <= e /\ Batch(s, b, c, e)
    BY <1>1, <1>3 DEF Batched
  <2>2. i \in b .. e
    BY <1>1, <2>1
  <2>3. \A l \in b .. e : l \notin O
    BY <1>3, <2>1, <2>2 DEF Whole
  <2> QED BY <1>1, <2>1, <2>3
<1>4. ASSUME NEW k \in 1 .. n, Calling(u[k]) \/ IsResult(u[k])
      PROVE  \E b, c, e \in 1 .. n : b <= k /\ k <= e /\ Batch(u, b, c, e)
  <2>1. PICK i \in 1 .. m : i \notin O /\ pos[i] = k /\ u[k] = s[i]
    BY <1>2, <1>4
  <2>2. PICK b, c, e \in 1 .. m : /\ b <= i /\ i <= e /\ Batch(s, b, c, e)
                                  /\ \A l \in b .. e : l \notin O
    BY <1>3, <1>4, <2>1
  <2>3. b <= c /\ c < e
    BY <2>2 DEF Batch
  <2>4. b \in 1 .. Len(s) /\ e \in b .. Len(s) /\ i \in b .. e /\ c \in b .. e
    BY <1>1, <2>2, <2>3
  <2>5. \A l \in b .. e : Remains(O, l)
    BY <2>2 DEF Remains
  <2>6. \A l \in b .. e : pos[l] = l + (pos[b] - b)
    BY <2>4, <2>5, SelectionRow
  <2>7. PICK p \in Nat : p = pos[b]
    <3>1. b \in 0 .. Len(s)
      BY <1>1, <2>2
    <3> QED BY <3>1 DEF Selection
  <2>8. PICK d \in Int : d = p - b
    BY <1>1
  <2>9. \A l \in b .. e : pos[l] = l + d
    BY <2>6, <2>7, <2>8
  <2>10. ASSUME NEW l \in b .. e PROVE l + d \in 1 .. n /\ u[l + d] = s[l]
    <3>1. l \in 1 .. m /\ l - 1 \in 0 .. m
      BY <1>1, <2>2
    <3>2. pos[l] = pos[l - 1] + 1 /\ u[pos[l]] = s[l] /\ pos[l - 1] \in Nat
      BY <1>1, <2>2, <2>5, <3>1 DEF Selection, Remainder
    <3>3. pos[l] <= n
      <4>1. l \in 0 .. Len(s) /\ Len(s) \in l .. Len(s)
        BY <1>1, <3>1
      <4>2. pos[l] <= pos[Len(s)]
        BY <4>1, SelectionOrder
      <4> QED BY <1>1, <4>2 DEF Selection
    <3>4. PICK q \in Nat : q = pos[l - 1]
      BY <3>2
    <3>5. q + 1 <= n /\ q + 1 = l + d
      BY <2>9, <3>2, <3>3, <3>4
    <3>6. l + d \in 1 .. n
      BY <1>1, <3>4, <3>5
    <3> QED BY <2>9, <3>2, <3>6
  <2>11. Copied(s, u, b, e, d)
    BY <2>10 DEF Copied
  <2>12. Fresh(u, b + d)
    <3>1. SUFFICES ASSUME b + d # 1, Calling(u[b + d - 1]) PROVE FALSE
      BY DEF Fresh
    <3>2. b + d \in 1 .. n
      <4>1. b \in b .. e
        BY <2>4
      <4> QED BY <2>10, <4>1
    <3>3. PICK f \in 1 .. n : f = b + d - 1
      BY <1>1, <2>4, <3>1, <3>2
    <3>4. PICK j \in 1 .. m : j \notin O /\ pos[j] = f /\ u[f] = s[j]
      BY <1>2, <3>1, <3>3
    <3>5. PICK b2, c2, e2 \in 1 .. m : /\ b2 <= j /\ j <= e2 /\ Batch(s, b2, c2, e2)
                                       /\ \A l \in b2 .. e2 : l \notin O
      BY <1>3, <3>1, <3>3, <3>4
    <3>6. j \in b2 .. e2
      BY <1>1, <3>5
    <3>7. j <= c2 /\ c2 < e2
      BY <3>1, <3>3, <3>4, <3>5, <3>6, BatchSides
    <3>8. pos[b] = f + 1
      <4>1. b \in b .. e
        BY <2>4
      <4>2. pos[b] = b + d
        BY <2>9, <4>1
      <4> QED BY <1>1, <2>8, <3>3, <4>2
    <3>9. j < b
      <4>1. SUFFICES ASSUME b <= j PROVE FALSE
        BY <1>1
      <4>2. b \in 0 .. Len(s) /\ j \in b .. Len(s)
        BY <1>1, <2>4, <4>1
      <4>3. pos[b] <= pos[j]
        BY <4>2, SelectionOrder
      <4> QED BY <1>1, <3>4, <3>8, <4>3
    <3>10. j + 1 \in b2 .. e2 /\ j + 1 \in 1 .. m
      BY <1>1, <3>5, <3>7
    <3>11. pos[j + 1] = f + 1
      <4>1. Remains(O, j + 1) /\ (j + 1) - 1 = j
        BY <3>5, <3>10 DEF Remains
      <4>2. pos[j + 1] = pos[(j + 1) - 1] + 1
        BY <1>1, <3>10, <4>1 DEF Selection
      <4> QED BY <3>4, <4>1, <4>2
    <3>12. j + 1 = b
      <4>1. SUFFICES ASSUME j + 1 < b PROVE FALSE
        BY <1>1, <3>9
      <4>2. j + 1 \in 0 .. Len(s) /\ b \in j + 1 .. Len(s)
        BY <1>1, <2>4, <4>1
      <4>3. b \in b .. e
        BY <2>4
      <4>4. pos[j + 1] < pos[b]
        BY <2>5, <4>1, <4>2, <4>3, SelectionOrder
      <4> QED BY <1>1, <3>8, <3>11, <4>4
    <3>13. Spans(s, b, c, e, b) /\ Spans(s, b2, c2, e2, b)
      <4>1. /\ b \in Nat \ {0} /\ c \in Nat /\ e \in Nat /\ b \in b .. e
            /\ b2 \in Nat \ {0} /\ c2 \in Nat /\ e2 \in Nat
        BY <1>1, <2>2, <2>4, <3>5
      <4> QED BY <2>2, <3>5, <3>10, <3>12, <4>1 DEF Spans
    <3>14. b = b2
      BY <3>13, BatchUnique
    <3> QED BY <1>1, <3>5, <3>9, <3>14
  <2>13. Batch(u, b + d, c + d, e + d)
    BY <1>1, <2>2, <2>8, <2>11, <2>12, BatchShift
  <2>14. b + d \in 1 .. n /\ c + d \in 1 .. n /\ e + d \in 1 .. n
    <3>1. b \in b .. e /\ e \in b .. e
      BY <1>1, <2>4
    <3> QED BY <2>4, <2>10, <3>1
  <2>15. b + d <= k /\ k <= e + d
    <3>1. k = i + d
      BY <2>1, <2>4, <2>9
    <3> QED BY <1>1, <2>2, <2>8, <3>1
  <2> QED BY <2>13, <2>14, <2>15
<1> QED BY <1>1, <1>4 DEF Batched

LEMMA SelectionNewest ==
    ASSUME NEW s \in Seq(Items), NEW O, Whole(s, O), NEW u, NEW pos, Selection(s, O, u, pos),
           NEW v, v # 0, Durable(v), NewestIs(s, v)
    PROVE  NewestIs(u, v)
<1>1. PICK m \in Nat, n \in Nat : m = Len(s) /\ n = Len(u)
  BY DEF Selection
<1>2. ASSUME NEW k \in 1 .. n, u[k].context # 0
      PROVE  \E i \in 1 .. m : pos[i] = k /\ u[k] = s[i]
  <2>1. PICK i \in 1 .. Len(s) : Remains(O, i) /\ pos[i] = k /\ u[k] = Remainder(s, O, i)
    BY <1>1, SelectionOnto
  <2>2. i \notin O
    BY <1>2, <2>1, NoticeType DEF Remainder
  <2> QED BY <1>1, <2>1, <2>2 DEF Remainder
<1>3. PICK i \in 1 .. m : s[i].context = v /\ \A j \in i + 1 .. m : s[j].context = 0
  BY <1>1 DEF NewestIs
<1>4. i \notin O
  BY <1>3 DEF Whole
<1>5. i - 1 \in 0 .. m /\ i \in 0 .. m /\ m \in i .. m
  BY <1>1
<1>6. pos[i] = pos[i - 1] + 1 /\ u[pos[i]] = s[i] /\ pos[i - 1] \in Nat
  BY <1>1, <1>4, <1>5 DEF Selection, Remains, Remainder
<1>7. pos[i] <= n
  <2>1. pos[i] <= pos[Len(s)]
    BY <1>1, <1>5, SelectionOrder
  <2> QED BY <1>1, <2>1 DEF Selection
<1>8. PICK p \in 1 .. n : p = pos[i]
  BY <1>1, <1>6, <1>7
<1>9. u[p].context = v
  BY <1>3, <1>6, <1>8
<1>10. ASSUME NEW k \in p + 1 .. n PROVE u[k].context = 0
  <2>1. SUFFICES ASSUME u[k].context # 0 PROVE FALSE
    OBVIOUS
  <2>2. k \in 1 .. n
    BY <1>1, <1>8
  <2>3. PICK j \in 1 .. m : pos[j] = k /\ u[k] = s[j]
    BY <1>2, <2>1, <2>2
  <2>4. i < j
    <3>1. SUFFICES ASSUME j <= i PROVE FALSE
      BY <1>1
    <3>2. j \in 0 .. Len(s) /\ i \in j .. Len(s)
      BY <1>1, <3>1
    <3>3. pos[j] <= pos[i]
      BY <3>2, SelectionOrder
    <3> QED BY <1>1, <1>8, <2>3, <3>3
  <2>5. j \in i + 1 .. m
    BY <1>1, <2>4
  <2> QED BY <1>3, <2>1, <2>3, <2>5
<1> QED BY <1>1, <1>8, <1>9, <1>10 DEF NewestIs

(* Shortening an item changes its size and forgets the version of a diff;  *)
(* a durable diff is not shortened.                                        *)
LEMMA Shortened ==
    ASSUME NEW s \in Seq(Items), Batched(s), NEW v
    PROVE  LET u == compactLargeItems(s)
           IN  /\ u \in Seq(Items) /\ Batched(u)
               /\ v # 0 /\ Durable(v) /\ NewestIs(s, v) => NewestIs(u, v)
<1>1. PICK m \in Nat : m = Len(s)
  OBVIOUS
<1>2. PICK u : u = compactLargeItems(s)
  OBVIOUS
<1>3. /\ DOMAIN u = 1 .. m
      /\ \A i \in 1 .. m : \/ u[i] = s[i]
                           \/ /\ u[i] = [s[i] EXCEPT !.size = 1, !.context = 0]
                              /\ s[i].size > LargeItem
  <2> DEFINE shortened(item) ==
               /\ item.size > LargeItem
               /\ \/ IsResult(item)
                  \/ IsOutput(item) /\ item.calls = <<>>
                  \/ item.kind = "input" /\ item.role = "developer" /\ item.context # 0
  <2>1. DOMAIN s = 1 .. m
    BY <1>1
  <2>2. u = [i \in 1 .. m |-> IF shortened(s[i]) THEN [s[i] EXCEPT !.size = 1, !.context = 0]
                              ELSE s[i]]
    BY <1>2, <2>1 DEF compactLargeItems
  <2>3. \A i \in 1 .. m : shortened(s[i]) => s[i].size > LargeItem
    OBVIOUS
  <2> HIDE DEF shortened
  <2> QED BY <2>2, <2>3
<1>4. ASSUME NEW i \in 1 .. m
      PROVE  /\ u[i] \in Items /\ u[i].kind = s[i].kind /\ u[i].calls = s[i].calls
             /\ s[i].context = 0 => u[i].context = 0
  <2>1. s[i] \in Items
    BY <1>1
  <2>2. 1 \in Nat /\ 0 \in 0 .. MaxContext
    BY SessionAssumption
  <2>3. PICK x : x = [s[i] EXCEPT !.size = 1, !.context = 0]
    OBVIOUS
  <2>4. x \in Records /\ x.kind = s[i].kind /\ x.calls = s[i].calls /\ x.context = 0
    BY <2>1, <2>2, <2>3 DEF Items, Records
  <2>5. x \in Items
    BY <2>4 DEF Items, Diff
  <2> QED BY <1>3, <2>1, <2>3, <2>4, <2>5
<1>5. u \in Seq(Items) /\ Len(u) = m
  <2>1. u = [i \in 1 .. m |-> u[i]]
    BY <1>2, <1>3 DEF compactLargeItems
  <2>2. u \in [1 .. m -> Items]
    BY <1>4, <2>1
  <2> QED BY <1>1, <2>2
<1>6. Batched(u)
  <2>1. ASSUME NEW i \in 1 .. m, Calling(u[i]) \/ IsResult(u[i])
        PROVE  \E b, c, e \in 1 .. m : b <= i /\ i <= e /\ Batch(u, b, c, e)
    <3>1. i \in 1 .. Len(s) /\ (Calling(s[i]) \/ IsResult(s[i]))
      BY <1>1, <1>4, <2>1 DEF Calling, IsOutput, IsResult
    <3>2. PICK b, c, e \in 1 .. Len(s) : b <= i /\ i <= e /\ Batch(s, b, c, e)
      BY <3>1 DEF Batched
    <3>3. Copied(s, u, b, e, 0)
      <4>1. \A l \in b .. e : l \in 1 .. m /\ l + 0 = l
        BY <1>1, <3>2
      <4> QED BY <1>4, <4>1 DEF Copied
    <3>4. Fresh(u, b + 0)
      <4>1. b = 1 \/ ~Calling(s[b - 1])
        BY <3>2 DEF Batch
      <4>2. b + 0 = b /\ (b # 1 => b - 1 \in 1 .. m)
        BY <1>1, <3>2
      <4> QED BY <1>4, <4>1, <4>2 DEF Fresh, Calling, IsOutput
    <3>5. Batch(u, b + 0, c + 0, e + 0)
      BY <3>2, <3>3, <3>4, BatchShift
    <3>6. b + 0 = b /\ c + 0 = c /\ e + 0 = e
      BY <1>1, <3>2
    <3> QED BY <1>1, <3>2, <3>5, <3>6
  <2> QED BY <1>5, <2>1 DEF Batched
<1>7. ASSUME v # 0, Durable(v), NewestIs(s, v) PROVE NewestIs(u, v)
  <2>1. PICK i \in 1 .. m : s[i].context = v /\ \A j \in i + 1 .. m : s[j].context = 0
    BY <1>1, <1>7 DEF NewestIs
  <2>2. s[i] \in Items /\ s[i].context # 0
    BY <1>1, <1>7, <2>1
  <2>3. s[i].role = "developer" /\ s[i].size = DiffSize[v]
    <3>1. Placed[v] = "developer"
      BY <1>7, <2>1, <2>2, DiffVersion DEF Durable
    <3> QED BY <2>1, <2>2, <3>1 DEF Items, Diff
  <2>4. DiffSize[v] <= LargeItem /\ DiffSize[v] \in Nat /\ LargeItem \in Nat
    BY <1>7, <2>1, <2>2, DiffVersion, BudgetAssumption DEF Durable
  <2>5. u[i].context = v
    <3>1. ~(s[i].size > LargeItem)
      BY <2>3, <2>4
    <3>2. u[i] = s[i]
      BY <1>3, <3>1
    <3> QED BY <2>1, <3>2
  <2>6. \A j \in i + 1 .. m : j \in 1 .. m
    BY <1>1
  <2> QED BY <1>4, <1>5, <2>1, <2>5, <2>6 DEF NewestIs
<1> QED BY <1>2, <1>5, <1>6, <1>7

(* Compaction keeps batches, and the newest context diff if it is a        *)
(* durable one.                                                            *)
LEMMA Compacted ==
    ASSUME NEW s \in Seq(Items), Batched(s), NEW t \in CompactTranscript(s), NEW v
    PROVE  t \in Seq(Items) /\ Batched(t) /\ (Kept(s, v) => Kept(t, v))
<1>1. PICK O : O = omittedIndices(s, transcriptGroups(s))
  OBVIOUS
<1>2. Whole(s, O)
  BY <1>1, Omitted DEF Whole
<1>3. PICK u : u = omitOldItems(s, O)
  OBVIOUS
<1>4. PICK pos : Selection(s, O, u, pos)
  BY <1>3, OmitSelects
<1>5. u \in Seq(Items)
  BY <1>4 DEF Selection
<1>6. Batched(u)
  BY <1>2, <1>4, SelectionBatched
<1>7. Kept(s, v) => Kept(u, v)
  BY <1>2, <1>4, SelectionNewest DEF Kept
<1>8. t = s \/ t = u \/ t = compactLargeItems(u)
  BY <1>1, <1>3 DEF CompactTranscript
<1>9. CASE t = compactLargeItems(u)
  <2>1. Kept(u, v) => Kept(t, v)
    BY <1>5, <1>6, <1>9, Shortened DEF Kept
  <2> QED BY <1>5, <1>6, <1>7, <1>9, <2>1, Shortened
<1> QED BY <1>5, <1>6, <1>7, <1>8, <1>9

LEMMA compactableTranscriptKeeps ==
    ASSUME Inv, NEW r \in Runs, compactableTranscript(r), quiet' \in BOOLEAN PROVE Inv'
<1>1. run[r] \in RunStates /\ RunOK(r, run[r], thread, executed) /\ run[r].pc = "compact"
  BY CurrentRun DEF compactableTranscript
<1>2. PICK t \in CompactTranscript(thread.items) :
        Local(r, IF t = thread.items \/ ~ValidateContinuity(thread.items)
                 THEN Finish(run[r], "ok")
                 ELSE [run[r] EXCEPT !.pc = "checkpoint", !.checkpoint = t])
  BY DEF compactableTranscript
<1>3. thread.items \in Seq(Items) /\ Batched(thread.items)
  BY DEF Inv, TypeInv, BatchInv, Threads
<1>4. t \in Seq(Items) /\ Batched(t)
  BY <1>2, <1>3, Compacted
<1>5. RunOK(r, Finish(run[r], "ok"), thread, executed)
  BY <1>1, DoneOK
<1>6. PICK h : h = [run[r] EXCEPT !.pc = "checkpoint", !.checkpoint = t]
  OBVIOUS
<1>7. "checkpoint" \in Places
  BY DEF Places
<1>8. h \in RunStates
  BY <1>1, <1>4, <1>6, <1>7 DEF RunStates
<1>9. /\ h.pc = "checkpoint" /\ h.checkpoint = t /\ h.sink = run[r].sink
      /\ h.reply = run[r].reply /\ h.records = run[r].records
      /\ h.rendered = run[r].rendered /\ h.pending = run[r].pending
      /\ h.committed = run[r].committed /\ h.step = run[r].step
      /\ h.results = run[r].results /\ h.local = run[r].local
      /\ h.batch = run[r].batch /\ h.effects = run[r].effects /\ h.result = run[r].result
  BY <1>1, <1>6 DEF RunStates
<1>10. Fitting(h, context)
  BY <1>1, <1>9 DEF RunOK, Fitting
<1>11. Shaped(h)
  BY <1>1, <1>4, <1>9 DEF RunOK, Shaped
<1>12. Counted(r, h, executed)
  BY <1>1, <1>9 DEF RunOK, Counted, Count, Storing
<1>13. Told(r, h, thread, executed)
  BY <1>1, <1>9 DEF RunOK, Told, Unstored
<1>14. RunOK(r, h, thread, executed)
  BY <1>8, <1>10, <1>11, <1>12, <1>13 DEF RunOK
<1>15. executed' = executed /\ context' = context
  BY DEF compactableTranscript
<1>16. CASE t = thread.items \/ ~ValidateContinuity(thread.items)
  BY <1>2, <1>5, <1>15, <1>16, LocalKeeps
<1>17. CASE ~(t = thread.items \/ ~ValidateContinuity(thread.items))
  BY <1>2, <1>6, <1>14, <1>15, <1>17, LocalKeeps
<1> QED BY <1>16, <1>17

LEMMA AppendCompactionKeeps ==
    ASSUME Inv, NEW r \in Runs, AppendCompaction(r), quiet' \in BOOLEAN PROVE Inv'
<1>1. run[r] \in RunStates /\ RunOK(r, run[r], thread, executed) /\ run[r].pc = "checkpoint"
  BY CurrentRun DEF AppendCompaction
<1>2. PICK done, stored : /\ done = Finish(run[r], "ok")
                          /\ stored = [thread EXCEPT !.items = run[r].checkpoint]
  OBVIOUS
<1>3. run[r].checkpoint \in Seq(Items) /\ Batched(run[r].checkpoint)
  BY <1>1 DEF RunOK, Shaped, RunStates
<1>4. /\ stored \in Threads /\ stored.items = run[r].checkpoint
      /\ stored.rendered = thread.rendered /\ stored.requested = thread.requested
      /\ stored.completed = thread.completed /\ stored.received = thread.received
      /\ stored.outbound = thread.outbound
  BY <1>2, <1>3 DEF Inv, TypeInv, Threads
<1>5. Stores(thread, stored, executed)
  BY <1>3, <1>4 DEF Stores, Inv, TypeInv, RecordInv
<1>6. RunOK(r, done, thread, executed)
  BY <1>1, <1>2, DoneOK
<1>7. RunOK(r, done, stored, executed)
  BY <1>1, <1>2, <1>4, DoneOK
<1>8. executed' = executed /\ context' = context
  BY DEF AppendCompaction
<1>9. CASE Local(r, done)
  BY <1>6, <1>8, <1>9, LocalKeeps
<1>10. CASE appendThreadRecords(r, stored, done, done)
  BY <1>5, <1>6, <1>7, <1>8, <1>10, AppendKeeps
<1> QED BY <1>2, <1>9, <1>10 DEF AppendCompaction

-----------------------------------------------------------------------------
(* The surroundings.                                                       *)

LEMMA CrashKeeps ==
    ASSUME Inv, Crash, quiet' \in BOOLEAN PROVE Inv'
<1>1. ASSUME NEW r \in Runs PROVE RunOK(r, run'[r], thread, executed)
  <2>1. run[r] \in RunStates /\ RunOK(r, run[r], thread, executed)
    BY CurrentRun
  <2>2. run'[r] = run[r] \/ run'[r] = Finish(run[r], "crashed")
    BY DEF Crash
  <2> QED BY <2>1, <2>2, FinishOK
<1>2. /\ thread' = thread /\ executed' = executed /\ context' = context
      /\ faults' \in 0 .. MaxFaults /\ DOMAIN run' = Runs
  BY SessionAssumption DEF Crash, Inv, TypeInv
<1>3. run' = [r \in Runs |-> run'[r]]
  BY DEF Crash
<1>4. run' \in [Runs -> RunStates]
  BY <1>1, <1>3 DEF RunOK
<1>5. TypeInv'
  BY <1>1, <1>2, <1>4 DEF Inv, TypeInv, RunOK
<1>6. RecordInv'
  BY <1>1, <1>2 DEF Inv, RecordInv, RunOK
<1>7. BatchInv'
  BY <1>1, <1>2 DEF Inv, BatchInv, RunOK
<1> QED BY <1>5, <1>6, <1>7 DEF Inv

LEMMA ChangeContextKeeps ==
    ASSUME Inv, ChangeContext, quiet' \in BOOLEAN PROVE Inv'
<1>1. /\ thread' = thread /\ executed' = executed /\ run' = run /\ faults' = faults
      /\ context' = context + 1 /\ context < MaxContext
  BY DEF ChangeContext
<1>2. context \in 1 .. MaxContext /\ MaxContext \in Nat
  BY SessionAssumption DEF Inv, TypeInv
<1>3. context' \in 1 .. MaxContext
  BY <1>1, <1>2
<1>4. ASSUME NEW v \in Int, v <= context PROVE v <= context'
  BY <1>1, <1>2, <1>4
<1>5. thread.rendered <= context'
  BY <1>2, <1>4 DEF Inv, TypeInv, Threads
<1>6. ASSUME NEW r \in Runs PROVE Fitting(run[r], context')
  <2>1. run[r] \in RunStates /\ RunOK(r, run[r], thread, executed)
    BY CurrentRun
  <2>2. run[r].records \in Int /\ run[r].rendered \in Int
    <3>1. run[r].records \in -1 .. MaxContext /\ run[r].rendered \in 0 .. MaxContext
      BY <2>1 DEF RunStates
    <3> QED BY <1>2, <3>1
  <2>3. run[r].records <= context /\ run[r].rendered <= context
    BY <2>1 DEF RunOK, Fitting
  <2>4. run[r].records <= context' /\ run[r].rendered <= context'
    BY <1>4, <2>2, <2>3
  <2> QED BY <2>1, <2>4 DEF RunOK, Fitting
<1>7. TypeInv'
  BY <1>1, <1>3, <1>5, <1>6 DEF Inv, TypeInv
<1>8. RecordInv' /\ BatchInv'
  BY <1>1 DEF Inv, RecordInv, BatchInv
<1> QED BY <1>7, <1>8 DEF Inv

LEMMA InitKeeps == Init => Inv
<1> SUFFICES ASSUME Init PROVE Inv
  OBVIOUS
<1>1. newRun \in RunStates
  BY NewRunType
<1>2. 0 \in 0 .. MaxContext /\ <<>> \in Seq(Items) /\ MaxContext \in Nat \ {0}
  BY SessionAssumption
<1>3. thread \in Threads
  BY <1>2 DEF Init, Threads
<1>4. /\ newRun.pc = "idle" /\ newRun.committed = 0 /\ newRun.pending = <<>>
      /\ newRun.records = -1 /\ newRun.rendered = 0 /\ newRun.sink = <<>> /\ newRun.local = <<>>
      /\ newRun.results = <<>> /\ newRun.batch = {} /\ newRun.result = "none"
      /\ newRun.effects = 0
  BY DEF newRun
<1>5. Fitting(newRun, 1)
  BY <1>4 DEF Fitting
<1>6. Shaped(newRun)
  BY <1>4, EmptyBatched DEF Shaped
<1>7. ASSUME NEW r \in Runs PROVE Counted(r, newRun, {}) /\ Told(r, newRun, thread, {})
  <2>1. Ops(r, {}) = {} /\ IsFiniteSet({})
    BY FS_EmptySet DEF Ops
  <2> QED BY <1>4, <2>1 DEF Counted, Told, Storing
<1>8. TypeInv
  <2>1. 0 \in 0 .. MaxFaults /\ 1 \in 1 .. MaxContext
    BY SessionAssumption
  <2> QED BY <1>1, <1>3, <1>5, <2>1 DEF Init, TypeInv
<1>9. RecordInv
  BY <1>7 DEF Init, RecordInv
<1>10. BatchInv
  BY <1>6, EmptyBatched DEF Init, BatchInv
<1> QED BY <1>8, <1>9, <1>10 DEF Inv

LEMMA TurnKeeps ==
    ASSUME Inv, NEW r \in Runs, Turn(r), quiet' \in BOOLEAN PROVE Inv'
  BY ReplayKeeps, PlanReactionsKeeps, RequestReactionKeeps, ExecuteReactionKeeps,
     CompleteReactionKeeps, RecordAppliedKeeps, materializeContextKeeps,
     transcriptForPendingKeeps, RespondKeeps, ModelFailsKeeps, commitContextRenderKeeps,
     RequestOperationKeeps, ExecuteOperationKeeps, RequestCheckKeeps, ExecuteCheckKeeps,
     CompleteCheckKeeps, FlushWithTranscriptItemsKeeps, StepLimitKeeps,
     evaluateContinuationKeeps, applyTerminalAgentDecisionKeeps,
     compactableTranscriptKeeps, AppendCompactionKeeps DEF Turn

LEMMA NextKeeps ==
    ASSUME Inv, Next PROVE Inv'
<1>1. quiet' \in BOOLEAN
  BY DEF Next, Quietly
<1>2. CASE \E r \in Runs : ReceiveInput(r)
  BY <1>1, <1>2, ReceiveInputKeeps
<1>3. CASE \E r \in Runs : Turn(r)
  BY <1>1, <1>3, TurnKeeps
<1>4. CASE Crash
  BY <1>1, <1>4, CrashKeeps
<1>5. CASE ChangeContext
  BY <1>1, <1>5, ChangeContextKeeps
<1> QED BY <1>2, <1>3, <1>4, <1>5 DEF Next

LEMMA StutterKeeps == Inv /\ UNCHANGED vars => Inv'
  BY DEF vars, Inv, TypeInv, RecordInv, BatchInv

-----------------------------------------------------------------------------
(* Theorems that hold whatever the runs meet.                              *)

(* The inductive invariant: of which type everything is, that calls and    *)
(* results of the thread come in batches, and what the thread knows of     *)
(* what its runs have done.                                                *)
THEOREM Invariance == Spec => []Inv
<1>1. Inv /\ [Next]_vars => Inv'
  BY NextKeeps, StutterKeeps
<1> QED BY InitKeeps, <1>1, PTL DEF Spec

(* The variables keep their types: the thread's records name runs, facts   *)
(* and calls that exist, a run's counters stay within max_steps and        *)
(* max_continuations, and it has committed no more than it has pending.    *)
THEOREM TypeCorrect == Spec => []TypeOK
<1>1. Inv => TypeOK
  <2> SUFFICES ASSUME Inv PROVE TypeOK
    OBVIOUS
  <2>1. context \in 1 .. MaxContext /\ MaxContext \in Nat
    BY SessionAssumption DEF Inv, TypeInv
  <2>2. thread.rendered \in 0 .. context
    <3>1. thread.rendered \in 0 .. MaxContext /\ thread.rendered <= context
      BY DEF Inv, TypeInv, Threads
    <3> QED BY <2>1, <3>1
  <2>3. /\ thread.applied \subseteq Facts
        /\ thread.requested \union thread.completed \union executed \subseteq Calls
        /\ thread.received \union thread.outbound \subseteq Runs
    BY DEF Inv, TypeInv, Threads
  <2>4. ASSUME NEW r \in Runs
        PROVE  /\ run[r].pc \in Places
               /\ run[r].step \in 0 .. MaxSteps
               /\ run[r].cont \in 0 .. MaxContinuations
               /\ run[r].committed \in 0 .. Len(run[r].pending)
               /\ run[r].records \in -1 .. context
               /\ run[r].result \in {"none", "ok", "failed", "crashed"}
    <3>1. run[r] \in RunStates /\ Fitting(run[r], context)
      BY CurrentRun DEF RunOK
    <3>2. PICK s, k, v : s = run[r].pending /\ k = run[r].committed /\ v = run[r].records
      OBVIOUS
    <3>3. s \in Seq(Items) /\ k \in Nat /\ v \in -1 .. MaxContext
      BY <3>1, <3>2 DEF RunStates
    <3>4. k <= Len(s) /\ v <= context
      BY <3>1, <3>2 DEF Fitting
    <3>5. k \in 0 .. Len(s) /\ v \in -1 .. context
      BY <2>1, <3>3, <3>4
    <3> QED BY <3>1, <3>2, <3>5 DEF RunStates
  <2> QED BY <2>1, <2>2, <2>3, <2>4 DEF TypeOK, Inv, TypeInv
<1> QED BY <1>1, Invariance, PTL

(* The thread tells what was done: an operation, a check or a reaction is  *)
(* requested on the thread before it is executed and completed on it only  *)
(* after, and a run that reports success has its input, its answer and     *)
(* every completion stored, although appends fail and runs overlap.        *)
THEOREM TruthTold == Spec => []ThreadTellsTruth
<1>1. Inv => ThreadTellsTruth
  <2> SUFFICES ASSUME Inv PROVE ThreadTellsTruth
    OBVIOUS
  <2>1. RequestedFirst
    BY DEF Inv, RecordInv, RequestedFirst
  <2>2. ASSUME NEW r \in Runs, run[r].result = "ok"
        PROVE  /\ r \in thread.received
               /\ run[r].reply.kind # "wait" => r \in thread.outbound
               /\ {call \in executed : call.run = r /\ ~IsReaction(call)} \subseteq thread.completed
    <3>1. Told(r, run[r], thread, executed) /\ Counted(r, run[r], executed) /\ run[r] \in RunStates
      BY CurrentRun DEF RunOK
    <3>2. run[r].pc = "done"
      BY <2>2, <3>1 DEF Told
    <3>3. run[r].batch = {}
      BY <3>1, <3>2 DEF Told
    <3>4. Ops(r, executed) \subseteq thread.completed
      BY <2>2, <3>1, <3>2, <3>3 DEF Told, Unstored
    <3> QED BY <2>2, <3>1, <3>2, <3>4 DEF Told, Ops
  <2> QED BY <2>1, <2>2 DEF ThreadTellsTruth, OutcomeRecorded
<1> QED BY <1>1, Invariance, PTL

(* Every projection of the thread is continuous, and every checkpoint that *)
(* compaction makes of it: ValidateContinuity refuses none, for every      *)
(* interleaving of the runs' appends, every answer of the model, and every *)
(* budget.                                                                 *)
THEOREM Continuity == Spec => []AlwaysContinuous
<1>1. Inv => AlwaysContinuous
  <2> SUFFICES ASSUME Inv PROVE AlwaysContinuous
    OBVIOUS
  <2>1. thread.items \in Seq(Items) /\ Batched(thread.items)
    BY DEF Inv, TypeInv, BatchInv, Threads
  <2>2. ValidateContinuity(thread.items)
    BY <2>1, BatchedContinuous, Validated
  <2>3. ASSUME NEW r \in Runs PROVE ValidateContinuity(Projected(r))
    <3>1. run[r] \in RunStates /\ Fitting(run[r], context) /\ Shaped(run[r])
      BY CurrentRun DEF RunOK
    <3>2. PICK s, k, new : s = run[r].pending /\ k = run[r].committed /\ new = newItems(run[r])
      OBVIOUS
    <3>3. s \in Seq(Items) /\ k \in Nat
      BY <3>1, <3>2 DEF RunStates
    <3>4. k <= Len(s)
      BY <3>1, <3>2 DEF Fitting
    <3>5. /\ new \in Seq(Items) /\ Len(new) = Len(s) - k
          /\ \A i \in 1 .. Len(new) : new[i] = s[k + i]
      BY <3>1, <3>2, <3>4, NewItems
    <3>6. \A i \in k + 1 .. Len(s) : s[i].kind = "input"
      BY <3>1, <3>2 DEF Shaped
    <3>7. ASSUME NEW i \in 1 .. Len(new) PROVE k + i \in k + 1 .. Len(s)
      BY <3>3, <3>5
    <3>8. Batched(new)
      BY <3>5, <3>6, <3>7, InputsBatched
    <3>9. Batched(thread.items \o new) /\ thread.items \o new \in Seq(Items)
      BY <2>1, <3>5, <3>8, BatchedConcat, ConcatProperties
    <3> QED BY <3>2, <3>9, BatchedContinuous, Validated DEF Projected
  <2>4. ASSUME NEW r \in Runs, run[r].pc = "checkpoint"
        PROVE  ValidateContinuity(run[r].checkpoint)
    <3>1. run[r].checkpoint \in Seq(Items) /\ Batched(run[r].checkpoint)
      BY <2>4, CurrentRun DEF RunOK, Shaped, RunStates
    <3> QED BY <3>1, BatchedContinuous, Validated
  <2> QED BY <2>2, <2>3, <2>4 DEF AlwaysContinuous, TranscriptValid, CompactionValid
<1> QED BY <1>1, Invariance, PTL

(* No two operations or checks of a thread are executed under one call     *)
(* identifier: the number a run gives the next one is above all it has     *)
(* used.                                                                   *)
THEOREM CallsExecutedOnce == Spec => ExecutedOnce
<1>1. ASSUME Inv, NEW r \in Runs
      PROVE  /\ run[r].pc = "execute" => operationCall(r) \notin executed
             /\ run[r].pc = "check execute" => checkCall(r) \notin executed
  <2>1. run[r] \in RunStates /\ Counted(r, run[r], executed)
    BY <1>1, CurrentRun DEF RunOK
  <2>2. CASE run[r].pc = "execute"
    <3>1. PICK e, k : e = run[r].effects /\ k = Cardinality(run[r].batch)
      OBVIOUS
    <3>2. /\ e \in Nat /\ k \in Nat /\ ~IsReaction(operationCall(r))
          /\ operationCall(r).run = r /\ operationCall(r).n = e + k + 1
      BY <1>1, <2>2, <3>1, BatchNumber
    <3>3. Count(run[r]) = e + k
      BY <2>2, <3>1 DEF Count
    <3>4. \A call \in Ops(r, executed) : call.n <= e + k
      BY <2>1, <2>2, <3>3 DEF Counted
    <3>5. ~(e + k + 1 <= e + k)
      BY <3>2
    <3> QED BY <2>2, <3>2, <3>4, <3>5 DEF Ops
  <2>3. CASE run[r].pc = "check execute"
    <3>1. PICK e : e = run[r].effects
      OBVIOUS
    <3>2. /\ e \in Nat /\ ~IsReaction(checkCall(r)) /\ checkCall(r).run = r
          /\ checkCall(r).n = e + 1
      BY <1>1, <2>3, <3>1, BatchNumber
    <3>3. Count(run[r]) = e
      BY <2>3, <3>1, <3>2, CountAtRest DEF AtRest
    <3>4. \A call \in Ops(r, executed) : call.n <= e
      BY <2>1, <2>3, <3>3 DEF Counted
    <3>5. ~(e + 1 <= e)
      BY <3>2
    <3> QED BY <2>3, <3>2, <3>4, <3>5 DEF Ops
  <2> QED BY <2>2, <2>3
<1>2. Inv /\ [Next]_vars =>
        [\A r \in Runs :
           /\ run[r].pc = "execute" /\ run'[r].pc \in {"request", "check request", "flush"}
                => operationCall(r) \notin executed
           /\ run[r].pc = "check execute" /\ run'[r].pc = "check complete"
                => checkCall(r) \notin executed]_vars
  BY <1>1
<1> QED BY <1>2, Invariance, PTL DEF Spec, ExecutedOnce

-----------------------------------------------------------------------------
(* While runs follow one another and nothing fails: the steps of a run.    *)

LEMMA Calm ==
    ASSUME Alone, Alone', NEW r \in Runs, NEW stored, NEW then, NEW otherwise,
           appendThreadRecords(r, stored, then, otherwise)
    PROVE  thread' = stored /\ run' = [run EXCEPT ![r] = then]
<1>1. faults = 0 /\ faults' = 0
  BY DEF Alone
<1>2. ~(faults' = faults + 1)
  BY <1>1
<1> QED BY <1>2 DEF appendThreadRecords, Move

LEMMA NoFailure ==
    ASSUME Inv, Alone', NEW r \in Runs, NEW here,
           run' = [run EXCEPT ![r] = Finish(here, "failed")]
    PROVE  FALSE
<1>1. Finish(here, "failed").result = "failed"
  BY DEF Finish, newRun
<1>2. run'[r] = Finish(here, "failed")
  BY DEF Inv, TypeInv
<1> QED BY <1>1, <1>2 DEF Alone

(* What a step of run r leaves to show.                                    *)
LEMMA QuietStep ==
    ASSUME Inv, Orderly, Alone', NEW r \in Runs, NEW here, run' = [run EXCEPT ![r] = here],
           here.pc # "idle", r \in Active \/ here.pc # "done", ReactInv',
           here.pc # "done" => Rendered(here, thread'),
           here.pc = "done" => Kept(thread'.items, thread'.rendered)
    PROVE  Orderly'
<1>1. run \in [Runs -> RunStates]
  BY DEF Inv, TypeInv
<1>2. \A s \in Runs : run'[s] = IF s = r THEN here ELSE run[s]
  BY <1>1
<1>3. Unbegun'
  BY <1>2 DEF Orderly, Unbegun
<1>4. ContextInv'
  <2>1. CASE here.pc # "done"
    <3>1. r \in Active'
      BY <1>2, <2>1 DEF Active
    <3>2. \A s \in Active' : s = r
      BY <3>1 DEF Alone
    <3> QED BY <1>2, <2>1, <3>1, <3>2 DEF ContextInv
  <2>2. CASE here.pc = "done"
    <3>1. \A s \in Active : s = r
      BY <2>2 DEF Orderly, Alone
    <3>2. Active' = {}
      BY <1>2, <2>2, <3>1 DEF Active
    <3> QED BY <2>2, <3>2 DEF ContextInv
  <2> QED BY <2>1, <2>2
<1> QED BY <1>3, <1>4 DEF Orderly

(* A step that neither begins nor ends a reaction.                         *)
LEMMA ReactKept ==
    ASSUME Inv, Orderly, Alone', NEW r \in Runs, NEW here, run' = [run EXCEPT ![r] = here],
           r \in Active, run[r].pc \notin {"replay"} \union Reactions,
           here.pc \notin {"idle", "replay"} \union Reactions,
           here.pc # "done" => here.keys = run[r].keys,
           thread'.applied = thread.applied,
           \/ executed' = executed
           \/ \E call : ~IsReaction(call) /\ executed' = executed \union {call}
    PROVE  ReactInv'
<1>1. run \in [Runs -> RunStates] /\ executed \subseteq Calls
  BY DEF Inv, TypeInv
<1>2. \A s \in Runs : run'[s] = IF s = r THEN here ELSE run[s]
  BY <1>1
<1>3. \A call \in executed' : IsReaction(call) => call \in executed
  OBVIOUS
<1>4. ASSUME NEW call \in executed', IsReaction(call)
      PROVE  \/ call.fact \in thread'.applied
             \/ /\ run'[call.run].pc \in {"react complete", "react applied"}
                /\ run'[call.run].fact = call.fact
  <2>1. call \in executed /\ call.run \in Runs
    BY <1>1, <1>3, <1>4 DEF Calls
  <2>2. CASE call.fact \in thread.applied
    BY <2>2
  <2>3. CASE /\ run[call.run].pc \in {"react complete", "react applied"}
             /\ run[call.run].fact = call.fact
    <3>1. call.run # r
      BY <2>3 DEF Reactions
    <3> QED BY <1>2, <2>1, <2>3, <3>1
  <2> QED BY <1>4, <2>1, <2>2, <2>3 DEF Orderly, ReactInv
<1>5. ASSUME NEW c \in executed', NEW d \in executed', IsReaction(c), c.fact = d.fact
      PROVE  c = d
  <2>1. IsReaction(d)
    BY <1>5 DEF IsReaction
  <2>2. c \in executed /\ d \in executed
    BY <1>3, <1>5, <2>1
  <2> QED BY <1>5, <2>2 DEF Orderly, ReactInv
<1>6. ASSUME NEW s \in Active' PROVE Reacting(s, run'[s], thread', executed')
  <2>1. CASE s = r
    <3>1. here.pc # "done" /\ here.keys = run[r].keys
      BY <1>2, <2>1 DEF Active
    <3>2. Reacting(r, run[r], thread, executed)
      BY DEF Orderly, ReactInv
    <3>3. thread.applied \subseteq run[r].keys
      BY <3>2 DEF Reacting
    <3> QED BY <1>2, <2>1, <3>1, <3>3 DEF Reacting, Reactions
  <2>2. CASE s # r
    <3>1. s \in Active
      BY <1>2, <2>2 DEF Active
    <3> QED BY <2>2, <3>1 DEF Orderly, Alone
  <2> QED BY <2>1, <2>2
<1> QED BY <1>4, <1>5, <1>6 DEF ReactInv

(* The context records and the transcript as a run moves on.               *)
Late == {"evaluate", "terminal", "compact"}
Carries(old, new) ==
    /\ new.records = old.records /\ new.rendered = old.rendered
    /\ new.pending = old.pending /\ new.committed = old.committed /\ new.sink = old.sink

LEMMA RenderedMove ==
    ASSUME NEW old, NEW new, NEW th, NEW th2, Rendered(old, th), Carries(old, new),
           th2.items = th.items, th2.rendered = th.rendered,
           \/ old.pc \in Loose /\ new.pc \in Loose
           \/ old.pc \in Storing /\ new.pc \in Storing
           \/ old.pc \in Loose \union Late /\ new.pc \in Late
           \/ old.pc = "project" /\ new.pc = "model"
    PROVE  Rendered(new, th2)
<1>1. newItems(new) = newItems(old)
  BY DEF Carries, newItems
<1>2. CASE old.pc \in Loose /\ new.pc \in Loose
  BY <1>2 DEF Rendered, Carries, Loose, Storing
<1>3. CASE old.pc \in Storing /\ new.pc \in Storing
  BY <1>3 DEF Rendered, Carries, Loose, Storing
<1>4. CASE old.pc \in Loose \union Late /\ new.pc \in Late
  BY <1>4 DEF Rendered, Carries, Loose, Storing, Late
<1>5. CASE old.pc = "project" /\ new.pc = "model"
  BY <1>1, <1>5 DEF Rendered, Carries, Loose, Storing
<1> QED BY <1>2, <1>3, <1>4, <1>5

(* Items without a context diff do not change which diff is the newest.    *)
LEMMA NewestBehind ==
    ASSUME NEW s \in Seq(Items), NEW t \in Seq(Items), NEW v, NewestIs(s, v),
           \A i \in 1 .. Len(t) : t[i].context = 0
    PROVE  NewestIs(s \o t, v)
<1>1. PICK n \in Nat, m \in Nat : n = Len(s) /\ m = Len(t)
  OBVIOUS
<1>2. PICK u : u = s \o t
  OBVIOUS
<1>3. /\ Len(u) = n + m
      /\ \A i \in 1 .. n + m : u[i] = IF i <= n THEN s[i] ELSE t[i - n]
  BY <1>1, <1>2, ConcatProperties
<1>4. ASSUME NEW i \in 1 .. n + m, i > n PROVE u[i].context = 0
  <2>1. i - n \in 1 .. m /\ ~(i <= n)
    BY <1>1, <1>4
  <2> QED BY <1>1, <1>3, <2>1
<1>5. \A i \in 1 .. n : u[i] = s[i] /\ i \in 1 .. n + m
  BY <1>1, <1>3
<1>6. PICK i \in 1 .. n : s[i].context = v /\ \A j \in i + 1 .. n : s[j].context = 0
  BY <1>1 DEF NewestIs
<1>7. u[i].context = v /\ i \in 1 .. n + m
  BY <1>5, <1>6
<1>8. ASSUME NEW j \in i + 1 .. n + m PROVE u[j].context = 0
  <2>1. j \in 1 .. n + m /\ (j > n \/ (j \in i + 1 .. n /\ j \in 1 .. n))
    BY <1>1
  <2> QED BY <1>4, <1>5, <1>6, <2>1
<1> QED BY <1>2, <1>3, <1>7, <1>8 DEF NewestIs

LEMMA KeptBehind ==
    ASSUME NEW s \in Seq(Items), NEW t \in Seq(Items), NEW v, Kept(s, v),
           \A i \in 1 .. Len(t) : t[i].context = 0
    PROVE  Kept(s \o t, v)
  BY NewestBehind DEF Kept

(* The newest diff of what is appended becomes the newest.                 *)
LEMMA NewestAmong ==
    ASSUME NEW s \in Seq(Items), NEW t \in Seq(Items), NEW v, NEW p \in 1 .. Len(t),
           t[p].context = v, \A i \in p + 1 .. Len(t) : t[i].context = 0
    PROVE  NewestIs(s \o t, v)
<1>1. PICK n \in Nat, m \in Nat : n = Len(s) /\ m = Len(t)
  OBVIOUS
<1>2. PICK u : u = s \o t
  OBVIOUS
<1>3. /\ Len(u) = n + m
      /\ \A i \in 1 .. n + m : u[i] = IF i <= n THEN s[i] ELSE t[i - n]
  BY <1>1, <1>2, ConcatProperties
<1>4. n + p \in 1 .. n + m /\ ~(n + p <= n) /\ (n + p) - n = p
  BY <1>1
<1>5. u[n + p].context = v
  BY <1>3, <1>4
<1>6. ASSUME NEW j \in (n + p) + 1 .. n + m PROVE u[j].context = 0
  <2>1. j \in 1 .. n + m /\ ~(j <= n) /\ j - n \in p + 1 .. m
    BY <1>1
  <2> QED BY <1>1, <1>3, <2>1
<1> QED BY <1>2, <1>3, <1>4, <1>5, <1>6 DEF NewestIs

LEMMA BusyRun ==
    ASSUME Inv, Orderly, NEW r \in Runs, run[r].pc \notin {"idle", "done"}
    PROVE  /\ r \in Active /\ run[r] \in RunStates /\ thread \in Threads
           /\ thread.items \in Seq(Items)
           /\ Rendered(run[r], thread) /\ Reacting(r, run[r], thread, executed)
           /\ Fitting(run[r], context) /\ Shaped(run[r])
<1>1. r \in Active
  BY DEF Active
<1>2. run[r] \in RunStates /\ thread \in Threads /\ Fitting(run[r], context) /\ Shaped(run[r])
  BY CurrentRun DEF RunOK
<1>3. thread.items \in Seq(Items)
  BY <1>2 DEF Threads
<1> QED BY <1>1, <1>2, <1>3 DEF Orderly, ContextInv, ReactInv

(* A step that only moves the run on.                                      *)
LEMMA QuietMove ==
    ASSUME Inv, Orderly, Alone', NEW r \in Runs, NEW here, run' = [run EXCEPT ![r] = here],
           run[r].pc \notin {"idle", "done", "replay"} \union Reactions,
           here.pc \notin {"idle", "done", "replay"} \union Reactions,
           here.keys = run[r].keys, Carries(run[r], here),
           thread'.items = thread.items, thread'.rendered = thread.rendered,
           thread'.applied = thread.applied,
           \/ executed' = executed
           \/ \E call : ~IsReaction(call) /\ executed' = executed \union {call},
           \/ run[r].pc \in Storing /\ here.pc \in Storing
           \/ run[r].pc \in Loose \union Late /\ here.pc \in Late
           \/ run[r].pc = "project" /\ here.pc = "model"
    PROVE  Orderly'
<1>1. r \in Active /\ Rendered(run[r], thread)
  BY BusyRun
<1>2. ReactInv'
  BY <1>1, ReactKept
<1>3. Rendered(here, thread')
  BY <1>1, RenderedMove
<1> QED BY <1>1, <1>2, <1>3, QuietStep

LEMMA GotoCarries ==
    ASSUME NEW here \in RunStates, NEW pc
    PROVE  /\ Goto(here, pc).pc = pc /\ Goto(here, pc).keys = here.keys
           /\ Goto(here, pc).fact = here.fact /\ Carries(here, Goto(here, pc))
  BY DEF Goto, RunStates, Carries

LEMMA transcriptForPendingQuiet ==
    ASSUME Inv, Orderly, Alone', NEW r \in Runs, transcriptForPending(r) PROVE Orderly'
<1>1. run[r].pc = "project" /\ run[r] \in RunStates
  BY CurrentRun DEF transcriptForPending
<1>2. PICK h : h = Goto(run[r], "model")
  OBVIOUS
<1>3. h.pc = "model" /\ h.keys = run[r].keys /\ Carries(run[r], h)
  BY <1>1, <1>2, GotoCarries
<1>4. run' = [run EXCEPT ![r] = h]
  BY <1>2, NoFailure DEF transcriptForPending, Local, Move
<1>5. thread' = thread /\ executed' = executed
  BY DEF transcriptForPending, Local
<1> QED BY <1>1, <1>3, <1>4, <1>5, QuietMove DEF Reactions

LEMMA ModelFailsQuiet ==
    ASSUME Inv, Orderly, Alone', NEW r \in Runs, ModelFails(r) PROVE Orderly'
  BY NoFailure DEF ModelFails, Local, Move

LEMMA RequestOperationQuiet ==
    ASSUME Inv, Orderly, Alone', NEW r \in Runs, RequestOperation(r) PROVE Orderly'
<1>1. run[r].pc = "request" /\ run[r] \in RunStates /\ thread \in Threads
  BY CurrentRun DEF RequestOperation
<1>2. PICK h, th : /\ h = Goto(run[r], "execute")
                   /\ th = [thread EXCEPT !.requested = @ \union {operationCall(r)}]
  OBVIOUS
<1>3. h.pc = "execute" /\ h.keys = run[r].keys /\ Carries(run[r], h)
  BY <1>1, <1>2, GotoCarries
<1>4. run' = [run EXCEPT ![r] = h] /\ thread' = th
  BY <1>2, Calm DEF RequestOperation, Orderly
<1>5. th.items = thread.items /\ th.rendered = thread.rendered /\ th.applied = thread.applied
  BY <1>1, <1>2 DEF Threads
<1>6. executed' = executed
  BY DEF RequestOperation
<1> QED BY <1>1, <1>3, <1>4, <1>5, <1>6, QuietMove DEF Reactions, Storing

LEMMA ExecuteOperationQuiet ==
    ASSUME Inv, Orderly, Alone', NEW r \in Runs, ExecuteOperation(r) PROVE Orderly'
<1>1. run[r].pc = "execute" /\ run[r] \in RunStates
  BY CurrentRun DEF ExecuteOperation
<1>2. PICK batch, results, here :
        /\ here = [run[r] EXCEPT !.batch = batch, !.results = results]
        /\ \/ run' = [run EXCEPT ![r] = Goto(here, "request")]
           \/ \E effects, pc : /\ pc \in {"check request", "flush"}
                               /\ run' = [run EXCEPT ![r] = Goto([here EXCEPT !.effects = effects], pc)]
  <2> DEFINE now(size) ==
               [run[r] EXCEPT !.batch = @ \union {operationCall(r)},
                              !.results = IF request(run[r]) = NoCall THEN @
                                ELSE Append(@, operationResultTranscriptItem(r, request(run[r]), size))]
             after(here) == [here EXCEPT !.effects = @ + Cardinality(here.batch)]
             next(here) ==
               IF Cardinality(here.batch) < Len(here.reply.requests) THEN Goto(here, "request")
               ELSE Goto(after(here), IF Range(here.reply.requests) \intersect Edits # {}
                                      THEN "check request" ELSE "flush")
  <2>1. \E size \in ResultSizes : run' = [run EXCEPT ![r] = next(now(size))]
    BY DEF ExecuteOperation, Local, Move
  <2>2. ASSUME NEW here
        PROVE  \/ next(here) = Goto(here, "request")
               \/ \E effects, pc : /\ pc \in {"check request", "flush"}
                                   /\ next(here) = Goto([here EXCEPT !.effects = effects], pc)
    <3>1. PICK effects : effects = here.effects + Cardinality(here.batch)
      OBVIOUS
    <3>2. after(here) = [here EXCEPT !.effects = effects]
      BY <3>1
    <3> HIDE DEF after
    <3> QED BY <3>2
  <2>3. ASSUME NEW size
        PROVE  \E batch, results : now(size) = [run[r] EXCEPT !.batch = batch, !.results = results]
    <3>1. PICK batch, results :
            /\ batch = run[r].batch \union {operationCall(r)}
            /\ results = IF request(run[r]) = NoCall THEN run[r].results
                         ELSE Append(run[r].results,
                                     operationResultTranscriptItem(r, request(run[r]), size))
      OBVIOUS
    <3> QED BY <1>1, <3>1 DEF RunStates
  <2> HIDE DEF now, next
  <2>4. PICK size : run' = [run EXCEPT ![r] = next(now(size))]
    BY <2>1
  <2>5. PICK here : here = now(size)
    OBVIOUS
  <2>6. PICK batch, results : here = [run[r] EXCEPT !.batch = batch, !.results = results]
    BY <2>3, <2>5
  <2>7. \/ next(here) = Goto(here, "request")
        \/ \E effects, pc : /\ pc \in {"check request", "flush"}
                            /\ next(here) = Goto([here EXCEPT !.effects = effects], pc)
    BY <2>2
  <2>8. run' = [run EXCEPT ![r] = next(here)]
    BY <2>4, <2>5
  <2> QED BY <2>6, <2>7, <2>8
<1>3. PICK h : /\ run' = [run EXCEPT ![r] = h]
               /\ h.pc \in {"request", "check request", "flush"}
               /\ h.keys = run[r].keys /\ Carries(run[r], h)
  <2>1. CASE run' = [run EXCEPT ![r] = Goto(here, "request")]
    <3>1. PICK h : h = Goto(here, "request")
      OBVIOUS
    <3>2. h.pc = "request" /\ h.keys = run[r].keys /\ Carries(run[r], h)
      BY <1>1, <1>2, <3>1 DEF Goto, RunStates, Carries
    <3> QED BY <2>1, <3>1, <3>2
  <2>2. CASE \E effects, pc : /\ pc \in {"check request", "flush"}
                              /\ run' = [run EXCEPT ![r] = Goto([here EXCEPT !.effects = effects], pc)]
    <3>1. PICK effects, pc : /\ pc \in {"check request", "flush"}
                             /\ run' = [run EXCEPT ![r] = Goto([here EXCEPT !.effects = effects], pc)]
      BY <2>2
    <3>2. PICK h : h = Goto([here EXCEPT !.effects = effects], pc)
      OBVIOUS
    <3>3. h.pc = pc /\ h.keys = run[r].keys /\ Carries(run[r], h)
      BY <1>1, <1>2, <3>2 DEF Goto, RunStates, Carries
    <3> QED BY <3>1, <3>2, <3>3
  <2> QED BY <1>2, <2>1, <2>2
<1>4. thread' = thread /\ executed' = executed \union {operationCall(r)}
  BY DEF ExecuteOperation, Local
<1>5. ~IsReaction(operationCall(r))
  BY <1>1, BatchNumber
<1> QED BY <1>1, <1>3, <1>4, <1>5, QuietMove DEF Reactions, Storing

LEMMA RequestCheckQuiet ==
    ASSUME Inv, Orderly, Alone', NEW r \in Runs, RequestCheck(r) PROVE Orderly'
<1>1. run[r].pc = "check request" /\ run[r] \in RunStates /\ thread \in Threads
  BY CurrentRun DEF RequestCheck
<1>2. PICK h, th : /\ h = Goto(run[r], "check execute")
                   /\ th = [thread EXCEPT !.requested = @ \union {checkCall(r)}]
  OBVIOUS
<1>3. h.pc = "check execute" /\ h.keys = run[r].keys /\ Carries(run[r], h)
  BY <1>1, <1>2, GotoCarries
<1>4. run' = [run EXCEPT ![r] = h] /\ thread' = th
  BY <1>2, Calm DEF RequestCheck, Orderly
<1>5. th.items = thread.items /\ th.rendered = thread.rendered /\ th.applied = thread.applied
  BY <1>1, <1>2 DEF Threads
<1>6. executed' = executed
  BY DEF RequestCheck
<1> QED BY <1>1, <1>3, <1>4, <1>5, <1>6, QuietMove DEF Reactions, Storing

LEMMA ExecuteCheckQuiet ==
    ASSUME Inv, Orderly, Alone', NEW r \in Runs, ExecuteCheck(r) PROVE Orderly'
<1>1. run[r].pc = "check execute" /\ run[r] \in RunStates
  BY CurrentRun DEF ExecuteCheck
<1>2. PICK h : h = Goto(run[r], "check complete")
  OBVIOUS
<1>3. h.pc = "check complete" /\ h.keys = run[r].keys /\ Carries(run[r], h)
  BY <1>1, <1>2, GotoCarries
<1>4. run' = [run EXCEPT ![r] = h] /\ thread' = thread /\ executed' = executed \union {checkCall(r)}
  BY <1>2 DEF ExecuteCheck, Local, Move
<1>5. ~IsReaction(checkCall(r))
  BY <1>1, BatchNumber
<1> QED BY <1>1, <1>3, <1>4, <1>5, QuietMove DEF Reactions, Storing

LEMMA CompleteCheckQuiet ==
    ASSUME Inv, Orderly, Alone', NEW r \in Runs, CompleteCheck(r) PROVE Orderly'
<1>1. run[r].pc = "check complete" /\ run[r] \in RunStates /\ thread \in Threads
  BY CurrentRun DEF CompleteCheck
<1>2. PICK h, th : /\ h = [run[r] EXCEPT !.pc = "flush", !.effects = @ + 1]
                   /\ th = [thread EXCEPT !.completed = @ \union {checkCall(r)}]
  OBVIOUS
<1>3. h.pc = "flush" /\ h.keys = run[r].keys /\ Carries(run[r], h)
  BY <1>1, <1>2 DEF RunStates, Carries
<1>4. run' = [run EXCEPT ![r] = h] /\ thread' = th
  BY <1>2, Calm DEF CompleteCheck, Orderly
<1>5. th.items = thread.items /\ th.rendered = thread.rendered /\ th.applied = thread.applied
  BY <1>1, <1>2 DEF Threads
<1>6. executed' = executed
  BY DEF CompleteCheck
<1> QED BY <1>1, <1>3, <1>4, <1>5, <1>6, QuietMove DEF Reactions, Storing

LEMMA StepLimitQuiet ==
    ASSUME Inv, Orderly, Alone', NEW r \in Runs, StepLimit(r) PROVE Orderly'
<1>1. run[r].pc = "step" /\ run[r] \in RunStates
  BY CurrentRun DEF StepLimit
<1>2. PICK h : h = Goto(run[r], "evaluate")
  OBVIOUS
<1>3. h.pc = "evaluate" /\ h.keys = run[r].keys /\ Carries(run[r], h)
  BY <1>1, <1>2, GotoCarries
<1>4. r \in Goals
  <2>1. SUFFICES ASSUME r \notin Goals PROVE FALSE
    OBVIOUS
  <2>2. run' = [run EXCEPT ![r] = Finish(run[r], "failed")]
    BY <2>1 DEF StepLimit, appendThreadRecords, Move
  <2> QED BY <2>2, NoFailure
<1>5. run' = [run EXCEPT ![r] = h] /\ thread' = thread /\ executed' = executed
  BY <1>2, <1>4 DEF StepLimit, Local, Move
<1> QED BY <1>1, <1>3, <1>5, QuietMove DEF Reactions, Loose, Late

LEMMA applyTerminalAgentDecisionQuiet ==
    ASSUME Inv, Orderly, Alone', NEW r \in Runs, applyTerminalAgentDecision(r) PROVE Orderly'
<1>1. run[r].pc = "terminal" /\ run[r] \in RunStates /\ thread \in Threads
  BY CurrentRun DEF applyTerminalAgentDecision
<1>2. PICK h, th : /\ h = Goto(run[r], "compact")
                   /\ th = [thread EXCEPT !.outbound = @ \union {r}]
  OBVIOUS
<1>3. h.pc = "compact" /\ h.keys = run[r].keys /\ Carries(run[r], h)
  BY <1>1, <1>2, GotoCarries
<1>4. th.items = thread.items /\ th.rendered = thread.rendered /\ th.applied = thread.applied
  BY <1>1, <1>2 DEF Threads
<1>5. run' = [run EXCEPT ![r] = h] /\ thread' \in {thread, th}
  <2>1. CASE Local(r, h)
    BY <2>1 DEF Local, Move
  <2>2. CASE appendThreadRecords(r, th, h, Finish(run[r], "failed"))
    BY <2>2, Calm DEF Orderly
  <2> QED BY <1>2, <2>1, <2>2 DEF applyTerminalAgentDecision
<1>6. executed' = executed
  BY DEF applyTerminalAgentDecision
<1>7. thread'.items = thread.items /\ thread'.rendered = thread.rendered
      /\ thread'.applied = thread.applied
  BY <1>4, <1>5
<1> QED BY <1>1, <1>3, <1>5, <1>6, <1>7, QuietMove DEF Reactions, Loose, Late

LEMMA materializeContextQuiet ==
    ASSUME Inv, Inv', Orderly, Alone', NEW r \in Runs, materializeContext(r) PROVE Orderly'
<1>1. /\ run[r].pc = "step" /\ run[r] \in RunStates /\ r \in Active /\ Rendered(run[r], thread)
      /\ thread.items \in Seq(Items)
  BY BusyRun DEF materializeContext
<1>2. PICK next, k, now : /\ next = contextPendingItems(r) /\ k = run[r].committed
                          /\ now = contextRenderRecords(r)
  OBVIOUS
<1>3. PICK h : h = [run[r] EXCEPT !.pc = "project", !.records = now, !.rendered = context,
                                  !.pending = next]
  OBVIOUS
<1>4. run' = [run EXCEPT ![r] = h] /\ thread' = thread /\ executed' = executed
  BY <1>2, <1>3 DEF materializeContext, Local, Move
<1>5. /\ h.pc = "project" /\ h.records = now /\ h.rendered = context /\ h.pending = next
      /\ h.committed = k /\ h.sink = run[r].sink /\ h.keys = run[r].keys
  BY <1>1, <1>2, <1>3 DEF RunStates
<1>6. h \in RunStates
  <2>1. run' \in [Runs -> RunStates] /\ run \in [Runs -> RunStates]
    BY DEF Inv, TypeInv
  <2> QED BY <1>4, <2>1
<1>7. now = thread.rendered
  BY <1>1, <1>2 DEF Rendered, contextRenderRecords
<1>8. context # 0
  BY SessionAssumption DEF Inv, TypeInv
<1>9. PICK s : s = run[r].pending
  OBVIOUS
<1>10. s \in Seq(Items) /\ k \in Nat /\ \A i \in k + 1 .. Len(s) : s[i].context = 0
  BY <1>1, <1>2, <1>9 DEF RunStates, Rendered, Loose
<1>11. /\ next \in Seq(Items) /\ k <= Len(next)
       /\ now = context => next = s
       /\ now # context =>
            \E p \in k + 1 .. Len(next) :
              /\ next[p].context = context
              /\ \A i \in p + 1 .. Len(next) : \E j \in k + 1 .. Len(s) : next[i] = s[j]
  BY <1>2, <1>9, ContextPending
<1>12. PICK new : new = newItems(h)
  OBVIOUS
<1>13. /\ new \in Seq(Items) /\ Len(new) = Len(next) - k
       /\ \A i \in 1 .. Len(new) : new[i] = next[k + i]
  BY <1>5, <1>6, <1>11, <1>12, NewItems
<1>14. Kept(thread.items, thread.rendered)
  BY <1>1 DEF Rendered, Storing
<1>15. \/ NewestIs(thread.items \o new, context)
       \/ now = context /\ ~Durable(context)
  <2>1. CASE now = context /\ Durable(context)
    <3>1. NewestIs(thread.items, context)
      BY <1>7, <1>8, <1>14, <2>1 DEF Kept
    <3>2. ASSUME NEW i \in 1 .. Len(new) PROVE new[i].context = 0
      <4>1. k + i \in k + 1 .. Len(s)
        BY <1>10, <1>11, <1>13, <2>1
      <4> QED BY <1>10, <1>11, <1>13, <2>1, <4>1
    <3> QED BY <1>1, <1>13, <3>1, <3>2, NewestBehind
  <2>2. CASE now # context
    <3>1. PICK n \in Nat, m \in Nat : n = Len(next) /\ m = Len(new)
      <4>1. next \in Seq(Items) /\ new \in Seq(Items)
        BY <1>11, <1>13
      <4> QED BY ONLY <4>1
    <3>2. PICK p \in k + 1 .. n :
            /\ next[p].context = context
            /\ \A i \in p + 1 .. n : \E j \in k + 1 .. Len(s) : next[i] = s[j]
      BY <1>11, <2>2, <3>1
    <3>3. PICK q \in 1 .. m : k + q = p
      <4>1. p - k \in 1 .. m /\ k + (p - k) = p
        BY <1>10, <1>13, <3>1, <3>2
      <4> QED BY <4>1
    <3>4. new[q].context = context
      BY <1>13, <3>1, <3>2, <3>3
    <3>5. ASSUME NEW i \in q + 1 .. m PROVE new[i].context = 0
      <4>1. i \in 1 .. m /\ k + i \in p + 1 .. n
        BY <1>10, <1>13, <3>1, <3>2, <3>3
      <4>2. new[i] = next[k + i]
        BY <1>13, <3>1, <4>1
      <4>3. PICK j \in k + 1 .. Len(s) : next[k + i] = s[j]
        BY <3>2, <4>1
      <4> QED BY <1>10, <4>2, <4>3
    <3> QED BY <1>1, <1>13, <3>1, <3>3, <3>4, <3>5, NewestAmong
  <2> QED BY <2>1, <2>2
<1>16. Rendered(h, thread')
  <2>1. h.sink = <<>>
    BY <1>1, <1>5 DEF Rendered, Storing
  <2> QED BY <1>4, <1>5, <1>7, <1>8, <1>12, <1>14, <1>15, <2>1 DEF Rendered, Storing, Loose
<1>17. ReactInv'
  BY <1>1, <1>4, <1>5, ReactKept DEF Reactions
<1> QED BY <1>1, <1>4, <1>5, <1>16, <1>17, QuietStep

LEMMA RespondQuiet ==
    ASSUME Inv, Orderly, Alone', NEW r \in Runs, Respond(r) PROVE Orderly'
<1>1. /\ run[r].pc = "model" /\ run[r] \in RunStates /\ r \in Active /\ Rendered(run[r], thread)
      /\ thread.items \in Seq(Items) /\ Fitting(run[r], context)
  BY BusyRun DEF Respond
<1>2. PICK reply, here :
        /\ reply \in Replies[r]
        /\ here = [run[r] EXCEPT !.sink = @ \o newItems(run[r]) \o outputs(r, reply),
                                 !.reply = reply]
        /\ Local(r, IF validateOperationRequests(stepItems(here), reply.requests)
                    THEN Goto(here, "commit") ELSE Finish(here, "failed"))
  BY DEF Respond
<1>3. reply \in Answers
  BY <1>2, SessionAssumption DEF Answers
<1>4. PICK s, new, out : s = thread.items /\ new = newItems(run[r]) /\ out = outputs(r, reply)
  OBVIOUS
<1>5. s \in Seq(Items) /\ new \in Seq(Items)
  BY <1>1, <1>4, NewItems DEF Fitting
<1>6. out \in Seq(Items) /\ \A i \in 1 .. Len(out) : out[i].context = 0
  BY <1>3, <1>4, OutputItems
<1>7. PICK sink : sink = run[r].sink \o new \o out
  OBVIOUS
<1>8. s \o sink = (s \o new) \o out /\ s \o new \in Seq(Items)
  <2>1. run[r].sink = <<>>
    BY <1>1 DEF Rendered, Storing
  <2>2. sink = new \o out
    BY <1>5, <1>7, <2>1, ConcatEmptySeq
  <2> QED BY <1>5, <1>6, <2>2, ConcatAssociative, ConcatProperties
<1>9. Kept(s \o new, run[r].rendered)
  BY <1>1, <1>4 DEF Rendered, Kept
<1>10. Kept(s \o sink, run[r].rendered)
  BY <1>6, <1>8, <1>9, KeptBehind
<1>11. PICK h : h = Goto(here, "commit")
  OBVIOUS
<1>12. /\ h.pc = "commit" /\ h.sink = sink /\ h.records = run[r].records
       /\ h.rendered = run[r].rendered /\ h.keys = run[r].keys
  <2>1. here = [run[r] EXCEPT !.sink = sink, !.reply = reply]
    BY <1>2, <1>4, <1>7
  <2> QED BY <1>1, <1>11, <2>1 DEF RunStates, Goto
<1>13. run' = [run EXCEPT ![r] = h] /\ thread' = thread /\ executed' = executed
  BY <1>2, <1>11, NoFailure DEF Respond, Local, Move
<1>14. Rendered(h, thread')
  <2>1. run[r].rendered # 0 /\ run[r].records = thread.rendered /\ Kept(thread.items, thread.rendered)
    BY <1>1 DEF Rendered, Storing
  <2> QED BY <1>4, <1>10, <1>12, <1>13, <2>1 DEF Rendered, Storing, Loose
<1>15. ReactInv'
  BY <1>1, <1>12, <1>13, ReactKept DEF Reactions
<1> QED BY <1>1, <1>12, <1>13, <1>14, <1>15, QuietStep

LEMMA commitContextRenderQuiet ==
    ASSUME Inv, Orderly, Alone', NEW r \in Runs, commitContextRender(r) PROVE Orderly'
<1>1. /\ run[r].pc = "commit" /\ run[r] \in RunStates /\ r \in Active /\ Rendered(run[r], thread)
      /\ thread \in Threads
  BY BusyRun DEF commitContextRender
<1>2. PICK here, th : /\ here = [run[r] EXCEPT !.records = run[r].rendered]
                      /\ th = [thread EXCEPT !.rendered = run[r].rendered]
  OBVIOUS
<1>3. /\ th.items = thread.items /\ th.rendered = run[r].rendered /\ th.applied = thread.applied
  BY <1>1, <1>2 DEF Threads
<1>4. /\ run' = [run EXCEPT ![r] = Decided(here)]
      /\ thread'.items = thread.items /\ thread'.rendered = run[r].rendered
      /\ thread'.applied = thread.applied
  <2>1. CASE run[r].records = run[r].rendered /\ Local(r, Decided(here))
    <3>1. thread.rendered = run[r].rendered
      BY <1>1, <2>1 DEF Rendered
    <3> QED BY <2>1, <3>1 DEF Local, Move
  <2>2. CASE appendThreadRecords(r, th, Decided(here), Finish(here, "failed"))
    BY <1>3, <2>2, Calm DEF Orderly
  <2> QED BY <1>2, <2>1, <2>2 DEF commitContextRender
<1>5. PICK h : /\ run' = [run EXCEPT ![r] = h] /\ h.pc \in {"request", "flush"}
               /\ h.records = run[r].rendered /\ h.rendered = run[r].rendered
               /\ h.sink = run[r].sink /\ h.keys = run[r].keys
  <2>1. PICK f, g : f = [here EXCEPT !.pc = "request"] /\ g = Goto(here, "flush")
    OBVIOUS
  <2>2. /\ f.pc = "request" /\ f.records = run[r].rendered /\ f.rendered = run[r].rendered
        /\ f.sink = run[r].sink /\ f.keys = run[r].keys
    BY <1>1, <1>2, <2>1 DEF RunStates
  <2>3. /\ g.pc = "flush" /\ g.records = run[r].rendered /\ g.rendered = run[r].rendered
        /\ g.sink = run[r].sink /\ g.keys = run[r].keys
    BY <1>1, <1>2, <2>1 DEF RunStates, Goto
  <2>4. Decided(here) = f \/ Decided(here) = g \/ Decided(here) = Finish(here, "failed")
    BY <2>1 DEF Decided
  <2> QED BY <1>4, <2>2, <2>3, <2>4, NoFailure
<1>6. Rendered(h, thread')
  <2>1. Kept(thread.items \o run[r].sink, run[r].rendered)
    BY <1>1 DEF Rendered
  <2> QED BY <1>4, <1>5, <2>1 DEF Rendered, Storing, Loose
<1>7. executed' = executed
  BY DEF commitContextRender
<1>8. ReactInv'
  BY <1>1, <1>4, <1>5, <1>7, ReactKept DEF Reactions
<1> QED BY <1>1, <1>5, <1>6, <1>8, QuietStep

LEMMA evaluateContinuationQuiet ==
    ASSUME Inv, Orderly, Alone', NEW r \in Runs, evaluateContinuation(r) PROVE Orderly'
<1>1. /\ run[r].pc = "evaluate" /\ run[r] \in RunStates /\ r \in Active
      /\ Rendered(run[r], thread)
  BY BusyRun DEF evaluateContinuation
<1>2. PICK h, g : /\ h = Goto(run[r], "terminal")
                  /\ g = [run[r] EXCEPT !.pc = "react", !.phase = "turn", !.cont = @ + 1, !.step = 0,
                                        !.pending = <<inputItem(r)>>, !.committed = 0]
  OBVIOUS
<1>3. run' = [run EXCEPT ![r] = h] \/ run' = [run EXCEPT ![r] = g]
  <2>1. PICK verdict \in {"stop", "continue", "error"} :
          Local(r, CASE verdict = "stop"  -> Goto(run[r], "terminal")
                     [] verdict = "error" -> Finish(run[r], "failed")
                     [] OTHER -> IF run[r].cont >= MaxContinuations THEN Finish(run[r], "failed")
                                 ELSE [run[r] EXCEPT !.pc = "react", !.phase = "turn",
                                                     !.cont = @ + 1, !.step = 0,
                                                     !.pending = <<inputItem(r)>>, !.committed = 0])
    BY DEF evaluateContinuation
  <2>2. Local(r, CASE verdict = "stop" -> h
                   [] verdict = "error" -> Finish(run[r], "failed")
                   [] OTHER -> IF run[r].cont >= MaxContinuations THEN Finish(run[r], "failed")
                               ELSE g)
    BY <1>2, <2>1
  <2>3. Local(r, h) \/ Local(r, Finish(run[r], "failed")) \/ Local(r, g)
    <3>1. CASE verdict = "stop"
      BY <2>2, <3>1
    <3>2. CASE verdict = "error"
      BY <2>2, <3>2
    <3>3. CASE verdict = "continue"
      BY <2>2, <3>3
    <3> QED BY <3>1, <3>2, <3>3
  <2> QED BY <2>3, NoFailure DEF Local, Move
<1>4. thread' = thread /\ executed' = executed
  BY DEF evaluateContinuation, Local
<1>5. CASE run' = [run EXCEPT ![r] = h]
  <2>1. h.pc = "terminal" /\ h.keys = run[r].keys /\ Carries(run[r], h)
    BY <1>1, <1>2, GotoCarries
  <2> QED BY <1>1, <1>4, <1>5, <2>1, QuietMove DEF Reactions, Late
<1>6. CASE run' = [run EXCEPT ![r] = g]
  <2>1. /\ g.pc = "react" /\ g.pending = <<inputItem(r)>> /\ g.committed = 0
        /\ g.records = run[r].records /\ g.sink = run[r].sink /\ g.keys = run[r].keys
    BY <1>1, <1>2 DEF RunStates
  <2>2. \A i \in g.committed + 1 .. Len(g.pending) : g.pending[i].context = 0
    BY <2>1, OneInput, InputItemType
  <2>3. Rendered(g, thread')
    BY <1>1, <1>4, <2>1, <2>2 DEF Rendered, Storing, Loose
  <2>4. ReactInv'
    BY <1>1, <1>4, <1>6, <2>1, ReactKept DEF Reactions
  <2> QED BY <1>1, <1>6, <2>1, <2>3, <2>4, QuietStep
<1> QED BY <1>3, <1>5, <1>6

LEMMA FlushWithTranscriptItemsQuiet ==
    ASSUME Inv, Orderly, Alone', NEW r \in Runs, FlushWithTranscriptItems(r) PROVE Orderly'
<1>1. /\ run[r].pc = "flush" /\ run[r] \in RunStates /\ r \in Active /\ Rendered(run[r], thread)
      /\ thread \in Threads /\ thread.items \in Seq(Items) /\ Shaped(run[r])
  BY BusyRun DEF FlushWithTranscriptItems
<1>2. PICK items, th, next :
        /\ items = run[r].sink \o run[r].results
        /\ th = [thread EXCEPT !.items = @ \o items, !.completed = @ \union run[r].batch]
        /\ next = [run[r] EXCEPT !.sink = <<>>, !.results = <<>>, !.batch = {}, !.local = @ \o items]
  OBVIOUS
<1>3. PICK g, f :
        /\ g = [next EXCEPT !.pc = "react", !.phase = "followup", !.step = @ + 1,
                            !.pending = run[r].results, !.committed = Len(run[r].results)]
        /\ f = Goto(next, "evaluate")
  OBVIOUS
<1>4. \/ Local(r, Finish(run[r], "failed"))
      \/ appendThreadRecords(r, th, IF run[r].reply.kind = "operations" THEN g ELSE f,
                             Finish(run[r], "failed"))
  BY <1>2, <1>3 DEF FlushWithTranscriptItems
<1>5. thread' = th /\ (run' = [run EXCEPT ![r] = g] \/ run' = [run EXCEPT ![r] = f])
  <2>1. CASE Local(r, Finish(run[r], "failed"))
    BY <2>1, NoFailure DEF Local, Move
  <2>2. CASE appendThreadRecords(r, th, IF run[r].reply.kind = "operations" THEN g ELSE f,
                                 Finish(run[r], "failed"))
    <3>1. /\ thread' = th
          /\ run' = [run EXCEPT ![r] = IF run[r].reply.kind = "operations" THEN g ELSE f]
      BY <2>2, Calm DEF Orderly
    <3> QED BY <3>1
  <2> QED BY <1>4, <2>1, <2>2
<1>6. /\ g.pc = "react" /\ g.sink = <<>> /\ g.pending = run[r].results
      /\ g.committed = Len(run[r].results) /\ g.records = run[r].records /\ g.keys = run[r].keys
  BY <1>1, <1>2, <1>3 DEF RunStates
<1>7. f.pc = "evaluate" /\ f.sink = <<>> /\ f.records = run[r].records /\ f.keys = run[r].keys
  BY <1>1, <1>2, <1>3 DEF RunStates, Goto
<1>8. th.rendered = thread.rendered /\ th.applied = thread.applied /\ th.items = thread.items \o items
  BY <1>1, <1>2 DEF Threads
<1>9. Kept(th.items, th.rendered)
  <2>1. PICK s, sink, results : /\ s = thread.items /\ sink = run[r].sink
                                /\ results = run[r].results
    OBVIOUS
  <2>2. s \in Seq(Items) /\ sink \in Seq(Items) /\ results \in Seq(Items)
    BY <1>1, <2>1 DEF RunStates
  <2>3. \A i \in 1 .. Len(results) : results[i].context = 0
    BY <1>1, <2>1 DEF Shaped
  <2>4. Kept(s \o sink, thread.rendered) /\ s \o sink \in Seq(Items)
    BY <1>1, <2>1, <2>2, ConcatProperties DEF Rendered, Storing
  <2>5. Kept((s \o sink) \o results, thread.rendered)
    BY <2>2, <2>3, <2>4, KeptBehind
  <2>6. th.items = (s \o sink) \o results
    <3>1. (s \o sink) \o results = s \o (sink \o results)
      BY <2>2, ConcatAssociative
    <3>2. th.items = s \o (sink \o results)
      BY <1>2, <1>8, <2>1
    <3> QED BY <3>1, <3>2
  <2> QED BY <1>8, <2>5, <2>6
<1>10. run[r].records \in {-1, th.rendered}
  BY <1>1, <1>8 DEF Rendered
<1>11. executed' = executed
  BY DEF FlushWithTranscriptItems
<1>12. CASE run' = [run EXCEPT ![r] = g]
  <2>1. PICK k \in Nat : k = Len(run[r].results)
    BY <1>1 DEF RunStates
  <2>2. \A i \in g.committed + 1 .. Len(g.pending) : FALSE
    BY <1>6, <2>1
  <2>3. Rendered(g, th)
    BY <1>6, <1>9, <1>10, <2>2 DEF Rendered, Storing, Loose
  <2>4. ReactInv'
    BY <1>1, <1>5, <1>6, <1>8, <1>11, <1>12, ReactKept DEF Reactions
  <2> QED BY <1>1, <1>5, <1>6, <1>12, <2>3, <2>4, QuietStep
<1>13. CASE run' = [run EXCEPT ![r] = f]
  <2>1. Rendered(f, th)
    BY <1>7, <1>9, <1>10 DEF Rendered, Storing, Loose
  <2>2. ReactInv'
    BY <1>1, <1>5, <1>7, <1>8, <1>11, <1>13, ReactKept DEF Reactions
  <2> QED BY <1>1, <1>5, <1>7, <1>13, <2>1, <2>2, QuietStep
<1> QED BY <1>5, <1>12, <1>13

LEMMA compactableTranscriptQuiet ==
    ASSUME Inv, Orderly, Alone', NEW r \in Runs, compactableTranscript(r) PROVE Orderly'
<1>1. /\ run[r].pc = "compact" /\ run[r] \in RunStates /\ r \in Active /\ Rendered(run[r], thread)
      /\ thread.items \in Seq(Items)
  BY BusyRun DEF compactableTranscript
<1>2. PICK t \in CompactTranscript(thread.items) :
        Local(r, IF t = thread.items \/ ~ValidateContinuity(thread.items)
                 THEN Finish(run[r], "ok")
                 ELSE [run[r] EXCEPT !.pc = "checkpoint", !.checkpoint = t])
  BY DEF compactableTranscript
<1>3. Kept(thread.items, thread.rendered)
  BY <1>1 DEF Rendered, Storing
<1>4. Kept(t, thread.rendered)
  BY <1>1, <1>2, <1>3, Compacted DEF Inv, BatchInv
<1>5. thread' = thread /\ executed' = executed
  BY DEF compactableTranscript, Local
<1>6. PICK h, g : /\ h = Finish(run[r], "ok")
                  /\ g = [run[r] EXCEPT !.pc = "checkpoint", !.checkpoint = t]
  OBVIOUS
<1>7. h.pc = "done"
  BY <1>1, <1>6, FinishType
<1>8. /\ g.pc = "checkpoint" /\ g.checkpoint = t /\ g.sink = run[r].sink
      /\ g.records = run[r].records /\ g.keys = run[r].keys
  BY <1>1, <1>6 DEF RunStates
<1>9. CASE run' = [run EXCEPT ![r] = h]
  <2>1. ReactInv'
    BY <1>1, <1>5, <1>7, <1>9, ReactKept DEF Reactions
  <2> QED BY <1>1, <1>3, <1>5, <1>7, <1>9, <2>1, QuietStep
<1>10. CASE run' = [run EXCEPT ![r] = g]
  <2>1. Rendered(g, thread)
    BY <1>1, <1>3, <1>4, <1>8 DEF Rendered, Storing, Loose
  <2>2. ReactInv'
    BY <1>1, <1>5, <1>8, <1>10, ReactKept DEF Reactions
  <2> QED BY <1>1, <1>5, <1>8, <1>10, <2>1, <2>2, QuietStep
<1> QED BY <1>2, <1>6, <1>9, <1>10 DEF Local, Move

LEMMA AppendCompactionQuiet ==
    ASSUME Inv, Orderly, Alone', NEW r \in Runs, AppendCompaction(r) PROVE Orderly'
<1>1. /\ run[r].pc = "checkpoint" /\ run[r] \in RunStates /\ r \in Active
      /\ Rendered(run[r], thread) /\ thread \in Threads
  BY BusyRun DEF AppendCompaction
<1>2. PICK done, th : /\ done = Finish(run[r], "ok")
                      /\ th = [thread EXCEPT !.items = run[r].checkpoint]
  OBVIOUS
<1>3. done.pc = "done"
  BY <1>1, <1>2, FinishType
<1>4. run' = [run EXCEPT ![r] = done] /\ thread' \in {thread, th}
  <2>1. CASE Local(r, done)
    BY <2>1 DEF Local, Move
  <2>2. CASE appendThreadRecords(r, th, done, done)
    BY <2>2, Calm DEF Orderly
  <2> QED BY <1>2, <2>1, <2>2 DEF AppendCompaction
<1>5. /\ th.rendered = thread.rendered /\ th.applied = thread.applied
      /\ th.items = run[r].checkpoint
  BY <1>1, <1>2 DEF Threads
<1>6. Kept(thread'.items, thread'.rendered)
  BY <1>1, <1>4, <1>5 DEF Rendered, Storing
<1>7. thread'.applied = thread.applied /\ executed' = executed
  BY <1>4, <1>5 DEF AppendCompaction
<1>8. ReactInv'
  BY <1>1, <1>3, <1>4, <1>7, ReactKept DEF Reactions
<1> QED BY <1>1, <1>3, <1>4, <1>6, <1>8, QuietStep

LEMMA CrashQuiet ==
    ASSUME Inv, Orderly, Alone', Crash PROVE Orderly'
<1>1. faults = 0 /\ faults' = 0 /\ faults' = faults + 1
  BY DEF Orderly, Alone, Crash
<1> QED BY <1>1

LEMMA ChangeContextQuiet ==
    ASSUME Inv, Orderly, Alone', ChangeContext PROVE Orderly'
<1>1. thread' = thread /\ run' = run /\ executed' = executed
  BY DEF ChangeContext
<1>2. Active' = Active
  BY <1>1 DEF Active
<1> QED BY <1>1, <1>2 DEF Orderly, Unbegun, ReactInv, ContextInv

-----------------------------------------------------------------------------
(* The steps of a reaction.                                                *)

(* A step of run r that leaves what was executed alone.                    *)
LEMMA ReactSame ==
    ASSUME Inv, Orderly, Alone', NEW r \in Runs, NEW here, run' = [run EXCEPT ![r] = here],
           here.pc \notin {"idle", "done"}, executed' = executed,
           thread.applied \subseteq thread'.applied,
           run[r].pc \in {"react complete", "react applied"} =>
             \/ run[r].fact \in thread'.applied
             \/ here.pc \in {"react complete", "react applied"} /\ here.fact = run[r].fact,
           Reacting(r, here, thread', executed')
    PROVE  ReactInv'
<1>1. run \in [Runs -> RunStates] /\ executed \subseteq Calls
  BY DEF Inv, TypeInv
<1>2. \A s \in Runs : run'[s] = IF s = r THEN here ELSE run[s]
  BY <1>1
<1>3. ASSUME NEW call \in executed', IsReaction(call)
      PROVE  \/ call.fact \in thread'.applied
             \/ /\ run'[call.run].pc \in {"react complete", "react applied"}
                /\ run'[call.run].fact = call.fact
  <2>1. call \in executed /\ call.run \in Runs
    BY <1>1 DEF Calls
  <2>2. \/ call.fact \in thread.applied
        \/ /\ run[call.run].pc \in {"react complete", "react applied"}
           /\ run[call.run].fact = call.fact
    BY <1>3, <2>1 DEF Orderly, ReactInv
  <2>3. CASE call.run = r
    BY <1>2, <2>1, <2>2, <2>3
  <2>4. CASE call.run # r
    BY <1>2, <2>1, <2>2, <2>4
  <2> QED BY <2>3, <2>4
<1>4. r \in Active'
  BY <1>2 DEF Active
<1>5. \A s \in Active' : s = r
  BY <1>4 DEF Alone
<1>6. \A s \in Active' : Reacting(s, run'[s], thread', executed')
  BY <1>2, <1>5
<1>7. \A c, d \in executed' : IsReaction(c) /\ c.fact = d.fact => c = d
  BY DEF Orderly, ReactInv
<1> QED BY <1>3, <1>6, <1>7 DEF ReactInv

LEMMA ReceiveInputQuiet ==
    ASSUME Inv, Orderly, Alone', NEW r \in Runs, ReceiveInput(r) PROVE Orderly'
<1>1. run[r].pc = "idle" /\ run[r] = newRun /\ thread \in Threads /\ run[r] \in RunStates
  BY CurrentRun DEF ReceiveInput, Orderly, Unbegun
<1>2. PICK h, th : /\ h = Goto(run[r], "replay")
                   /\ th = [thread EXCEPT !.received = @ \union {r}]
  OBVIOUS
<1>3. h.pc = "replay" /\ h.records = -1 /\ h.sink = <<>>
  BY <1>1, <1>2 DEF Goto, newRun
<1>4. run' = [run EXCEPT ![r] = h] /\ thread' = th /\ executed' = executed
  BY <1>2, Calm DEF ReceiveInput, Orderly
<1>5. th.items = thread.items /\ th.rendered = thread.rendered /\ th.applied = thread.applied
  BY <1>1, <1>2 DEF Threads
<1>6. Active = {}
  <2>1. SUFFICES ASSUME NEW s \in Active PROVE FALSE
    OBVIOUS
  <2>2. run \in [Runs -> RunStates] /\ s \in Runs /\ run[s].pc \notin {"idle", "done"}
    BY DEF Inv, TypeInv, Active
  <2>3. s # r
    BY <1>1, <2>2
  <2>4. s \in Active' /\ r \in Active'
    BY <1>3, <1>4, <2>2, <2>3 DEF Active
  <2> QED BY <2>3, <2>4 DEF Alone
<1>7. Kept(thread.items, thread.rendered)
  BY <1>6 DEF Orderly, ContextInv
<1>8. Rendered(h, th)
  BY <1>3, <1>5, <1>7 DEF Rendered, Storing, Loose
<1>9. Reacting(r, h, th, executed)
  BY <1>3 DEF Reacting
<1>10. ReactInv'
  BY <1>1, <1>3, <1>4, <1>5, <1>9, ReactSame
<1> QED BY <1>3, <1>4, <1>8, <1>10, QuietStep

LEMMA ReplayQuiet ==
    ASSUME Inv, Orderly, Alone', NEW r \in Runs, Replay(r) PROVE Orderly'
<1>1. /\ run[r].pc = "replay" /\ run[r] \in RunStates /\ r \in Active /\ Rendered(run[r], thread)
      /\ Fitting(run[r], context)
  BY BusyRun DEF Replay
<1>2. PICK h : h = [run[r] EXCEPT !.pc = "react",
                                  !.phase = IF shouldRunSessionOpenPhase THEN "open" ELSE "turn",
                                  !.keys = replayReactionEvents,
                                  !.pending = <<inputItem(r)>>]
  OBVIOUS
<1>3. run' = [run EXCEPT ![r] = h] /\ thread' = thread /\ executed' = executed
  BY <1>2 DEF Replay, Local, Move
<1>4. /\ h.pc = "react" /\ h.keys = thread.applied /\ h.pending = <<inputItem(r)>>
      /\ h.committed = run[r].committed /\ h.records = run[r].records /\ h.sink = run[r].sink
  BY <1>1, <1>2 DEF RunStates, replayReactionEvents
<1>5. run[r].committed = 0
  BY <1>1 DEF Fitting
<1>6. \A i \in h.committed + 1 .. Len(h.pending) : h.pending[i].context = 0
  BY <1>4, <1>5, OneInput, InputItemType
<1>7. Rendered(h, thread)
  BY <1>1, <1>4, <1>6 DEF Rendered, Storing, Loose
<1>8. Reacting(r, h, thread, executed)
  BY <1>4 DEF Reacting
<1>9. ReactInv'
  BY <1>1, <1>3, <1>4, <1>8, ReactSame
<1> QED BY <1>1, <1>3, <1>4, <1>7, <1>9, QuietStep

LEMMA AfterCarries ==
    ASSUME NEW here \in RunStates
    PROVE  /\ AfterReactions(here).pc \in {"react", "step"} /\ Carries(here, AfterReactions(here))
           /\ AfterReactions(here).keys = here.keys
  BY DEF AfterReactions, RunStates, Carries

LEMMA PlanReactionsQuiet ==
    ASSUME Inv, Orderly, Alone', NEW r \in Runs, PlanReactions(r) PROVE Orderly'
<1>1. /\ run[r].pc = "react" /\ run[r] \in RunStates /\ r \in Active /\ Rendered(run[r], thread)
      /\ Reacting(r, run[r], thread, executed)
  BY BusyRun DEF PlanReactions
<1>2. PICK fact, here :
        /\ fact \in observedFacts(run[r])
        /\ here = [run[r] EXCEPT !.fact = fact, !.previous = fact]
        /\ Local(r, IF shouldFire(run[r], fact) THEN Goto(here, "react request")
                    ELSE AfterReactions(here))
  BY DEF PlanReactions
<1>3. fact \in Facts \union {NoFact}
  BY <1>1, <1>2, SessionAssumption DEF observedFacts, RunStates
<1>4. /\ here \in RunStates /\ Carries(run[r], here) /\ here.keys = run[r].keys
      /\ here.fact = fact
  BY <1>1, <1>2, <1>3 DEF RunStates, Carries
<1>5. PICK h : /\ run' = [run EXCEPT ![r] = h] /\ h.pc \in {"react request", "react", "step"}
               /\ h.pc = "react request" => h.fact \notin h.keys
               /\ Carries(run[r], h) /\ h.keys = run[r].keys
  <2>1. CASE shouldFire(run[r], fact)
    <3>1. PICK h : h = Goto(here, "react request")
      OBVIOUS
    <3>2. h.pc = "react request" /\ h.keys = here.keys /\ h.fact = fact /\ Carries(here, h)
      BY <1>4, <3>1, GotoCarries
    <3>3. fact \notin run[r].keys
      BY <2>1 DEF shouldFire
    <3> QED BY <1>2, <1>4, <2>1, <3>1, <3>2, <3>3 DEF Local, Move, Carries
  <2>2. CASE ~shouldFire(run[r], fact)
    <3>1. PICK h : h = AfterReactions(here)
      OBVIOUS
    <3>2. h.pc \in {"react", "step"} /\ Carries(here, h) /\ h.keys = here.keys
      BY <1>4, <3>1, AfterCarries
    <3> QED BY <1>2, <1>4, <2>2, <3>1, <3>2 DEF Local, Move, Carries
  <2> QED BY <2>1, <2>2
<1>6. thread' = thread /\ executed' = executed
  BY <1>2 DEF PlanReactions, Local
<1>7. Rendered(h, thread)
  BY <1>1, <1>5, RenderedMove DEF Loose
<1>8. Reacting(r, h, thread, executed)
  BY <1>1, <1>5 DEF Reacting
<1>9. ReactInv'
  BY <1>1, <1>5, <1>6, <1>8, ReactSame
<1> QED BY <1>1, <1>5, <1>6, <1>7, <1>9, QuietStep

LEMMA RequestReactionQuiet ==
    ASSUME Inv, Orderly, Alone', NEW r \in Runs, RequestReaction(r) PROVE Orderly'
<1>1. /\ run[r].pc = "react request" /\ run[r] \in RunStates /\ r \in Active
      /\ Rendered(run[r], thread) /\ Reacting(r, run[r], thread, executed) /\ thread \in Threads
  BY BusyRun DEF RequestReaction
<1>2. PICK h, th : /\ h = Goto(run[r], "react execute")
                   /\ th = [thread EXCEPT !.requested = @ \union {reactionCall(r)}]
  OBVIOUS
<1>3. /\ h.pc = "react execute" /\ h.keys = run[r].keys /\ h.fact = run[r].fact
      /\ Carries(run[r], h)
  BY <1>1, <1>2, GotoCarries
<1>4. run' = [run EXCEPT ![r] = h] /\ thread' = th /\ executed' = executed
  BY <1>2, Calm DEF RequestReaction, Orderly
<1>5. th.items = thread.items /\ th.rendered = thread.rendered /\ th.applied = thread.applied
  BY <1>1, <1>2 DEF Threads
<1>6. Rendered(h, th)
  BY <1>1, <1>3, <1>5, RenderedMove DEF Loose
<1>7. Reacting(r, h, th, executed)
  BY <1>1, <1>3, <1>5 DEF Reacting
<1>8. ReactInv'
  BY <1>1, <1>3, <1>4, <1>5, <1>7, ReactSame
<1> QED BY <1>1, <1>3, <1>4, <1>6, <1>8, QuietStep

LEMMA ExecuteReactionQuiet ==
    ASSUME Inv, Orderly, Alone', NEW r \in Runs, ExecuteReaction(r) PROVE Orderly'
<1>1. /\ run[r].pc = "react execute" /\ run[r] \in RunStates /\ r \in Active
      /\ Rendered(run[r], thread) /\ Reacting(r, run[r], thread, executed)
      /\ Fitting(run[r], context)
  BY BusyRun DEF ExecuteReaction
<1>2. PICK h, new : h = Goto(run[r], "react complete") /\ new = reactionCall(r)
  OBVIOUS
<1>3. /\ h.pc = "react complete" /\ h.keys = run[r].keys /\ h.fact = run[r].fact
      /\ Carries(run[r], h)
  BY <1>1, <1>2, GotoCarries
<1>4. run' = [run EXCEPT ![r] = h] /\ thread' = thread /\ executed' = executed \union {new}
  BY <1>2 DEF ExecuteReaction, Local, Move
<1>5. run[r].fact \in Facts /\ run[r].fact \notin thread.applied
  BY <1>1 DEF Fitting, Reacting
<1>6. new.run = r /\ new.fact = run[r].fact /\ IsReaction(new)
  BY <1>2, <1>5, SessionAssumption DEF reactionCall, reactionOperationCallID, IsReaction
<1>7. Rendered(h, thread)
  BY <1>1, <1>3, RenderedMove DEF Loose
<1>8. run \in [Runs -> RunStates] /\ executed \subseteq Calls
  BY DEF Inv, TypeInv
<1>9. \A s \in Runs : run'[s] = IF s = r THEN h ELSE run[s]
  BY <1>4, <1>8
<1>10. ASSUME NEW call \in executed, IsReaction(call)
       PROVE  /\ call.fact \in thread.applied
              /\ call.fact # new.fact
  <2>1. call.run \in Runs
    BY <1>8 DEF Calls
  <2>2. \/ call.fact \in thread.applied
        \/ run[call.run].pc \in {"react complete", "react applied"}
    BY <1>10 DEF Orderly, ReactInv
  <2>3. ~(run[call.run].pc \in {"react complete", "react applied"})
    <3>1. SUFFICES ASSUME run[call.run].pc \in {"react complete", "react applied"} PROVE FALSE
      OBVIOUS
    <3>2. call.run \in Active
      BY <2>1, <3>1 DEF Active
    <3>3. call.run = r
      BY <1>1, <3>2 DEF Orderly, Alone
    <3> QED BY <1>1, <3>1, <3>3
  <2> QED BY <1>5, <1>6, <2>2, <2>3
<1>11. ReactInv'
  <2>1. ASSUME NEW call \in executed', IsReaction(call)
        PROVE  \/ call.fact \in thread'.applied
               \/ /\ run'[call.run].pc \in {"react complete", "react applied"}
                  /\ run'[call.run].fact = call.fact
    <3>1. CASE call = new
      BY <1>3, <1>6, <1>9, <3>1
    <3>2. CASE call \in executed
      BY <1>4, <1>10, <2>1, <3>2
    <3> QED BY <1>4, <3>1, <3>2
  <2>2. ASSUME NEW c \in executed', NEW d \in executed', IsReaction(c), c.fact = d.fact
        PROVE  c = d
    <3>1. IsReaction(d)
      BY <2>2 DEF IsReaction
    <3>2. CASE c \in executed /\ d \in executed
      BY <2>2, <3>2 DEF Orderly, ReactInv
    <3>3. CASE c = new \/ d = new
      BY <1>4, <1>10, <2>2, <3>1, <3>3
    <3> QED BY <1>4, <3>2, <3>3
  <2>3. r \in Active'
    BY <1>3, <1>9 DEF Active
  <2>4. \A s \in Active' : s = r
    BY <2>3 DEF Alone
  <2>5. Reacting(r, h, thread, executed')
    BY <1>1, <1>3 DEF Reacting
  <2>6. \A s \in Active' : Reacting(s, run'[s], thread', executed')
    BY <1>4, <1>9, <2>4, <2>5
  <2> QED BY <2>1, <2>2, <2>6 DEF ReactInv
<1> QED BY <1>1, <1>3, <1>4, <1>7, <1>11, QuietStep

LEMMA CompleteReactionQuiet ==
    ASSUME Inv, Orderly, Alone', NEW r \in Runs, CompleteReaction(r) PROVE Orderly'
<1>1. /\ run[r].pc = "react complete" /\ run[r] \in RunStates /\ r \in Active
      /\ Rendered(run[r], thread) /\ Reacting(r, run[r], thread, executed) /\ thread \in Threads
  BY BusyRun DEF CompleteReaction
<1>2. PICK h, th : /\ h = [run[r] EXCEPT !.pc = "react applied", !.effects = @ + 1,
                                         !.keys = @ \union {run[r].fact}]
                   /\ th = [thread EXCEPT !.completed = @ \union {reactionCall(r)}]
  OBVIOUS
<1>3. /\ h.pc = "react applied" /\ h.keys = run[r].keys \union {run[r].fact}
      /\ h.fact = run[r].fact /\ Carries(run[r], h)
  BY <1>1, <1>2 DEF RunStates, Carries
<1>4. run' = [run EXCEPT ![r] = h] /\ thread' = th /\ executed' = executed
  BY <1>2, Calm DEF CompleteReaction, Orderly
<1>5. th.items = thread.items /\ th.rendered = thread.rendered /\ th.applied = thread.applied
  BY <1>1, <1>2 DEF Threads
<1>6. Rendered(h, th)
  BY <1>1, <1>3, <1>5, RenderedMove DEF Loose
<1>7. Reacting(r, h, th, executed)
  BY <1>1, <1>3, <1>5 DEF Reacting
<1>8. ReactInv'
  BY <1>1, <1>3, <1>4, <1>5, <1>7, ReactSame
<1> QED BY <1>1, <1>3, <1>4, <1>6, <1>8, QuietStep

LEMMA RecordAppliedQuiet ==
    ASSUME Inv, Orderly, Alone', NEW r \in Runs, RecordApplied(r) PROVE Orderly'
<1>1. /\ run[r].pc = "react applied" /\ run[r] \in RunStates /\ r \in Active
      /\ Rendered(run[r], thread) /\ Reacting(r, run[r], thread, executed) /\ thread \in Threads
  BY BusyRun DEF RecordApplied
<1>2. PICK h, th : /\ h = AfterReactions(run[r])
                   /\ th = [thread EXCEPT !.applied = @ \union {run[r].fact}]
  OBVIOUS
<1>3. h.pc \in {"react", "step"} /\ h.keys = run[r].keys /\ Carries(run[r], h)
  BY <1>1, <1>2, AfterCarries
<1>4. run' = [run EXCEPT ![r] = h] /\ thread' = th /\ executed' = executed
  BY <1>2, Calm DEF RecordApplied, Orderly
<1>5. /\ th.items = thread.items /\ th.rendered = thread.rendered
      /\ th.applied = thread.applied \union {run[r].fact}
  BY <1>1, <1>2 DEF Threads
<1>6. Rendered(h, th)
  BY <1>1, <1>3, <1>5, RenderedMove DEF Loose
<1>7. Reacting(r, h, th, executed)
  BY <1>1, <1>3, <1>5 DEF Reacting
<1>8. ReactInv'
  BY <1>1, <1>3, <1>4, <1>5, <1>7, ReactSame
<1> QED BY <1>1, <1>3, <1>4, <1>6, <1>8, QuietStep

-----------------------------------------------------------------------------
(* Theorems for runs that follow one another without a failure.            *)

LEMMA StaysAlone ==
    ASSUME Inv', Quietly, quiet' PROVE quiet /\ Alone'
<1>1. /\ quiet /\ Cardinality(Active') <= 1 /\ faults' = 0
      /\ \A r \in Runs : run'[r].result \in {"none", "ok"}
  BY DEF Quietly
<1>2. Active' \subseteq Runs
  BY DEF Active
<1>3. ASSUME NEW r \in Active', NEW s \in Active', r # s PROVE FALSE
  <2>1. IsFiniteSet(Active') /\ Cardinality(Active') \in Nat
    BY <1>2, FS_Subset, FS_CardinalityType, SessionAssumption
  <2>2. IsFiniteSet({r}) /\ Cardinality({r}) = 1
    BY FS_Singleton
  <2>3. Cardinality({r} \union {s}) = 1 + 1
    BY <1>3, <2>2, FS_AddElement
  <2>4. {r} \union {s} \subseteq Active'
    OBVIOUS
  <2>5. Cardinality({r} \union {s}) <= Cardinality(Active')
    BY <2>1, <2>4, FS_Subset
  <2> QED BY <1>1, <2>1, <2>3, <2>5
<1> QED BY <1>1, <1>3 DEF Alone

LEMMA TurnQuiet ==
    ASSUME Inv, Inv', Orderly, Alone', NEW r \in Runs, Turn(r) PROVE Orderly'
  BY ReplayQuiet, PlanReactionsQuiet, RequestReactionQuiet, ExecuteReactionQuiet,
     CompleteReactionQuiet, RecordAppliedQuiet, materializeContextQuiet,
     transcriptForPendingQuiet, RespondQuiet, ModelFailsQuiet, commitContextRenderQuiet,
     RequestOperationQuiet, ExecuteOperationQuiet, RequestCheckQuiet, ExecuteCheckQuiet,
     CompleteCheckQuiet, FlushWithTranscriptItemsQuiet, StepLimitQuiet,
     evaluateContinuationQuiet, applyTerminalAgentDecisionQuiet,
     compactableTranscriptQuiet, AppendCompactionQuiet DEF Turn

LEMMA NextQuiet ==
    ASSUME Inv, Inv', QuietInv, Next PROVE QuietInv'
<1>1. SUFFICES ASSUME quiet' PROVE Orderly'
  BY DEF QuietInv
<1>2. quiet /\ Alone'
  BY <1>1, StaysAlone DEF Next
<1>3. Orderly
  BY <1>2 DEF QuietInv
<1>4. CASE \E r \in Runs : ReceiveInput(r)
  BY <1>2, <1>3, <1>4, ReceiveInputQuiet
<1>5. CASE \E r \in Runs : Turn(r)
  BY <1>2, <1>3, <1>5, TurnQuiet
<1>6. CASE Crash
  BY <1>2, <1>3, <1>6, CrashQuiet
<1>7. CASE ChangeContext
  BY <1>2, <1>3, <1>7, ChangeContextQuiet
<1> QED BY <1>4, <1>5, <1>6, <1>7 DEF Next

LEMMA InitQuiet == Init => QuietInv
<1> SUFFICES ASSUME Init PROVE Orderly
  BY DEF QuietInv
<1>1. newRun.pc = "idle" /\ newRun.result = "none"
  BY DEF newRun
<1>2. \A r \in Runs : run[r] = newRun
  BY DEF Init
<1>3. Active = {}
  BY <1>1, <1>2 DEF Active
<1>4. Alone /\ Unbegun
  BY <1>1, <1>2, <1>3 DEF Init, Alone, Unbegun
<1>5. ReactInv
  BY <1>3 DEF Init, ReactInv
<1>6. Kept(<<>>, 0)
  BY DEF Kept
<1>7. ContextInv
  BY <1>3, <1>6 DEF Init, ContextInv
<1> QED BY <1>4, <1>5, <1>7 DEF Orderly

LEMMA StutterQuiet == QuietInv /\ UNCHANGED vars => QuietInv'
<1> SUFFICES ASSUME QuietInv, UNCHANGED vars PROVE QuietInv'
  OBVIOUS
<1>1. /\ thread' = thread /\ run' = run /\ executed' = executed /\ faults' = faults
      /\ quiet' = quiet
  BY DEF vars
<1>2. Active' = Active
  BY <1>1 DEF Active
<1> QED BY <1>1, <1>2 DEF QuietInv, Orderly, Alone, Unbegun, ReactInv, ContextInv

(* While quiet is true, at most one run is under way, it knows every       *)
(* reaction that was applied, and the newest context diff of the           *)
(* transcript has the version the context records tell, when it is one     *)
(* that compaction leaves alone (not in a message of the user, not large). *)
THEOREM QuietInvariance == Spec => []QuietInv
<1>1. Inv /\ Inv' /\ QuietInv /\ [Next]_vars => QuietInv'
  BY NextQuiet, StutterQuiet
<1> QED BY InitQuiet, <1>1, Invariance, PTL DEF Spec

(* Nothing is executed twice: no operation or check under one call         *)
(* identifier, whatever happens, and, as long as runs follow one another   *)
(* and nothing fails, no reaction for a fact it was executed for before.   *)
THEOREM OnceOnly == Spec => NothingRunsTwice
<1>1. QuietInv => ReactsOnce
  BY DEF QuietInv, Orderly, ReactInv, ReactsOnce
<1> QED BY <1>1, CallsExecutedOnce, QuietInvariance, PTL DEF NothingRunsTwice

(* As long as runs follow one another and nothing fails, the newest        *)
(* context diff in the transcript that is sent to the model carries the    *)
(* context the run has rendered: in the step that found the context        *)
(* changed, wherever the diff is placed and whatever its size, and, when   *)
(* the diff is one that compaction leaves alone, in every step after it.   *)
THEOREM ContextSent == Spec => []ContextReachesModel
<1>1. Inv /\ QuietInv => ContextReachesModel
  <2>1. SUFFICES ASSUME Inv, QuietInv, quiet, NEW r \in Runs, run[r].pc = "model",
                        Durable(run[r].rendered) \/ run[r].records # run[r].rendered
                 PROVE  LET sent  == Projected(r)
                            diffs == {i \in DOMAIN sent : sent[i].context # 0}
                        IN  diffs # {} /\ sent[Max(diffs)].context = run[r].rendered
    BY DEF ContextReachesModel
  <2>2. Orderly
    BY <2>1 DEF QuietInv
  <2>3. /\ run[r] \in RunStates /\ Rendered(run[r], thread) /\ thread.items \in Seq(Items)
        /\ Fitting(run[r], context)
    BY <2>1, <2>2, BusyRun
  <2>4. PICK sent : sent = Projected(r)
    OBVIOUS
  <2>5. sent \in Seq(Items)
    <3>1. newItems(run[r]) \in Seq(Items)
      BY <2>3, NewItems DEF Fitting
    <3> QED BY <2>3, <2>4, <3>1, ConcatProperties DEF Projected
  <2>6. PICK n \in Nat : n = Len(sent)
    BY <2>5
  <2>7. NewestIs(sent, run[r].rendered) /\ run[r].rendered # 0
    BY <2>1, <2>3, <2>4 DEF Rendered, Projected
  <2>8. PICK i \in 1 .. n : /\ sent[i].context = run[r].rendered
                            /\ \A j \in i + 1 .. n : sent[j].context = 0
    BY <2>6, <2>7 DEF NewestIs
  <2>9. PICK diffs : diffs = {j \in DOMAIN sent : sent[j].context # 0}
    OBVIOUS
  <2>10. DOMAIN sent = 1 .. n
    BY <2>5, <2>6
  <2>11. i \in diffs /\ \A j \in diffs : j \in 1 .. n /\ ~(j \in i + 1 .. n)
    BY <2>7, <2>8, <2>9, <2>10
  <2>12. \A j \in diffs : i >= j
    BY <2>6, <2>11
  <2>13. \A k \in diffs : (\A j \in diffs : k >= j) => k = i
    BY <2>6, <2>11, <2>12
  <2>14. Max(diffs) = i
    BY <2>11, <2>12, <2>13 DEF Max
  <2> QED BY <2>4, <2>8, <2>9, <2>11, <2>14
<1> QED BY <1>1, Invariance, QuietInvariance, PTL
=============================================================================
