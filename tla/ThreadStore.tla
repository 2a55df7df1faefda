----------------------------- MODULE ThreadStore -----------------------------
(***************************************************************************)
(* runtime/thread: threads of records with branches, each kept in a stream *)
(* of its own, and one index stream that all threads share, on the SQLite  *)
(* event store.  Every mutation reads what it depends on, and appends with *)
(* the sequences it has seen as expected sequences; a conflict repeats the *)
(* read.  The projected thread index of runtime/thread/index.go, fed by    *)
(* runtime/projection and orchestration/projections, is part of the model. *)
(***************************************************************************)
EXTENDS SqliteEventStore, FiniteSets

CONSTANTS
    Threads,        \* thread identifiers; the stream of a thread has its name
    Index,          \* the index stream, "thread.index"
    Main, Alt,      \* branch identifiers: the main branch and another one
    ThreadRetries,  \* threadWriteRetries
    BatchSize,      \* Runner.BatchSize
    Kinds,          \* operations the callers use
    MaxCalls        \* bound: calls started

ASSUME ThreadAssumption ==
    /\ Streams = Threads \union {Index} /\ Index \notin Threads
    /\ Main # Alt /\ "" \notin {Main, Alt}
    /\ ThreadRetries \in Nat \ {0} /\ BatchSize \in Nat /\ MaxCalls \in Nat
    /\ (1 .. MaxCalls) \X {"thread", "index"} \subseteq Ids

(* The batches of the abstract store that calls can submit: one record in  *)
(* a thread, or one in a thread and one in the index, always with expected *)
(* sequences.  The identifiers are built from the number of the call.      *)
IdRequest(id, n) == [check |-> TRUE, expected |-> n, ids |-> <<id>>]
ThreadBatch(t, k, n) == [s \in {t} |-> IdRequest(<<k, "thread">>, n)]
IndexedBatch(t, k, n, m) ==
    [s \in {t, Index} |-> IF s = t THEN IdRequest(<<k, "thread">>, n)
                          ELSE IdRequest(<<k, "index">>, m)]

ASSUME BatchAssumption ==
    \A t \in Threads, k \in 1 .. MaxCalls, n, m \in 0 .. MaxCalls - 1 :
        {ThreadBatch(t, k, n), IndexedBatch(t, k, n, m)} \subseteq Batches

VARIABLES
    op,         \* op[c]: the call of c, with its arguments
    pc,         \* pc[c]: where it stands
    attempt,    \* attempt[c]: loop counter of the call
    observed,   \* observed[c]: records of the thread as last loaded
    page,       \* page[c]: the threads List has collected, and those to visit
    outcome,    \* outcome[c]: how the last call of c ended
    view,       \* the projected ThreadIndex and its checkpoint
    calls

threadVars == <<op, pc, attempt, observed, page, outcome, view, calls>>
vars == <<sqlVars, threadVars>>

Branches == {Main, Alt}
NoOp == [kind |-> "none"]
NoPage == [left |-> << >>, threads |-> {}, due |-> {}]
NoOutcome == [kind |-> "none"]

(* A record: its identifier, what it says, the branch it is positioned on, *)
(* and for BranchCreated the parent branch and the fork sequence.  time is *)
(* part of what sameLogicalRecord compares.                                *)
Record(id, k, t, b, from, fork, time) ==
    [id |-> id, kind |-> k, thread |-> t, branch |-> b, from |-> from, fork |-> fork,
     time |-> time]
Plain(n, role, k, t, b) == Record(<<n, role>>, k, t, b, "", 0, n)

-----------------------------------------------------------------------------
(* projectSnapshot and EventsForBranch.                                    *)

BranchesOf(recs) ==
    {Main} \union {recs[i].branch : i \in {j \in DOMAIN recs :
                                               recs[j].kind \in {"created", "forked"}}}

(* The BranchCreated record of b; the main branch and the branch a thread  *)
(* was created on have none and so no parent.                              *)
ForksOf(recs, b) == {i \in DOMAIN recs : recs[i].kind = "forked" /\ recs[i].branch = b}
Parent(recs, b) ==
    IF ForksOf(recs, b) = {} THEN ""
    ELSE recs[CHOOSE i \in ForksOf(recs, b) : \A j \in ForksOf(recs, b) : j <= i].from
ForkSequence(recs, b) ==
    IF ForksOf(recs, b) = {} THEN 0
    ELSE recs[CHOOSE i \in ForksOf(recs, b) : \A j \in ForksOf(recs, b) : j <= i].fork

(* branchWindows: the window of an ancestor ends where the next branch of  *)
(* the path was forked.  until[x] is that end for the path of b, 0 when    *)
(* there is none.  With two branches a path has at most two members.       *)
branchWindows(recs, b) ==
    [x \in {b, Parent(recs, b)} \ {""} |->
        IF x = b THEN [after |-> ForkSequence(recs, b), until |-> 0]
                 ELSE [after |-> 0, until |-> ForkSequence(recs, b)]]

(* The sequences of the records visible on branch b.                       *)
EventsForBranch(recs, b) ==
    LET w == branchWindows(recs, b)
    IN {i \in DOMAIN recs :
            /\ recs[i].branch \in DOMAIN w
            /\ i > w[recs[i].branch].after
            /\ w[recs[i].branch].until > 0 => i <= w[recs[i].branch].until}

(* Snapshot.Archived: the last archive record counts.                      *)
ArchivedIn(recs) ==
    LET toggles == {i \in DOMAIN recs : recs[i].kind \in {"archived", "unarchived"}}
    IN toggles # {} /\ recs[CHOOSE i \in toggles : \A j \in toggles : j <= i].kind = "archived"

(* loadIndex: the threads the index names, in order of first appearance.   *)
OrderOf(recs) ==
    LET first == {i \in DOMAIN recs : \A j \in 1 .. i - 1 : recs[j].thread # recs[i].thread}
    IN [k \in 1 .. Cardinality(first) |->
            recs[CHOOSE i \in first : Cardinality({j \in first : j <= i}) = k].thread]
InIndex(t) == \E i \in DOMAIN rows[Index] : rows[Index][i].thread = t

-----------------------------------------------------------------------------
(* Starting and ending calls.                                              *)

Goto(c, l) == pc' = [pc EXCEPT ![c] = l]

Start(c, o, l) ==
    /\ pc[c] = "idle" /\ calls < MaxCalls
    /\ o.kind \in Kinds
    /\ calls' = calls + 1
    /\ op' = [op EXCEPT ![c] = o]
    /\ attempt' = [attempt EXCEPT ![c] = 1]
    /\ outcome' = [outcome EXCEPT ![c] = NoOutcome]
    /\ Goto(c, l)
    /\ UNCHANGED <<sqlVars, observed, page, view>>

Finish(c, r) ==
    /\ Goto(c, "idle")
    /\ outcome' = [outcome EXCEPT ![c] = [kind |-> r, of |-> op[c]]]
    /\ observed' = [observed EXCEPT ![c] = << >>]

(* The retry of a conflict: the call starts over at l until its attempts   *)
(* are used up, then returns the conflict.                                 *)
Retry(c, l) ==
    IF attempt[c] < ThreadRetries
    THEN /\ attempt' = [attempt EXCEPT ![c] = @ + 1]
         /\ Goto(c, l) /\ UNCHANGED <<outcome, observed>>
    ELSE Finish(c, "conflict") /\ UNCHANGED attempt

BeginCreate(c, t, b) ==
    Start(c, [kind |-> "create", n |-> calls + 1, thread |-> t, branch |-> b], "create")
BeginAppend(c, t, b) ==
    Start(c, [kind |-> "append", n |-> calls + 1, thread |-> t, branch |-> b,
              time |-> calls + 1], "append")
(* A caller that fixed the identifier of its record repeats a call that    *)
(* returned an error; if it did not fix the time too, Append takes the     *)
(* time of the new call.                                                   *)
RepeatAppend(c, fixed) ==
    /\ outcome[c].kind = "error" /\ outcome[c].of.kind = "append"
    /\ Start(c, [outcome[c].of EXCEPT !.time = IF fixed THEN @ ELSE calls + 1], "append")
BeginFork(c, t, from, to) ==
    Start(c, [kind |-> "fork", n |-> calls + 1, thread |-> t, branch |-> to, from |-> from],
          "fork")
BeginArchive(c, t, k) ==
    Start(c, [kind |-> k, n |-> calls + 1, thread |-> t], "archive")
(* due: the threads that exist and are not archived during the whole call. *)
BeginList(c) ==
    /\ pc[c] = "idle" /\ calls < MaxCalls /\ "list" \in Kinds
    /\ calls' = calls + 1
    /\ op' = [op EXCEPT ![c] = [kind |-> "list"]]
    /\ outcome' = [outcome EXCEPT ![c] = NoOutcome]
    /\ page' = [page EXCEPT ![c] = [NoPage EXCEPT !.due =
                   {t \in Threads : rows[t] # << >> /\ ~ArchivedIn(rows[t])}]]
    /\ Goto(c, "listIndex")
    /\ UNCHANGED <<sqlVars, attempt, observed, view>>

-----------------------------------------------------------------------------
(* Create.                                                                 *)

(* createOnce: the index must not name the thread; the creation goes to    *)
(* both streams in one batch.                                              *)
createOnce(c) ==
    LET o == op[c]
        rec(role) == Plain(o.n, role, "created", o.thread, o.branch)
    IN /\ pc[c] = "create"
       /\ IF InIndex(o.thread)
          THEN Finish(c, "exists") /\ UNCHANGED sqlVars
          ELSE /\ Submit(c, <<Request(o.thread, 0, <<rec("thread")>>),
                              Request(Index, Len(Load(Index)), <<rec("index")>>)>>)
               /\ Goto(c, "created") /\ UNCHANGED <<outcome, observed>>
       /\ UNCHANGED <<op, attempt, page, view, calls>>

(* Create after createOnce: a conflict on the index stream is retried; one *)
(* on the thread's own stream means another caller created it.             *)
CreateAnswered(c) ==
    LET a == answer[c]
    IN /\ pc[c] = "created" /\ Take(c)
       /\ CASE a.kind \in {"ok", "duplicate"} -> Finish(c, "ok") /\ UNCHANGED attempt
            [] a.kind = "error" -> Finish(c, "error") /\ UNCHANGED attempt
            [] a = Answer("conflict", Index) -> Retry(c, "create")
            [] OTHER -> /\ Finish(c, IF Load(op[c].thread) # << >> THEN "exists"
                                     ELSE "conflict")
                        /\ UNCHANGED attempt
       /\ UNCHANGED <<op, page, view, calls>>

-----------------------------------------------------------------------------
(* Append and Fork: the thread is loaded, then the record is appended at   *)
(* the sequence that was seen.                                             *)

AppendLoad(c) ==
    LET o == op[c]
        recs == Load(o.thread)
    IN /\ pc[c] = "append"
       /\ IF recs = << >> \/ o.branch \notin BranchesOf(recs)
          THEN Finish(c, "notfound") /\ UNCHANGED sqlVars
          ELSE /\ Submit(c, <<Request(o.thread, Len(recs),
                                <<Record(<<o.n, "thread">>, "event", o.thread, o.branch, "", 0,
                                         o.time)>>)>>)
               /\ observed' = [observed EXCEPT ![c] = recs]
               /\ Goto(c, "appended") /\ UNCHANGED outcome
       /\ UNCHANGED <<op, attempt, page, view, calls>>

(* recoverDuplicateAppend: the stored record with the identifier, if it is *)
(* the same logical record; the call then returns its sequence.            *)
recoverDuplicateAppend(c) ==
    {i \in DOMAIN Load(op[c].thread) :
        LET r == Load(op[c].thread)[i]
        IN r.id = <<op[c].n, "thread">> /\ r.branch = op[c].branch /\ r.time = op[c].time}

FinishAt(c, i) ==
    /\ Goto(c, "idle")
    /\ outcome' = [outcome EXCEPT ![c] = [kind |-> "ok", of |-> op[c], sequence |-> i]]
    /\ observed' = [observed EXCEPT ![c] = << >>]

(* Mutant: a duplicate is reported at the sequence that was expected.      *)
AppendAnswered_AssumesNew(c) ==
    LET a == answer[c]
    IN /\ pc[c] = "appended" /\ Take(c)
       /\ CASE a.kind \in {"ok", "duplicate"} ->
                 FinishAt(c, Len(observed[c]) + 1) /\ UNCHANGED attempt
            [] a.kind = "conflict" -> Retry(c, "append")
            [] a.kind = "error" -> Finish(c, "error") /\ UNCHANGED attempt
       /\ UNCHANGED <<op, page, view, calls>>

AppendAnswered(c) ==
    LET a == answer[c]
        known == recoverDuplicateAppend(c)
    IN /\ pc[c] = "appended" /\ Take(c)
       /\ CASE a.kind = "ok" -> FinishAt(c, Len(observed[c]) + 1) /\ UNCHANGED attempt
            [] a.kind = "duplicate" ->
                 /\ IF known = {} THEN Finish(c, "duplicate")
                                  ELSE \E i \in known : FinishAt(c, i)
                 /\ UNCHANGED attempt
            [] a.kind = "conflict" -> Retry(c, "append")
            [] a.kind = "error" -> Finish(c, "error") /\ UNCHANGED attempt
       /\ UNCHANGED <<op, page, view, calls>>

(* Mutant: an existing branch is not refused.                              *)
ForkLoad_IgnoresExisting(c) ==
    LET o == op[c]
        recs == Load(o.thread)
        rec == Record(<<o.n, "thread">>, "forked", o.thread, o.branch, o.from, Len(recs), o.n)
    IN /\ pc[c] = "fork"
       /\ IF recs = << >> \/ o.from \notin BranchesOf(recs)
          THEN Finish(c, "notfound") /\ UNCHANGED sqlVars
          ELSE /\ Submit(c, <<Request(o.thread, Len(recs), <<rec>>)>>)
               /\ Goto(c, "forked") /\ UNCHANGED <<outcome, observed>>
       /\ UNCHANGED <<op, attempt, page, view, calls>>

ForkLoad(c) ==
    LET o == op[c]
        recs == Load(o.thread)
        rec == Record(<<o.n, "thread">>, "forked", o.thread, o.branch, o.from, Len(recs), o.n)
    IN /\ pc[c] = "fork"
       /\ IF recs = << >> \/ o.from \notin BranchesOf(recs)
          THEN Finish(c, "notfound") /\ UNCHANGED sqlVars
          ELSE IF o.branch \in BranchesOf(recs)
          THEN Finish(c, "exists") /\ UNCHANGED sqlVars
          ELSE /\ Submit(c, <<Request(o.thread, Len(recs), <<rec>>)>>)
               /\ Goto(c, "forked") /\ UNCHANGED <<outcome, observed>>
       /\ UNCHANGED <<op, attempt, page, view, calls>>

ForkAnswered(c) ==
    /\ pc[c] = "forked" /\ Take(c)
    /\ CASE answer[c].kind = "ok" -> Finish(c, "ok") /\ UNCHANGED attempt
         [] answer[c].kind = "conflict" -> Retry(c, "fork")
         [] OTHER -> Finish(c, "error") /\ UNCHANGED attempt
    /\ UNCHANGED <<op, page, view, calls>>

-----------------------------------------------------------------------------
(* Archive and Unarchive: setArchivedOnce loads the thread and, after it,  *)
(* the index, and appends to both.                                         *)

ArchiveLoad(c) ==
    LET recs == Load(op[c].thread)
    IN /\ pc[c] = "archive"
       /\ CASE recs = << >> -> Finish(c, "notfound")
            [] recs # << >> /\ ArchivedIn(recs) = (op[c].kind = "archive") -> Finish(c, "ok")
            [] OTHER -> /\ observed' = [observed EXCEPT ![c] = recs]
                        /\ Goto(c, "archiveIndex") /\ UNCHANGED outcome
       /\ UNCHANGED <<sqlVars, op, attempt, page, view, calls>>

ArchiveAppend(c) ==
    LET o == op[c]
        kind == IF o.kind = "archive" THEN "archived" ELSE "unarchived"
        rec(role) == Plain(o.n, role, kind, o.thread, Main)
    IN /\ pc[c] = "archiveIndex"
       /\ Submit(c, <<Request(o.thread, Len(observed[c]), <<rec("thread")>>),
                      Request(Index, Len(Load(Index)), <<rec("index")>>)>>)
       /\ Goto(c, "archived")
       /\ UNCHANGED <<op, attempt, observed, page, outcome, view, calls>>

ArchiveAnswered(c) ==
    /\ pc[c] = "archived" /\ Take(c)
    /\ CASE answer[c].kind = "ok" -> Finish(c, "ok") /\ UNCHANGED attempt
         [] answer[c].kind = "conflict" -> Retry(c, "archive")
         [] OTHER -> Finish(c, "error") /\ UNCHANGED attempt
    /\ UNCHANGED <<op, page, view, calls>>

-----------------------------------------------------------------------------
(* listByReplay without IncludeArchived: the index, then thread by thread. *)

ListIndex(c) ==
    /\ pc[c] = "listIndex"
    /\ page' = [page EXCEPT ![c].left = OrderOf(Load(Index))]
    /\ Goto(c, "list")
    /\ UNCHANGED <<sqlVars, op, attempt, observed, outcome, view, calls>>

ListThread(c) ==
    LET left == page[c].left
        recs == Load(Head(left))
    IN /\ pc[c] = "list" /\ left # << >>
       /\ page' = [page EXCEPT
              ![c].left = Tail(left),
              ![c].threads = IF recs = << >> \/ ArchivedIn(recs) THEN @
                             ELSE @ \union {Head(left)}]
       /\ UNCHANGED <<sqlVars, op, pc, attempt, observed, outcome, view, calls>>

ListReturns(c) ==
    /\ pc[c] = "list" /\ page[c].left = << >>
    /\ Goto(c, "idle")
    /\ outcome' = [outcome EXCEPT ![c] = [kind |-> "listed", threads |-> page[c].threads,
                                          due |-> page[c].due]]
    /\ page' = [page EXCEPT ![c] = NoPage]
    /\ UNCHANGED <<sqlVars, op, attempt, observed, view, calls>>

-----------------------------------------------------------------------------
(* The projected index.                                                    *)

(* Project: the state of every thread after the records recs of the index. *)
Project(entries, recs) ==
    [t \in Threads |->
        LET own == {i \in DOMAIN recs : recs[i].thread = t}
            archival == {i \in own : recs[i].kind \in {"archived", "unarchived"}}
        IN CASE own = {} -> entries[t]
             [] own # {} /\ archival = {} ->
                  IF entries[t] = "absent" THEN "active" ELSE entries[t]
             [] OTHER -> IF recs[CHOOSE i \in archival : \A j \in archival : j <= i].kind
                            = "archived"
                         THEN "archived" ELSE "active"]

(* EnsureFresh starts with an empty last checkpoint.                       *)
BeginEnsureFresh ==
    /\ ~view.running /\ calls < MaxCalls /\ "project" \in Kinds
    /\ calls' = calls + 1
    /\ view' = [view EXCEPT !.running = TRUE, !.last = << >>, !.since = Len(rows[Index])]
    /\ UNCHANGED <<sqlVars, op, pc, attempt, observed, page, outcome>>

(* Mutant: a batch that is not full counts as fresh.                       *)
RunOnce_PartialBatch ==
    LET recs == Load(Index)
        upto == view.checkpoint + (IF BatchSize = 0 THEN Len(recs) ELSE BatchSize)
        next == IF upto < Len(recs) THEN upto ELSE Len(recs)
    IN /\ view.running
       /\ view' = [view EXCEPT
             !.entries = Project(@, SubSeq(recs, view.checkpoint + 1, next)),
             !.checkpoint = next,
             !.last = <<next>>,
             !.running = FALSE]
       /\ UNCHANGED <<sqlVars, op, pc, attempt, observed, page, outcome, calls>>

(* One round of EnsureFresh: RunOnce loads at most BatchSize records after *)
(* the checkpoint (all when BatchSize is 0), projects them and saves the   *)
(* checkpoint; a round that does not move the checkpoint ends the call.    *)
RunOnce ==
    LET recs == Load(Index)
        upto == view.checkpoint + (IF BatchSize = 0 THEN Len(recs) ELSE BatchSize)
        next == IF upto < Len(recs) THEN upto ELSE Len(recs)
    IN /\ view.running
       /\ view' = [view EXCEPT
             !.entries = Project(@, SubSeq(recs, view.checkpoint + 1, next)),
             !.checkpoint = next,
             !.last = <<next>>,
             !.running = <<next>> # view.last]
       /\ UNCHANGED <<sqlVars, op, pc, attempt, observed, page, outcome, calls>>

-----------------------------------------------------------------------------
Init ==
    /\ SqlInit
    /\ op = [c \in Callers |-> NoOp]
    /\ pc = [c \in Callers |-> "idle"]
    /\ attempt = [c \in Callers |-> 0]
    /\ observed = [c \in Callers |-> << >>]
    /\ page = [c \in Callers |-> NoPage]
    /\ outcome = [c \in Callers |-> NoOutcome]
    /\ view = [entries |-> [t \in Threads |-> "absent"], checkpoint |-> 0, last |-> << >>,
               since |-> 0, running |-> FALSE]
    /\ calls = 0

Begin(c) ==
    \/ \E t \in Threads, b \in Branches : BeginCreate(c, t, b)
    \/ \E t \in Threads, b \in Branches : BeginAppend(c, t, b)
    \/ \E fixed \in BOOLEAN : RepeatAppend(c, fixed)
    \/ \E t \in Threads, from, to \in Branches : BeginFork(c, t, from, to)
    \/ \E t \in Threads, k \in {"archive", "unarchive"} : BeginArchive(c, t, k)
    \/ BeginList(c)

(* A call of c goes on.                                                    *)
Continue(c) ==
    \/ createOnce(c)
    \/ CreateAnswered(c)
    \/ AppendLoad(c)
    \/ AppendAnswered(c)
    \/ ForkLoad(c)
    \/ ForkAnswered(c)
    \/ ArchiveLoad(c)
    \/ ArchiveAppend(c)
    \/ ArchiveAnswered(c)
    \/ ListIndex(c)
    \/ ListThread(c)
    \/ ListReturns(c)

(* A thread that gets archived is no longer due to the lists under way.    *)
StoreStep(c) ==
    /\ AppendBatchStep(c)
    /\ page' = [d \in Callers |->
                   [page[d] EXCEPT !.due = {t \in @ : ~ArchivedIn(rows'[t])}]]
    /\ UNCHANGED <<op, pc, attempt, observed, outcome, view, calls>>

Next ==
    \/ \E c \in Callers : Begin(c) \/ Continue(c) \/ StoreStep(c)
    \/ BeginEnsureFresh
    \/ RunOnce

Spec == Init /\ [][Next]_vars

-----------------------------------------------------------------------------
(* Properties.                                                             *)

Statuses == {"none", "ok", "exists", "notfound", "conflict", "duplicate", "error", "listed"}

(* Every variable has its type; a transaction has exactly one owner, who   *)
(* is inserting.                                                           *)
TypeOK ==
    /\ \A s \in Streams : \A i \in DOMAIN rows[s] : rows[s][i].id \in Ids
    /\ writer \in Callers \union {NoWriter}
    /\ \A c \in Callers : at[c] = "insert" <=> writer = c
    /\ writer = NoWriter => staged = rows
    /\ \A c \in Callers : outcome[c].kind \in Statuses
    /\ faults \in 0 .. MaxFaults /\ calls \in 0 .. MaxCalls
    /\ attempt \in [Callers -> 0 .. ThreadRetries]
    /\ tries \in [Callers -> 0 .. SqliteAttempts]

(* The two streams a thread is written to agree: the index names exactly   *)
(* the threads that have records, says of each whether it is archived, and *)
(* a thread has one creation record, its first.                            *)
StreamsAgree ==
    /\ \A t \in Threads :
          /\ (rows[t] # << >>) <=> InIndex(t)
          /\ \A i \in DOMAIN rows[t] : rows[t][i].kind = "created" <=> i = 1
          /\ ArchivedIn(rows[t])
               <=> Project([x \in Threads |-> "absent"], rows[Index])[t] = "archived"

(* Archiving is idempotent: no two archive records of a thread say the     *)
(* same, however the calls interleave.                                     *)
ArchivalAlternates ==
    \A t \in Threads : \A i, j \in DOMAIN rows[t] :
        /\ i < j
        /\ rows[t][i].kind \in {"archived", "unarchived"}
        /\ \A k \in i + 1 .. j - 1 : rows[t][k].kind \notin {"archived", "unarchived"}
        => rows[t][i].kind # rows[t][j].kind

(* The thread streams and the index tell one story, archival included.     *)
IndexAgrees == StreamsAgree /\ ArchivalAlternates

Stored(o) == \E i \in DOMAIN rows[o.thread] : rows[o.thread][i].id = <<o.n, "thread">>

(* What a call reports is so: a success has its record in the thread, a    *)
(* refused creation or fork left none and has met another one's, and the   *)
(* sequence an append returns is the one its record has, also when the     *)
(* record was stored by an earlier call that returned an error.            *)
OutcomeIsTrue ==
    \A c \in Callers :
        LET r == outcome[c]
        IN /\ r.kind = "ok" /\ r.of.kind \in {"create", "append", "fork"} => Stored(r.of)
           /\ r.kind \in {"exists", "notfound", "conflict"} =>
                 ~Stored(r.of) \/ r.of.kind = "append"
           /\ r.kind = "exists" => rows[r.of.thread] # << >>
           /\ r.kind = "ok" /\ r.of.kind = "append" =>
                 \E i \in DOMAIN rows[r.of.thread] :
                    i = r.sequence /\ rows[r.of.thread][i].id = <<r.of.n, "thread">>

(* Conflicts alone never fail a call: a call that starts over for every    *)
(* record that was committed in between ends before its attempts are used  *)
(* up, when there are more attempts than other calls.                      *)
NoCallStarves ==
    ThreadRetries >= MaxCalls => \A c \in Callers : outcome[c].kind # "conflict"

(* Calls tell the truth about what they did, and conflicts never end them. *)
CallsTellTruth == OutcomeIsTrue /\ NoCallStarves

(* The history of a branch only grows at its end, and a new branch starts  *)
(* with the history its parent has at that point.                          *)
HistoryIsStable ==
    [][\A t \in Threads :
          /\ \A b \in BranchesOf(rows[t]) :
                rows[t] # << >> =>
                EventsForBranch(rows'[t], b) \intersect (1 .. Len(rows[t]))
                    = EventsForBranch(rows[t], b)
          /\ \A b \in BranchesOf(rows'[t]) \ BranchesOf(rows[t]) :
                Parent(rows'[t], b) # "" =>
                EventsForBranch(rows'[t], b)
                    = EventsForBranch(rows[t], Parent(rows'[t], b)) \union {Len(rows'[t])}]_rows

(* List returns every thread that existed when it began and was archived   *)
(* at no time since, although it reads stream after stream.                *)
ListIsComplete ==
    \A c \in Callers : outcome[c].kind = "listed" => outcome[c].due \subseteq outcome[c].threads

(* When EnsureFresh has returned, the projected index reflects every       *)
(* record that was in the index stream when it was called.                 *)
ViewIsFresh ==
    ~view.running => view.checkpoint >= view.since
                     /\ view.entries = Project([t \in Threads |-> "absent"],
                                               SubSeq(rows[Index], 1, view.checkpoint))

(* A list and the projected index miss nothing that was there when they    *)
(* were asked.                                                             *)
ReadsAreComplete == ListIsComplete /\ ViewIsFresh
=============================================================================
