-------------------------- MODULE ThreadStoreProofs --------------------------
(***************************************************************************)
(* Proofs about ThreadStore on SqliteEventStore, for every set of callers  *)
(* and threads, every retry count, batch size and bound.                   *)
(***************************************************************************)
EXTENDS ThreadStore, FiniteSetTheorems, WellFoundedInduction, TLAPS

Roles == {"thread", "index"}
Toggles == {"archived", "unarchived"}
NoBranch == ""

RecordType ==
    [id : (1 .. MaxCalls) \X Roles, kind : {"created", "event", "forked"} \union Toggles,
     thread : Threads, branch : Branches, from : Branches \union {NoBranch}, fork : Nat,
     time : Nat]

CreateOp == [kind : {"create"}, n : 1 .. MaxCalls, thread : Threads, branch : Branches]
AppendOp == [kind : {"append"}, n : 1 .. MaxCalls, thread : Threads, branch : Branches,
             time : Nat]
ForkOp == [kind : {"fork"}, n : 1 .. MaxCalls, thread : Threads, branch : Branches,
           from : Branches]
ArchiveOp == [kind : {"archive", "unarchive"}, n : 1 .. MaxCalls, thread : Threads]
WriteOp == CreateOp \union AppendOp \union ForkOp \union ArchiveOp
ReadOp == [kind : {"list"}] \union {NoOp}

Loading == {"create", "append", "fork", "archive", "archiveIndex"}
Waiting == {"created", "appended", "forked", "archived"}
Listing == {"listIndex", "list"}

AnswerType == [kind : {"none", "ok", "duplicate", "conflict", "error"},
               stream : Streams \union {""}]
PageType == [left : Seq(Threads), threads : SUBSET Threads, due : SUBSET Threads]
EntryType == {"absent", "active", "archived"}
ViewType == [entries : [Threads -> EntryType], checkpoint : Nat, last : Seq(Nat),
             since : Nat, running : BOOLEAN]

(* The calls whose record is in a thread.                                  *)
CommittedIn(st) ==
    {k \in 1 .. MaxCalls : \E t \in Threads : \E i \in DOMAIN st[t] : st[t][i].id = <<k, "thread">>}
Committed == CommittedIn(rows)

Types ==
    /\ rows \in [Streams -> Seq(RecordType)]
    /\ writer \in Callers \union {NoWriter}
    /\ at \in [Callers -> {"idle", "begin", "insert", "answered"}]
    /\ tries \in [Callers -> 0 .. SqliteAttempts]
    /\ answer \in [Callers -> AnswerType]
    /\ faults \in 0 .. MaxFaults
    /\ batch = [c \in Callers |-> batch[c]]
    /\ op \in [Callers -> WriteOp \union ReadOp]
    /\ pc \in [Callers -> {"idle"} \union Loading \union Waiting \union Listing]
    /\ attempt \in [Callers -> 0 .. ThreadRetries]
    /\ observed \in [Callers -> Seq(RecordType)]
    /\ page \in [Callers -> PageType]
    /\ outcome = [c \in Callers |-> outcome[c]]
    /\ view \in ViewType
    /\ calls \in 0 .. MaxCalls

(* The identifiers of stored records tell which call stored them, and in   *)
(* which role; the only branch that is ever forked is Alt, from Main.      *)
RowsOK ==
    /\ \A s \in Streams : \A i \in DOMAIN rows[s] :
          /\ rows[s][i].id[1] <= calls
          /\ rows[s][i].id[2] = IF s = Index THEN "index" ELSE "thread"
          /\ rows[s][i].id[1] \in Committed
          /\ \A j \in DOMAIN rows[s] : rows[s][i].id = rows[s][j].id => i = j
    /\ \A t \in Threads : \A i \in DOMAIN rows[t] :
          rows[t][i].kind = "forked" => rows[t][i].branch = Alt /\ rows[t][i].from = Main

(* Every call is where its kind allows, and has a number of its own.       *)
CallOK(c) ==
    /\ pc[c] \in {"create", "created"} => op[c] \in CreateOp
    /\ pc[c] \in {"append", "appended"} => op[c] \in AppendOp
    /\ pc[c] \in {"fork", "forked"} => op[c] \in ForkOp
    /\ pc[c] \in {"archive", "archiveIndex", "archived"} => op[c] \in ArchiveOp
    /\ op[c] \in WriteOp => op[c].n <= calls
    /\ pc[c] \in Waiting <=> at[c] # "idle"
    /\ pc[c] \in Loading \union Waiting => attempt[c] >= 1

NumbersOK ==
    \A c, d \in Callers :
        op[c] \in WriteOp /\ op[d] \in WriteOp /\ op[c].n = op[d].n => c = d

(* One caller at a time holds the write transaction.                       *)
LockOK ==
    /\ \A c \in Callers : at[c] = "insert" <=> writer = c
    /\ writer = NoWriter => staged = rows

(* The records a waiting call has submitted, for n records seen.           *)
Two(c) == pc[c] \in {"created", "archived"}
NewKind(c) == IF op[c].kind = "create" THEN "created"
              ELSE IF op[c].kind = "archive" THEN "archived" ELSE "unarchived"
NewBranch(c) == IF op[c].kind = "create" THEN op[c].branch ELSE Main
ThreadRecord(c, n) ==
    IF pc[c] = "appended"
    THEN Record(<<op[c].n, "thread">>, "event", op[c].thread, op[c].branch, "", 0, op[c].time)
    ELSE IF pc[c] = "forked"
    THEN Record(<<op[c].n, "thread">>, "forked", op[c].thread, op[c].branch, op[c].from, n, op[c].n)
    ELSE Plain(op[c].n, "thread", NewKind(c), op[c].thread, NewBranch(c))
IndexRecord(c) == Plain(op[c].n, "index", NewKind(c), op[c].thread, NewBranch(c))

First(c, n) == Request(op[c].thread, n, <<ThreadRecord(c, n)>>)
Second(c, m) == Request(Index, m, <<IndexRecord(c)>>)
PutFirst(c, n) == [rows EXCEPT ![op[c].thread] = @ \o <<ThreadRecord(c, n)>>]
PutBoth(c, n) == [PutFirst(c, n) EXCEPT ![Index] = @ \o <<IndexRecord(c)>>]

(* What a call found in the records it loaded.                             *)
Found(c, recs) ==
    /\ pc[c] = "created" => recs = << >>
    /\ pc[c] # "created" => recs # << >>
    /\ pc[c] = "appended" => op[c].branch \in BranchesOf(recs)
    /\ pc[c] = "forked" => op[c].from \in BranchesOf(recs) /\ op[c].branch \notin BranchesOf(recs)
    /\ pc[c] \in {"archiveIndex", "archived"} => ArchivedIn(recs) # (op[c].kind = "archive")

(* The sequences n and m a call expects: what it found still holds when    *)
(* the thread has no newer record.                                         *)
Expects(c, n, m) ==
    /\ n <= Len(rows[op[c].thread]) /\ m <= Len(rows[Index])
    /\ n = Len(rows[op[c].thread]) => Found(c, rows[op[c].thread])
    /\ pc[c] = "created" => n = 0
    /\ pc[c] \in {"appended", "archived"} => n = Len(observed[c])
    /\ \/ n < Len(rows[op[c].thread])
       \/ Two(c) /\ m < Len(rows[Index])
       => attempt[c] <= Cardinality(Committed)

(* How far the transaction of c is.                                        *)
Untouched(c, n, m) ==
    batch[c] = IF Two(c) THEN <<First(c, n), Second(c, m)>> ELSE <<First(c, n)>>
Accepted(c, n) ==
    n = Len(rows[op[c].thread]) /\ op[c].n \notin Committed
Progress(c, n, m) ==
    \/ at[c] = "begin" /\ Untouched(c, n, m)
    \/ at[c] = "insert" /\ Untouched(c, n, m) /\ staged = rows
    \/ /\ at[c] = "insert" /\ Two(c) /\ Accepted(c, n)
       /\ batch[c] = <<Second(c, m)>> /\ staged = PutFirst(c, n)
    \/ /\ at[c] = "insert" /\ Two(c) /\ Accepted(c, n) /\ m = Len(rows[Index])
       /\ batch[c] = << >> /\ staged = PutBoth(c, n)
    \/ /\ at[c] = "insert" /\ ~Two(c) /\ Accepted(c, n)
       /\ batch[c] = << >> /\ staged = PutFirst(c, n)

TransactionOK(c) ==
    at[c] \in {"begin", "insert"} =>
        \E n, m \in Nat : Expects(c, n, m) /\ Progress(c, n, m)

(* A call that is not settled has not stored its record, unless it repeats *)
(* an append; the number of the repeated call is then never used.          *)
Unsettled(c) ==
    \/ pc[c] \in Loading
    \/ at[c] \in {"begin", "insert"}
    \/ at[c] = "answered" /\ answer[c].kind \in {"conflict", "duplicate"}
Unused(k) ==
    /\ k \in 1 .. calls /\ k \notin Committed
    /\ \A d \in Callers : op[d] \in WriteOp => op[d].n # k
UnsettledOK(c) ==
    Unsettled(c) /\ op[c].n \in Committed =>
        op[c] \in AppendOp /\ \E k \in 1 .. calls : Unused(k)

(* Every attempt after the first was made necessary by another record.     *)
AttemptOK(c) ==
    /\ pc[c] \in Loading \union Waiting => attempt[c] - 1 <= Cardinality(Committed)
    /\ pc[c] = "archiveIndex" =>
          /\ Len(observed[c]) <= Len(rows[op[c].thread])
          /\ Len(observed[c]) = Len(rows[op[c].thread]) => Found(c, rows[op[c].thread])
          /\ Len(observed[c]) < Len(rows[op[c].thread]) =>
                attempt[c] <= Cardinality(Committed)

StoredAt(c, i) == rows[op[c].thread][i].id = <<op[c].n, "thread">>

AnswerOK(c) ==
    at[c] = "answered" =>
        /\ answer[c].kind # "none"
        /\ answer[c].kind = "ok" =>
              \E i \in DOMAIN rows[op[c].thread] :
                  StoredAt(c, i) /\ (pc[c] = "appended" => i = Len(observed[c]) + 1)
        /\ answer[c].kind = "conflict" =>
              /\ attempt[c] <= Cardinality(Committed)
              /\ answer[c].stream \in {op[c].thread, Index}
              /\ pc[c] = "created" /\ answer[c].stream = op[c].thread =>
                    rows[op[c].thread] # << >>
        /\ answer[c].kind = "duplicate" => pc[c] = "appended"

(* What the outcome r of the call o says is so.                            *)
OutcomeHolds(r, o) ==
    /\ r.kind \in {"ok", "exists", "notfound", "conflict", "duplicate", "error"}
    /\ r.of = o /\ o \in WriteOp
    /\ r.kind = "ok" /\ o \notin ArchiveOp =>
          \E i \in DOMAIN rows[o.thread] :
              rows[o.thread][i].id = <<o.n, "thread">> /\ (o \in AppendOp => i = r.sequence)
    /\ r.kind \in {"exists", "notfound", "conflict"} /\ o \notin AppendOp => o.n \notin Committed
    /\ r.kind = "exists" => rows[o.thread] # << >>
    /\ r.kind = "conflict" => ThreadRetries < MaxCalls
OutcomeOK(c) ==
    \/ outcome[c] = NoOutcome
    \/ outcome[c].kind = "listed" /\ outcome[c].due \subseteq outcome[c].threads
    \/ pc[c] = "idle" /\ OutcomeHolds(outcome[c], op[c])

CallerOK(c) ==
    /\ CallOK(c) /\ TransactionOK(c) /\ UnsettledOK(c)
    /\ AttemptOK(c) /\ AnswerOK(c) /\ OutcomeOK(c)

(* The threads a list owes: those it has collected or still visits.        *)
PageOK(c) ==
    /\ pc[c] \in Listing =>
          \A t \in page[c].due : rows[t] # << >> /\ ~ArchivedIn(rows[t])
    /\ pc[c] = "list" =>
          \A t \in page[c].due : t \in page[c].threads
                                 \/ \E i \in DOMAIN page[c].left : page[c].left[i] = t

Absent == [t \in Threads |-> "absent"]
ViewOK ==
    /\ view.checkpoint <= Len(rows[Index]) /\ view.since <= Len(rows[Index])
    /\ view.entries = Project(Absent, SubSeq(rows[Index], 1, view.checkpoint))
    /\ view.last \in {<< >>, <<view.checkpoint>>}
    /\ ~view.running => view.checkpoint >= view.since

Inv ==
    /\ Types /\ RowsOK /\ IndexAgrees /\ NumbersOK /\ LockOK
    /\ \A c \in Callers : CallerOK(c)
    /\ \A c \in Callers : PageOK(c)
    /\ ViewOK

-----------------------------------------------------------------------------
(* The last element of a set of positions.                                 *)

LEMMA LeastOfNaturals ==
    ASSUME NEW S \in SUBSET Nat, S # {}
    PROVE  \E m \in S : \A k \in S : m <= k
<1>1. PICK R : R = OpToRel(<, Nat)
  OBVIOUS
<1>2. IsWellFoundedOn(R, Nat)
  BY <1>1, NatLessThanWellFounded
<1>3. PICK m \in S : \A k \in S : ~(<<k, m>> \in R)
  BY <1>2, WFMin
<1>4. ASSUME NEW k \in S PROVE m <= k
  <2>1. <<k, m>> \in R <=> k < m
    BY <1>1 DEF OpToRel
  <2>2. m \in Nat /\ k \in Nat
    OBVIOUS
  <2> QED BY <1>3, <2>1, <2>2
<1> QED BY <1>4

LEMMA GreatestPosition ==
    ASSUME NEW n \in Nat, NEW S \in SUBSET (1 .. n), S # {}
    PROVE  \E m \in S : \A k \in S : k <= m
<1>1. PICK T : T = {n - k : k \in S}
  OBVIOUS
<1>2. T \in SUBSET Nat
  BY <1>1
<1>3. T # {}
  BY <1>1
<1>4. PICK m \in T : \A k \in T : m <= k
  BY <1>2, <1>3, LeastOfNaturals
<1>5. PICK x \in S : m = n - x
  BY <1>1
<1>6. ASSUME NEW k \in S PROVE k <= x
  <2>1. n - k \in T
    BY <1>1
  <2>2. m <= n - k
    BY <2>1, <1>4
  <2> QED BY <2>2, <1>5
<1> QED BY <1>6

(* The element CHOOSE picks as the last one.                               *)
LEMMA ChosenLast ==
    ASSUME NEW n \in Nat, NEW S \in SUBSET (1 .. n), S # {},
           NEW m, m = CHOOSE i \in S : \A j \in S : j <= i
    PROVE  m \in S /\ \A j \in S : j <= m
BY GreatestPosition

-----------------------------------------------------------------------------
(* Archival.                                                               *)

TogglesIn(recs) == {i \in DOMAIN recs : recs[i].kind \in Toggles}

(* The last archive record decides.                                        *)
LEMMA ArchivedByLast ==
    ASSUME NEW recs \in Seq(RecordType)
    PROVE  /\ ArchivedIn(recs) \in BOOLEAN
           /\ TogglesIn(recs) = {} => ~ArchivedIn(recs)
           /\ \A i \in TogglesIn(recs) :
                 (\A j \in TogglesIn(recs) : j <= i) =>
                     (ArchivedIn(recs) <=> recs[i].kind = "archived")
<1>1. PICK S : S = TogglesIn(recs)
  OBVIOUS
<1>2. ArchivedIn(recs) <=> (S # {} /\ recs[CHOOSE i \in S : \A j \in S : j <= i].kind = "archived")
  BY <1>1 DEF ArchivedIn, TogglesIn, Toggles
<1>3. S = {} => ~ArchivedIn(recs)
  BY <1>2
<1>4. ASSUME NEW i \in S, \A j \in S : j <= i
      PROVE  ArchivedIn(recs) <=> recs[i].kind = "archived"
  <2>1. PICK m : m = CHOOSE x \in S : \A j \in S : j <= x
    OBVIOUS
  <2>2. S \in SUBSET (1 .. Len(recs)) /\ Len(recs) \in Nat
    BY <1>1 DEF TogglesIn
  <2>3. m \in S /\ \A j \in S : j <= m
    BY <2>1, <2>2, <1>4, ChosenLast
  <2>4. m = i
    <3>1. m <= i /\ i <= m /\ m \in Nat /\ i \in Nat
      BY <2>2, <2>3, <1>4
    <3> QED BY <3>1
  <2> QED BY <2>1, <2>4, <1>2, <1>4
<1>5. ArchivedIn(recs) \in BOOLEAN
  BY DEF ArchivedIn
<1> QED BY <1>1, <1>3, <1>4, <1>5

LEMMA ArchivedInExtended ==
    ASSUME NEW recs \in Seq(RecordType), NEW r \in RecordType
    PROVE  ArchivedIn(recs \o <<r>>)
             <=> IF r.kind \in Toggles THEN r.kind = "archived" ELSE ArchivedIn(recs)
<1>1. PICK q : q = recs \o <<r>>
  OBVIOUS
<1>2. /\ q \in Seq(RecordType) /\ Len(q) = Len(recs) + 1 /\ q[Len(recs) + 1] = r
      /\ Len(recs) \in Nat /\ \A i \in 1 .. Len(recs) : q[i] = recs[i]
  BY <1>1
<1>3. CASE r.kind \in Toggles
  <2>1. Len(q) \in TogglesIn(q) /\ \A j \in TogglesIn(q) : j <= Len(q)
    BY <1>2, <1>3 DEF TogglesIn
  <2> QED BY <2>1, <1>1, <1>2, <1>3, ArchivedByLast
<1>4. CASE r.kind \notin Toggles
  <2>1. TogglesIn(q) = TogglesIn(recs)
    BY <1>2, <1>4 DEF TogglesIn
  <2>2. CASE TogglesIn(recs) = {}
    BY <2>1, <2>2, <1>1, <1>2, <1>4, ArchivedByLast
  <2>3. CASE TogglesIn(recs) # {}
    <3>1. TogglesIn(recs) \in SUBSET (1 .. Len(recs))
      BY DEF TogglesIn
    <3>2. PICK i \in TogglesIn(recs) : \A j \in TogglesIn(recs) : j <= i
      BY <3>1, <2>3, <1>2, GreatestPosition
    <3>3. q[i] = recs[i]
      BY <3>1, <3>2, <1>2
    <3>4. ArchivedIn(recs) <=> recs[i].kind = "archived"
      BY <3>2, ArchivedByLast
    <3>5. ArchivedIn(q) <=> q[i].kind = "archived"
      BY <3>2, <2>1, <1>2, ArchivedByLast
    <3> QED BY <3>3, <3>4, <3>5, <1>1, <1>4
  <2> QED BY <2>2, <2>3
<1> QED BY <1>3, <1>4

LEMMA ArchivedInEmpty == ~ArchivedIn(<< >>)
BY DEF ArchivedIn

-----------------------------------------------------------------------------
(* The projected index.                                                    *)

OwnIn(recs, t) == {i \in DOMAIN recs : recs[i].thread = t}
ArchivalIn(recs, t) == {i \in OwnIn(recs, t) : recs[i].kind \in Toggles}
EntryOf(k) == IF k = "archived" THEN "archived" ELSE "active"
Seen(e) == IF e = "absent" THEN "active" ELSE e

LEMMA ProjectByLast ==
    ASSUME NEW recs \in Seq(RecordType), NEW e, NEW t \in Threads
    PROVE  /\ OwnIn(recs, t) = {} => Project(e, recs)[t] = e[t]
           /\ OwnIn(recs, t) # {} /\ ArchivalIn(recs, t) = {} =>
                 Project(e, recs)[t] = Seen(e[t])
           /\ \A i \in ArchivalIn(recs, t) :
                 (\A j \in ArchivalIn(recs, t) : j <= i) =>
                     Project(e, recs)[t] = EntryOf(recs[i].kind)
<1>1. PICK O : O = OwnIn(recs, t)
  OBVIOUS
<1>2. PICK A : A = ArchivalIn(recs, t)
  OBVIOUS
<1>3. A \subseteq O
  BY <1>1, <1>2 DEF ArchivalIn
<1>4. Project(e, recs)[t]
        = CASE O = {} -> e[t]
            [] O # {} /\ A = {} -> IF e[t] = "absent" THEN "active" ELSE e[t]
            [] OTHER -> IF recs[CHOOSE i \in A : \A j \in A : j <= i].kind = "archived"
                        THEN "archived" ELSE "active"
  BY <1>1, <1>2 DEF Project, OwnIn, ArchivalIn, Toggles
<1>5. O = {} => Project(e, recs)[t] = e[t]
  BY <1>4
<1>6. O # {} /\ A = {} => Project(e, recs)[t] = Seen(e[t])
  BY <1>4 DEF Seen
<1>7. ASSUME NEW i \in A, \A j \in A : j <= i
      PROVE  Project(e, recs)[t] = EntryOf(recs[i].kind)
  <2>1. PICK m : m = CHOOSE x \in A : \A j \in A : j <= x
    OBVIOUS
  <2>2. A \in SUBSET (1 .. Len(recs)) /\ Len(recs) \in Nat
    BY <1>2 DEF ArchivalIn, OwnIn
  <2>3. m \in A /\ \A j \in A : j <= m
    BY <2>1, <2>2, <1>7, ChosenLast
  <2>4. m <= i /\ i <= m /\ m \in Nat /\ i \in Nat
    BY <2>2, <2>3, <1>7
  <2>5. m = i
    BY <2>4
  <2>6. ~(O = {}) /\ ~(O # {} /\ A = {})
    BY <1>3, <1>7
  <2>7. Project(e, recs)[t] = IF recs[m].kind = "archived" THEN "archived" ELSE "active"
    BY <1>4, <2>1, <2>6
  <2> QED BY <2>5, <2>7 DEF EntryOf
<1> QED BY <1>1, <1>2, <1>5, <1>6, <1>7

LEMMA ProjectType ==
    ASSUME NEW recs \in Seq(RecordType), NEW e \in [Threads -> EntryType]
    PROVE  Project(e, recs) \in [Threads -> EntryType]
<1>1. ASSUME NEW t \in Threads PROVE Project(e, recs)[t] \in EntryType
  <2>1. e[t] \in EntryType /\ Seen(e[t]) \in EntryType /\ \A k : EntryOf(k) \in EntryType
    BY DEF EntryType, Seen, EntryOf
  <2>2. ArchivalIn(recs, t) \in SUBSET (1 .. Len(recs)) /\ Len(recs) \in Nat
    BY DEF ArchivalIn, OwnIn
  <2>3. CASE ArchivalIn(recs, t) # {}
    <3>1. PICK i \in ArchivalIn(recs, t) : \A j \in ArchivalIn(recs, t) : j <= i
      BY <2>2, <2>3, GreatestPosition
    <3> QED BY <3>1, <2>1, ProjectByLast
  <2>4. CASE ArchivalIn(recs, t) = {}
    BY <2>4, <2>1, ProjectByLast
  <2> QED BY <2>3, <2>4
<1>2. Project(e, recs) = [t \in Threads |-> Project(e, recs)[t]]
  BY DEF Project
<1> QED BY <1>1, <1>2

(* Projecting in two rounds is projecting at once.                         *)
LEMMA ProjectInRounds ==
    ASSUME NEW p \in Seq(RecordType), NEW q \in Seq(RecordType), NEW e
    PROVE  Project(e, p \o q) = Project(Project(e, p), q)
<1>1. PICK w : w = p \o q
  OBVIOUS
<1>2. /\ w \in Seq(RecordType) /\ Len(w) = Len(p) + Len(q)
      /\ Len(p) \in Nat /\ Len(q) \in Nat
      /\ \A i \in 1 .. Len(p) : w[i] = p[i]
      /\ \A i \in 1 .. Len(q) : w[Len(p) + i] = q[i]
  BY <1>1
<1>3. ASSUME NEW t \in Threads PROVE Project(e, w)[t] = Project(Project(e, p), q)[t]
  <2>1. PICK f : f = Project(e, p)
    OBVIOUS
  <2>2. /\ \A i \in OwnIn(p, t) : i \in OwnIn(w, t)
        /\ \A i \in ArchivalIn(p, t) : i \in ArchivalIn(w, t)
        /\ \A i \in OwnIn(q, t) : Len(p) + i \in OwnIn(w, t)
        /\ \A i \in ArchivalIn(q, t) : Len(p) + i \in ArchivalIn(w, t)
    <3>1. ASSUME NEW i \in 1 .. Len(p)
          PROVE  /\ i \in OwnIn(p, t) => i \in OwnIn(w, t)
                 /\ i \in ArchivalIn(p, t) => i \in ArchivalIn(w, t)
      <4>1. i \in 1 .. Len(w) /\ w[i] = p[i]
        BY <1>2
      <4> QED BY <4>1, <1>2 DEF OwnIn, ArchivalIn
    <3>2. ASSUME NEW i \in 1 .. Len(q)
          PROVE  /\ i \in OwnIn(q, t) => Len(p) + i \in OwnIn(w, t)
                 /\ i \in ArchivalIn(q, t) => Len(p) + i \in ArchivalIn(w, t)
      <4>1. Len(p) + i \in 1 .. Len(w) /\ w[Len(p) + i] = q[i]
        BY <1>2
      <4> QED BY <4>1, <1>2 DEF OwnIn, ArchivalIn
    <3>3. /\ OwnIn(p, t) \subseteq 1 .. Len(p) /\ ArchivalIn(p, t) \subseteq 1 .. Len(p)
          /\ OwnIn(q, t) \subseteq 1 .. Len(q) /\ ArchivalIn(q, t) \subseteq 1 .. Len(q)
      BY DEF OwnIn, ArchivalIn
    <3> QED BY <3>1, <3>2, <3>3
  <2>3. /\ \A i \in OwnIn(w, t) : i \in OwnIn(p, t) \/ i - Len(p) \in OwnIn(q, t)
        /\ \A i \in ArchivalIn(w, t) : i \in ArchivalIn(p, t) \/ i - Len(p) \in ArchivalIn(q, t)
    <3>1. ASSUME NEW i \in 1 .. Len(w)
          PROVE  \/ i \in 1 .. Len(p) /\ w[i] = p[i]
                 \/ i - Len(p) \in 1 .. Len(q) /\ w[i] = q[i - Len(p)]
      <4>1. CASE i <= Len(p)
        BY <4>1, <1>2
      <4>2. CASE i > Len(p)
        <5>1. i - Len(p) \in 1 .. Len(q) /\ Len(p) + (i - Len(p)) = i
          BY <4>2, <1>2
        <5> QED BY <5>1, <1>2
      <4> QED BY <4>1, <4>2, <1>2
    <3>2. ASSUME NEW i \in OwnIn(w, t) PROVE i \in OwnIn(p, t) \/ i - Len(p) \in OwnIn(q, t)
      <4>1. i \in 1 .. Len(w) /\ w[i].thread = t
        BY <1>2 DEF OwnIn
      <4> QED BY <4>1, <3>1 DEF OwnIn
    <3>3. ASSUME NEW i \in ArchivalIn(w, t)
          PROVE  i \in ArchivalIn(p, t) \/ i - Len(p) \in ArchivalIn(q, t)
      <4>1. i \in 1 .. Len(w) /\ w[i].thread = t /\ w[i].kind \in Toggles
        BY <1>2 DEF OwnIn, ArchivalIn
      <4> QED BY <4>1, <3>1 DEF OwnIn, ArchivalIn
    <3> QED BY <3>2, <3>3
  <2>4. /\ ArchivalIn(p, t) \in SUBSET (1 .. Len(p)) /\ OwnIn(p, t) \in SUBSET (1 .. Len(p))
        /\ ArchivalIn(q, t) \in SUBSET (1 .. Len(q)) /\ OwnIn(q, t) \in SUBSET (1 .. Len(q))
        /\ ArchivalIn(p, t) \subseteq OwnIn(p, t) /\ ArchivalIn(q, t) \subseteq OwnIn(q, t)
    BY DEF ArchivalIn, OwnIn
  <2>5. CASE ArchivalIn(q, t) # {}
    <3>1. PICK i \in ArchivalIn(q, t) : \A j \in ArchivalIn(q, t) : j <= i
      BY <2>4, <2>5, <1>2, GreatestPosition
    <3>2. Project(f, q)[t] = EntryOf(q[i].kind)
      BY <3>1, ProjectByLast
    <3>3. ASSUME NEW j \in ArchivalIn(w, t) PROVE j <= Len(p) + i
      <4>1. i \in 1 .. Len(q)
        BY <3>1, <2>4
      <4>2. CASE j \in ArchivalIn(p, t)
        BY <4>1, <4>2, <2>4, <1>2
      <4>3. CASE j - Len(p) \in ArchivalIn(q, t)
        <5>1. j - Len(p) <= i /\ j \in Int
          BY <4>3, <3>1, <1>2 DEF ArchivalIn, OwnIn
        <5> QED BY <5>1, <4>1, <1>2
      <4> QED BY <4>2, <4>3, <2>3
    <3>4. Project(e, w)[t] = EntryOf(w[Len(p) + i].kind)
      BY <3>1, <3>3, <2>2, <1>2, ProjectByLast
    <3>5. w[Len(p) + i] = q[i]
      BY <3>1, <2>4, <1>2
    <3> QED BY <3>2, <3>4, <3>5, <2>1
  <2>6. CASE ArchivalIn(q, t) = {} /\ ArchivalIn(p, t) # {}
    <3>1. PICK i \in ArchivalIn(p, t) : \A j \in ArchivalIn(p, t) : j <= i
      BY <2>4, <2>6, <1>2, GreatestPosition
    <3>2. f[t] = EntryOf(p[i].kind) /\ Seen(f[t]) = f[t]
      BY <3>1, <2>1, ProjectByLast DEF Seen, EntryOf
    <3>3. \A j \in ArchivalIn(w, t) : j <= i
      BY <3>1, <2>3, <2>6
    <3>4. Project(e, w)[t] = EntryOf(w[i].kind)
      BY <3>1, <3>3, <2>2, <1>2, ProjectByLast, SMTT(30)
    <3>5. w[i] = p[i]
      BY <3>1, <2>4, <1>2
    <3>6. Project(f, q)[t] = f[t]
      BY <3>2, <2>6, ProjectByLast
    <3> QED BY <3>2, <3>4, <3>5, <3>6, <2>1
  <2>7. CASE ArchivalIn(q, t) = {} /\ ArchivalIn(p, t) = {}
    <3>1. ArchivalIn(w, t) = {}
      BY <2>3, <2>7
    <3>2. OwnIn(w, t) = {} <=> (OwnIn(p, t) = {} /\ OwnIn(q, t) = {})
      BY <2>2, <2>3
    <3>3. f[t] = IF OwnIn(p, t) = {} THEN e[t] ELSE Seen(e[t])
      BY <2>1, <2>7, ProjectByLast
    <3>4. Project(f, q)[t] = IF OwnIn(q, t) = {} THEN f[t] ELSE Seen(f[t])
      BY <2>7, ProjectByLast
    <3>5. Project(e, w)[t] = IF OwnIn(w, t) = {} THEN e[t] ELSE Seen(e[t])
      BY <3>1, <1>2, ProjectByLast
    <3>6. Seen(Seen(e[t])) = Seen(e[t])
      BY DEF Seen
    <3> QED BY <3>2, <3>3, <3>4, <3>5, <3>6, <2>1
  <2> QED BY <2>5, <2>6, <2>7
<1>4. /\ Project(e, w) = [t \in Threads |-> Project(e, w)[t]]
      /\ Project(Project(e, p), q) = [t \in Threads |-> Project(Project(e, p), q)[t]]
  BY DEF Project
<1> QED BY <1>1, <1>3, <1>4

LEMMA ProjectOne ==
    ASSUME NEW r \in RecordType, NEW e, NEW t \in Threads
    PROVE  Project(e, <<r>>)[t] = IF r.thread # t THEN e[t]
                                  ELSE IF r.kind \in Toggles THEN EntryOf(r.kind) ELSE Seen(e[t])
<1>0. PICK q : q = <<r>>
  OBVIOUS
<1>1. q \in Seq(RecordType) /\ DOMAIN q = {1} /\ q[1] = r
  BY <1>0
<1>2. CASE r.thread # t
  <2>1. OwnIn(q, t) = {}
    BY <1>1, <1>2 DEF OwnIn
  <2>2. Project(e, q)[t] = e[t]
    BY <2>1, <1>1, ProjectByLast
  <2> QED BY <2>2, <1>0, <1>2
<1>3. CASE r.thread = t /\ r.kind \in Toggles
  <2>1. 1 \in ArchivalIn(q, t) /\ \A j \in ArchivalIn(q, t) : j <= 1
    BY <1>1, <1>3 DEF OwnIn, ArchivalIn
  <2>2. Project(e, q)[t] = EntryOf(q[1].kind)
    BY <2>1, <1>1, ProjectByLast
  <2> QED BY <2>2, <1>0, <1>1, <1>3
<1>4. CASE r.thread = t /\ r.kind \notin Toggles
  <2>1. OwnIn(q, t) # {} /\ ArchivalIn(q, t) = {}
    BY <1>1, <1>4 DEF OwnIn, ArchivalIn
  <2>2. Project(e, q)[t] = Seen(e[t])
    BY <2>1, <1>1, ProjectByLast
  <2> QED BY <2>2, <1>0, <1>4
<1> QED BY <1>2, <1>3, <1>4

-----------------------------------------------------------------------------
(* The order in which a list visits threads.                               *)

FirstIn(recs) == {i \in DOMAIN recs : \A j \in 1 .. i - 1 : recs[j].thread # recs[i].thread}
UpTo(S, i) == {j \in S : j <= i}

(* Ranking the members of a set of positions by the number of members that *)
(* are not greater is one to one onto 1 .. Cardinality.                    *)
LEMMA Ranking ==
    ASSUME NEW n \in Nat, NEW S \in SUBSET (1 .. n)
    PROVE  /\ IsFiniteSet(S) /\ Cardinality(S) \in Nat
           /\ \A i \in S : Cardinality(UpTo(S, i)) \in 1 .. Cardinality(S)
           /\ \A i, j \in S : Cardinality(UpTo(S, i)) = Cardinality(UpTo(S, j)) => i = j
           /\ \A k \in 1 .. Cardinality(S) : \E i \in S : Cardinality(UpTo(S, i)) = k
<1>1. IsFiniteSet(1 .. n)
  BY FS_Interval
<1>2. IsFiniteSet(S) /\ Cardinality(S) \in Nat
  BY <1>1, FS_Subset, FS_CardinalityType
<1>3. ASSUME NEW i \in S
      PROVE  /\ IsFiniteSet(UpTo(S, i)) /\ Cardinality(UpTo(S, i)) \in 1 .. Cardinality(S)
  <2>1. UpTo(S, i) \in SUBSET S /\ i \in UpTo(S, i)
    BY DEF UpTo
  <2>2. IsFiniteSet(UpTo(S, i)) /\ Cardinality(UpTo(S, i)) <= Cardinality(S)
    BY <2>1, <1>2, FS_Subset
  <2>3. Cardinality(UpTo(S, i)) \in Nat
    BY <2>2, FS_CardinalityType
  <2>4. Cardinality(UpTo(S, i)) # 0
    BY <2>1, <2>2, FS_EmptySet
  <2> QED BY <2>2, <2>3, <2>4, <1>2
<1>4. ASSUME NEW i \in S, NEW j \in S, i <= j, Cardinality(UpTo(S, i)) = Cardinality(UpTo(S, j))
      PROVE  i = j
  <2>1. UpTo(S, i) \in SUBSET UpTo(S, j)
    <3>1. ASSUME NEW x \in UpTo(S, i) PROVE x \in UpTo(S, j)
      <4>1. x \in S /\ x <= i /\ x \in Nat /\ i \in Nat /\ j \in Nat
        BY DEF UpTo
      <4> QED BY <4>1, <1>4 DEF UpTo
    <3> QED BY <3>1
  <2>2. UpTo(S, i) = UpTo(S, j)
    BY <2>1, <1>3, <1>4, FS_Subset
  <2>3. j \in UpTo(S, i)
    BY <2>2 DEF UpTo
  <2> QED BY <2>3, <1>4 DEF UpTo
<1>5. ASSUME NEW i \in S, NEW j \in S, Cardinality(UpTo(S, i)) = Cardinality(UpTo(S, j))
      PROVE  i = j
  <2>1. i <= j \/ j <= i
    OBVIOUS
  <2> QED BY <2>1, <1>4, <1>5
<1>6. ASSUME NEW k \in 1 .. Cardinality(S) PROVE \E i \in S : Cardinality(UpTo(S, i)) = k
  <2>1. PICK N : N = 1 .. Cardinality(S)
    OBVIOUS
  <2>2. PICK f : f = [i \in S |-> Cardinality(UpTo(S, i))]
    OBVIOUS
  <2>3. f \in [S -> N] /\ \A i, j \in S : f[i] = f[j] => i = j
    BY <2>1, <2>2, <1>3, <1>5
  <2>4. f \in Injection(S, N)
    BY <2>3 DEF Injection, IsInjective
  <2>5. IsFiniteSet(N) /\ Cardinality(N) = Cardinality(S)
    BY <2>1, <1>2, FS_Interval
  <2>6. f \in Surjection(S, N)
    BY <2>4, <2>5, FS_Injection
  <2>7. \E i \in S : f[i] = k
    BY <2>6, <2>1 DEF Surjection
  <2> QED BY <2>7, <2>2
<1> QED BY <1>2, <1>3, <1>5, <1>6

(* The order names threads only, and every thread the index names.         *)
LEMMA OrderCovers ==
    ASSUME NEW recs \in Seq(RecordType)
    PROVE  /\ OrderOf(recs) \in Seq(Threads)
           /\ \A i \in DOMAIN recs :
                 \E k \in DOMAIN OrderOf(recs) : OrderOf(recs)[k] = recs[i].thread
<1>1. PICK S : S = FirstIn(recs)
  OBVIOUS
<1>2. S \in SUBSET (1 .. Len(recs)) /\ Len(recs) \in Nat
  BY <1>1 DEF FirstIn
<1>3. PICK size : size = Cardinality(S)
  OBVIOUS
<1>4. OrderOf(recs) = [k \in 1 .. size |->
                          recs[CHOOSE i \in S : Cardinality(UpTo(S, i)) = k].thread]
  BY <1>1, <1>3 DEF OrderOf, FirstIn, UpTo
<1>5. size \in Nat
  BY <1>2, <1>3, Ranking
<1>6. ASSUME NEW k \in 1 .. size, NEW i, i = CHOOSE x \in S : Cardinality(UpTo(S, x)) = k
      PROVE  i \in S /\ Cardinality(UpTo(S, i)) = k
  <2>1. \A y \in 1 .. Cardinality(S) : \E x \in S : Cardinality(UpTo(S, x)) = y
    BY <1>2, Ranking
  <2>2. \E x \in S : Cardinality(UpTo(S, x)) = k
    BY <2>1, <1>3
  <2> QED BY <2>2, <1>6
<1>7. OrderOf(recs) \in Seq(Threads)
  <2>1. ASSUME NEW k \in 1 .. size PROVE OrderOf(recs)[k] \in Threads
    <3>1. PICK i : i = CHOOSE x \in S : Cardinality(UpTo(S, x)) = k
      OBVIOUS
    <3>2. i \in S
      BY <3>1, <1>6
    <3>3. OrderOf(recs)[k] = recs[i].thread
      BY <3>1, <1>4
    <3>4. recs[i] \in RecordType
      BY <3>2, <1>2
    <3> QED BY <3>3, <3>4 DEF RecordType
  <2>2. OrderOf(recs) = [k \in 1 .. size |-> OrderOf(recs)[k]]
    BY <1>4
  <2> QED BY <2>1, <2>2, <1>5
<1>8. ASSUME NEW i \in DOMAIN recs
      PROVE  \E k \in DOMAIN OrderOf(recs) : OrderOf(recs)[k] = recs[i].thread
  <2>1. PICK T : T = {j \in DOMAIN recs : recs[j].thread = recs[i].thread}
    OBVIOUS
  <2>2. T \in SUBSET Nat /\ T # {}
    BY <2>1
  <2>3. PICK j \in T : \A x \in T : j <= x
    BY <2>2, LeastOfNaturals
  <2>4. j \in S
    <3>1. j \in 1 .. Len(recs) /\ recs[j].thread = recs[i].thread
      BY <2>1, <2>3
    <3>2. ASSUME NEW x \in 1 .. j - 1 PROVE recs[x].thread # recs[j].thread
      <4>1. x \in 1 .. Len(recs) /\ x < j
        BY <3>1, <1>2
      <4>2. x \notin T
        BY <4>1, <3>1, <2>3
      <4> QED BY <4>1, <4>2, <3>1, <2>1
    <3> QED BY <3>1, <3>2, <1>1 DEF FirstIn
  <2>5. PICK k : k = Cardinality(UpTo(S, j))
    OBVIOUS
  <2>6. k \in 1 .. size
    BY <2>4, <2>5, <1>2, <1>3, Ranking
  <2>7. PICK x : x = CHOOSE y \in S : Cardinality(UpTo(S, y)) = k
    OBVIOUS
  <2>8. x \in S /\ Cardinality(UpTo(S, x)) = k
    BY <2>6, <2>7, <1>6
  <2>9. x = j
    BY <2>4, <2>5, <2>8, <1>2, Ranking
  <2>10. OrderOf(recs)[k] = recs[j].thread
    BY <2>6, <2>7, <2>9, <1>4
  <2>11. recs[j].thread = recs[i].thread
    BY <2>1, <2>3
  <2> QED BY <2>6, <2>10, <2>11, <1>4
<1> QED BY <1>7, <1>8

-----------------------------------------------------------------------------
(* Steps that leave the rows alone.                                        *)

Same(d) ==
    /\ op'[d] = op[d] /\ pc'[d] = pc[d] /\ attempt'[d] = attempt[d]
    /\ observed'[d] = observed[d] /\ outcome'[d] = outcome[d]
    /\ batch'[d] = batch[d] /\ at'[d] = at[d] /\ answer'[d] = answer[d]

(* A step gives a call its old number or a new one.                        *)
NumbersKept ==
    /\ calls' \in Nat /\ calls' >= calls
    /\ \A d \in Callers : op'[d] \in WriteOp =>
           (op[d] \in WriteOp /\ op'[d].n = op[d].n) \/ op'[d].n > calls

LEMMA Bounds ==
    /\ MaxCalls \in Nat /\ BatchSize \in Nat
    /\ ThreadRetries \in Nat /\ ThreadRetries >= 1
    /\ SqliteAttempts \in Nat /\ SqliteAttempts >= 1 /\ MaxFaults \in Nat
<1>1. MaxCalls \in Nat /\ BatchSize \in Nat /\ ThreadRetries \in Nat \ {0}
  BY ThreadAssumption
<1>2. SqliteAttempts \in Nat \ {0} /\ MaxFaults \in Nat
  BY SqliteAssumption
<1> QED BY <1>1, <1>2

LEMMA Names ==
    /\ Streams = Threads \union {Index} /\ Index \notin Threads
    /\ Main # Alt /\ Main # NoBranch /\ Alt # NoBranch /\ NoWriter \notin Callers
BY ThreadAssumption, SqliteAssumption DEF NoBranch

LEMMA CallsType ==
    ASSUME Types PROVE calls \in Nat /\ calls <= MaxCalls
BY Bounds DEF Types

LEMMA RecordIds ==
    ASSUME NEW r \in RecordType
    PROVE  /\ r.id[1] \in 1 .. MaxCalls /\ r.id[1] \in Nat
           /\ r.id[2] \in Roles /\ r.id = <<r.id[1], r.id[2]>>
<1>1. r.id \in (1 .. MaxCalls) \X Roles
  BY DEF RecordType
<1>2. PICK k \in 1 .. MaxCalls, x \in Roles : r.id = <<k, x>>
  BY <1>1
<1> QED BY <1>2, Bounds

LEMMA StoredRecord ==
    ASSUME Types, NEW s \in Streams, NEW i \in DOMAIN rows[s]
    PROVE  rows[s][i] \in RecordType /\ rows[s][i].id[1] \in Nat
<1>1. rows[s] \in Seq(RecordType)
  BY DEF Types
<1>2. rows[s][i] \in RecordType
  BY <1>1
<1> QED BY <1>2, RecordIds

LEMMA StreamType ==
    ASSUME Types, NEW s \in Streams
    PROVE  /\ rows[s] \in Seq(RecordType) /\ Len(rows[s]) \in Nat
           /\ DOMAIN rows[s] = 1 .. Len(rows[s])
<1>1. rows[s] \in Seq(RecordType)
  BY DEF Types
<1> QED BY <1>1

LEMMA OpNumbers ==
    ASSUME NEW o \in WriteOp
    PROVE  o.n \in 1 .. MaxCalls /\ o.n \in Nat /\ o.thread \in Threads
<1>1. o.n \in 1 .. MaxCalls /\ o.thread \in Threads
  BY DEF WriteOp, CreateOp, AppendOp, ForkOp, ArchiveOp
<1> QED BY <1>1, Bounds

LEMMA CommittedFinite ==
    /\ IsFiniteSet(Committed) /\ Cardinality(Committed) \in Nat
    /\ Committed \subseteq 1 .. MaxCalls
<1>1. Committed \in SUBSET (1 .. MaxCalls)
  BY DEF Committed, CommittedIn
<1>2. IsFiniteSet(1 .. MaxCalls)
  BY FS_Interval, Bounds
<1> QED BY <1>1, <1>2, FS_Subset, FS_CardinalityType

LEMMA CommittedNumbers ==
    ASSUME Types, RowsOK, NEW k \in Committed
    PROVE  k \in 1 .. calls
<1>0. PICK t \in Threads : \E i \in DOMAIN rows[t] : rows[t][i].id = <<k, "thread">>
  BY DEF Committed, CommittedIn
<1>1. PICK i \in DOMAIN rows[t] : rows[t][i].id = <<k, "thread">>
  BY <1>0
<1>2. t \in Streams
  BY ThreadAssumption
<1>3. rows[t][i].id[1] <= calls
  BY <1>1, <1>2 DEF RowsOK
<1>4. k \in 1 .. MaxCalls /\ calls \in Nat
  BY CallsType DEF Committed, CommittedIn
<1> QED BY <1>1, <1>3, <1>4

LEMMA UnusedKept ==
    ASSUME Types, NumbersKept, rows' = rows, NEW k, Unused(k)
    PROVE  Unused(k)' /\ k \in 1 .. calls'
<1>1. Committed' = Committed
  BY DEF Committed, CommittedIn
<1>2. k \in 1 .. calls' /\ k <= calls /\ k \in Nat /\ calls \in Nat
  BY CallsType DEF NumbersKept, Unused
<1>3. ASSUME NEW d \in Callers, op'[d] \in WriteOp PROVE op'[d].n # k
  <2>1. CASE op[d] \in WriteOp /\ op'[d].n = op[d].n
    BY <2>1 DEF Unused
  <2>2. CASE op'[d].n > calls
    BY <2>2, <1>2
  <2> QED BY <1>3, <2>1, <2>2 DEF NumbersKept
<1> QED BY <1>1, <1>2, <1>3 DEF Unused

LEMMA OtherCaller ==
    ASSUME Inv, NEW d \in Callers, Same(d), rows' = rows, NumbersKept,
           at[d] = "insert" => staged' = staged
    PROVE  CallerOK(d)'
<1>1. Committed' = Committed
  BY DEF Committed, CommittedIn
<1>2. CallerOK(d) /\ Types
  BY DEF Inv
<1>3. CallOK(d)'
  <2>1. op[d] \in WriteOp => op[d].n <= calls'
    <3>1. op[d] \in WriteOp => op[d].n \in Nat
      BY OpNumbers
    <3> QED BY <3>1, <1>2, CallsType DEF CallerOK, CallOK, NumbersKept
  <2> QED BY <2>1, <1>2 DEF CallerOK, CallOK, Same
<1>4. TransactionOK(d)'
  <2>1. SUFFICES ASSUME at[d] \in {"begin", "insert"}
                 PROVE  \E n, m \in Nat : Expects(d, n, m)' /\ Progress(d, n, m)'
    BY DEF TransactionOK, Same
  <2>2. PICK n, m \in Nat : Expects(d, n, m) /\ Progress(d, n, m)
    BY <2>1, <1>2 DEF CallerOK, TransactionOK
  <2>3. Expects(d, n, m)'
    BY <2>2, <1>1 DEF Expects, Found, Two, Same
  <2>4. Progress(d, n, m)'
    <3>1. ThreadRecord(d, n)' = ThreadRecord(d, n) /\ IndexRecord(d)' = IndexRecord(d)
      BY DEF ThreadRecord, IndexRecord, NewKind, NewBranch, Same
    <3>2. First(d, n)' = First(d, n) /\ Second(d, m)' = Second(d, m)
      BY <3>1 DEF First, Second, Same
    <3>3. PutFirst(d, n)' = PutFirst(d, n)
      BY <3>1 DEF PutFirst, Same
    <3>4. PutBoth(d, n)' = PutBoth(d, n)
      BY <3>1, <3>3 DEF PutBoth
    <3>5. (Two(d)' <=> Two(d)) /\ (Accepted(d, n)' <=> Accepted(d, n))
      BY <1>1 DEF Two, Accepted, Same
    <3>6. Untouched(d, n, m)' <=> Untouched(d, n, m)
      BY <3>2, <3>5 DEF Untouched, Same
    <3> QED BY <2>2, <3>2, <3>3, <3>4, <3>5, <3>6 DEF Progress, Same
  <2> QED BY <2>3, <2>4
<1>5. UnsettledOK(d)'
  <2>1. SUFFICES ASSUME Unsettled(d), op[d].n \in Committed
                 PROVE  op[d] \in AppendOp /\ \E k \in 1 .. calls' : Unused(k)'
    BY <1>1 DEF UnsettledOK, Unsettled, Same
  <2>2. op[d] \in AppendOp
    BY <2>1, <1>2 DEF CallerOK, UnsettledOK
  <2>3. PICK k \in 1 .. calls : Unused(k)
    BY <2>1, <1>2 DEF CallerOK, UnsettledOK
  <2> QED BY <2>2, <2>3, <1>2, UnusedKept
<1>6. AttemptOK(d)'
  BY <1>1, <1>2 DEF CallerOK, AttemptOK, Found, Same
<1>7. AnswerOK(d)'
  BY <1>1, <1>2 DEF CallerOK, AnswerOK, StoredAt, Same
<1>8. OutcomeOK(d)'
  BY <1>1, <1>2 DEF CallerOK, OutcomeOK, OutcomeHolds, Same
<1> QED BY <1>3, <1>4, <1>5, <1>6, <1>7, <1>8 DEF CallerOK

LEMMA RowsFrame ==
    ASSUME Inv, rows' = rows, calls' \in Nat, calls' >= calls
    PROVE  RowsOK' /\ IndexAgrees'
<1>1. Committed' = Committed
  BY DEF Committed, CommittedIn
<1>2. RowsOK'
  <2>1. ASSUME NEW s \in Streams, NEW i \in DOMAIN rows[s] PROVE rows[s][i].id[1] <= calls'
    <3>1. rows[s][i].id[1] <= calls /\ calls \in Nat
      BY CallsType DEF Inv, RowsOK
    <3>2. rows[s][i].id[1] \in Nat
      BY StoredRecord DEF Inv
    <3> QED BY <3>1, <3>2
  <2> QED BY <2>1, <1>1 DEF Inv, RowsOK
<1>3. IndexAgrees'
  BY DEF Inv, IndexAgrees, StreamsAgree, ArchivalAlternates, InIndex
<1> QED BY <1>2, <1>3

(* What remains to be shown of a step of c that leaves the rows alone.     *)
LEMMA LocalStep ==
    ASSUME Inv, NEW c \in Callers, rows' = rows, NumbersKept, Types', NumbersOK', LockOK',
           \A d \in Callers \ {c} : Same(d) /\ (at[d] = "insert" => staged' = staged),
           CallerOK(c)', \A d \in Callers : PageOK(d)', ViewOK'
    PROVE  Inv'
<1>1. RowsOK' /\ IndexAgrees'
  BY RowsFrame DEF NumbersKept
<1>2. ASSUME NEW d \in Callers PROVE CallerOK(d)'
  <2>1. CASE d = c
    BY <2>1
  <2>2. CASE d # c
    BY <2>2, OtherCaller
  <2> QED BY <2>1, <2>2
<1> QED BY <1>1, <1>2 DEF Inv

LEMMA PageFrame ==
    ASSUME NEW d \in Callers, PageOK(d), rows' = rows, page'[d] = page[d],
           pc'[d] = pc[d] \/ pc'[d] \notin Listing
    PROVE  PageOK(d)'
BY DEF PageOK, Listing

LEMMA ViewFrame ==
    ASSUME ViewOK, view' = view, rows' = rows
    PROVE  ViewOK'
BY DEF ViewOK, Absent

-----------------------------------------------------------------------------
(* A call begins.                                                          *)

Fits(o, l) ==
    /\ l \in {"create", "created"} => o \in CreateOp
    /\ l \in {"append", "appended"} => o \in AppendOp
    /\ l \in {"fork", "forked"} => o \in ForkOp
    /\ l \in {"archive", "archiveIndex", "archived"} => o \in ArchiveOp

LEMMA StartKept ==
    ASSUME Inv, NEW c \in Callers, NEW o \in WriteOp, NEW l \in Loading \ {"archiveIndex"},
           Start(c, o, l), Fits(o, l),
           o.n = calls + 1 \/ (o.n = op[c].n /\ op[c] \in AppendOp /\ o \in AppendOp)
    PROVE  Inv'
<1>1. /\ pc[c] = "idle" /\ calls < MaxCalls /\ calls' = calls + 1
      /\ op' = [op EXCEPT ![c] = o] /\ attempt' = [attempt EXCEPT ![c] = 1]
      /\ outcome' = [outcome EXCEPT ![c] = NoOutcome] /\ pc' = [pc EXCEPT ![c] = l]
      /\ rows' = rows /\ writer' = writer /\ staged' = staged /\ batch' = batch /\ at' = at
      /\ tries' = tries /\ answer' = answer /\ faults' = faults
      /\ observed' = observed /\ page' = page /\ view' = view
  BY DEF Start, Goto, sqlVars
<1>2. Types /\ calls \in Nat /\ CallerOK(c) /\ RowsOK
  BY CallsType DEF Inv
<1>3. Types'
  <2>1. calls' \in 0 .. MaxCalls
    BY <1>1, <1>2, Bounds
  <2>2. attempt' \in [Callers -> 0 .. ThreadRetries]
    BY <1>1, <1>2, Bounds DEF Types
  <2>3. op' \in [Callers -> WriteOp \union ReadOp]
    BY <1>1, <1>2 DEF Types
  <2>4. pc' \in [Callers -> {"idle"} \union Loading \union Waiting \union Listing]
    BY <1>1, <1>2 DEF Types
  <2>5. outcome' = [d \in Callers |-> outcome'[d]]
    BY <1>1, <1>2 DEF Types
  <2> QED BY <2>1, <2>2, <2>3, <2>4, <2>5, <1>1, <1>2 DEF Types
<1>4. /\ op'[c] = o /\ pc'[c] = l /\ attempt'[c] = 1 /\ outcome'[c] = NoOutcome
      /\ at'[c] = "idle"
  <2>1. at[c] = "idle"
    BY <1>1, <1>2 DEF CallerOK, CallOK, Waiting
  <2> QED BY <2>1, <1>1, <1>2 DEF Types
<1>5. \A d \in Callers \ {c} : Same(d)
  BY <1>1, <1>2 DEF Types, Same
<1>6. \A d \in Callers : op[d] \in WriteOp => op[d].n <= calls /\ op[d].n \in Nat
  BY OpNumbers DEF Inv, CallerOK, CallOK
<1>7. o.n \in Nat /\ o.n <= calls + 1
  <2>1. op[c] \in AppendOp => op[c] \in WriteOp
    BY DEF WriteOp
  <2> QED BY <2>1, <1>6, <1>2, OpNumbers
<1>8. NumbersKept
  <2>1. ASSUME NEW d \in Callers, op'[d] \in WriteOp
        PROVE  (op[d] \in WriteOp /\ op'[d].n = op[d].n) \/ op'[d].n > calls
    <3>1. CASE d # c
      BY <3>1, <2>1, <1>5 DEF Same
    <3>2. CASE d = c
      <4>1. op[c] \in AppendOp => op[c] \in WriteOp
        BY DEF WriteOp
      <4> QED BY <4>1, <3>2, <1>4, <1>7, <1>2
    <3> QED BY <3>1, <3>2
  <2> QED BY <2>1, <1>1, <1>2 DEF NumbersKept
<1>9. NumbersOK'
  <2>1. ASSUME NEW d \in Callers \ {c}, op[d] \in WriteOp PROVE op[d].n # o.n
    <3>1. CASE o.n = calls + 1
      BY <3>1, <2>1, <1>6, <1>2
    <3>2. CASE o.n = op[c].n /\ op[c] \in AppendOp
      BY <3>2, <2>1 DEF Inv, NumbersOK, WriteOp
    <3> QED BY <3>1, <3>2
  <2>2. ASSUME NEW d \in Callers, NEW e \in Callers, op'[d] \in WriteOp, op'[e] \in WriteOp,
               op'[d].n = op'[e].n
        PROVE  d = e
    <3>1. CASE d # c /\ e # c
      BY <3>1, <2>2, <1>5 DEF Inv, NumbersOK, Same
    <3>2. CASE d = c /\ e # c
      BY <3>2, <2>1, <2>2, <1>4, <1>5 DEF Same
    <3>3. CASE d # c /\ e = c
      BY <3>3, <2>1, <2>2, <1>4, <1>5 DEF Same
    <3> QED BY <3>1, <3>2, <3>3
  <2> QED BY <2>2 DEF NumbersOK
<1>10. LockOK'
  BY <1>1 DEF Inv, LockOK
<1>11. CallerOK(c)'
  <2>1. CallOK(c)'
    BY <1>1, <1>2, <1>4, <1>7 DEF CallOK, Fits, Loading, Waiting
  <2>2. TransactionOK(c)' /\ AnswerOK(c)'
    BY <1>4 DEF TransactionOK, AnswerOK
  <2>3. AttemptOK(c)'
    <3>1. Committed' = Committed /\ Cardinality(Committed) \in Nat
      BY <1>1, CommittedFinite DEF Committed, CommittedIn
    <3> QED BY <3>1, <1>4 DEF AttemptOK, Loading
  <2>4. OutcomeOK(c)'
    BY <1>4 DEF OutcomeOK
  <2>5. UnsettledOK(c)'
    <3>1. Committed' = Committed
      BY <1>1 DEF Committed, CommittedIn
    <3>2. \A k \in Committed : k <= calls /\ k \in Nat
      BY <1>2, CommittedNumbers
    <3>3. SUFFICES ASSUME o.n \in Committed
                   PROVE  o \in AppendOp /\ \E k \in 1 .. calls' : Unused(k)'
      BY <3>1, <1>4 DEF UnsettledOK
    <3>4. o.n = op[c].n /\ op[c] \in AppendOp /\ o \in AppendOp
      BY <3>2, <3>3, <1>2
    <3>5. ASSUME NEW d \in Callers, op'[d] \in WriteOp PROVE op'[d].n # calls + 1
      <4>1. CASE d # c
        BY <4>1, <3>5, <1>2, <1>5, <1>6 DEF Same
      <4>2. CASE d = c
        BY <4>2, <3>2, <3>3, <1>2, <1>4
      <4> QED BY <4>1, <4>2
    <3>6. calls + 1 \in 1 .. calls' /\ calls + 1 \notin Committed
      BY <3>2, <1>1, <1>2
    <3>7. PICK k : k = calls + 1
      OBVIOUS
    <3>8. Unused(k)'
      BY <3>1, <3>5, <3>6, <3>7 DEF Unused
    <3> QED BY <3>4, <3>6, <3>7, <3>8
  <2> QED BY <2>1, <2>2, <2>3, <2>4, <2>5 DEF CallerOK
<1>12. \A d \in Callers : PageOK(d)'
  <2>1. ASSUME NEW d \in Callers PROVE PageOK(d)'
    <3>1. pc'[d] = pc[d] \/ pc'[d] \notin Listing
      BY <1>4, <1>5 DEF Same, Loading, Listing
    <3> QED BY <3>1, <1>1, PageFrame DEF Inv
  <2> QED BY <2>1
<1>13. ViewOK'
  BY <1>1, ViewFrame DEF Inv
<1> QED BY <1>1, <1>3, <1>5, <1>8, <1>9, <1>10, <1>11, <1>12, <1>13, LocalStep

-----------------------------------------------------------------------------
(* A call ends, or starts over.                                            *)

(* c leaves the event store.                                               *)
Quits(c) ==
    /\ rows' = rows /\ writer' = writer /\ staged' = staged /\ faults' = faults
    /\ at' = [at EXCEPT ![c] = "idle"]
    /\ tries' \in [Callers -> 0 .. SqliteAttempts]
    /\ answer' \in [Callers -> AnswerType]
    /\ batch' = [d \in Callers |-> batch'[d]]
    /\ \A d \in Callers \ {c} : batch'[d] = batch[d] /\ answer'[d] = answer[d]

LEMMA TakeQuits ==
    ASSUME Types, NEW c \in Callers, Take(c)
    PROVE  Quits(c) /\ at[c] = "answered"
<1>1. /\ rows' = rows /\ writer' = writer /\ staged' = staged /\ faults' = faults
      /\ at[c] = "answered" /\ at' = [at EXCEPT ![c] = "idle"]
      /\ tries' = [tries EXCEPT ![c] = 0] /\ answer' = [answer EXCEPT ![c] = NoAnswer]
      /\ batch' = [batch EXCEPT ![c] = << >>]
  BY DEF Take
<1>2. tries' \in [Callers -> 0 .. SqliteAttempts]
  BY <1>1, Bounds DEF Types
<1>3. NoAnswer \in AnswerType
  BY DEF NoAnswer, AnswerType
<1>4. answer' \in [Callers -> AnswerType]
  BY <1>1, <1>3 DEF Types
<1>5. batch' = [d \in Callers |-> batch'[d]]
  BY <1>1 DEF Types
<1>6. \A d \in Callers \ {c} : batch'[d] = batch[d] /\ answer'[d] = answer[d]
  BY <1>1 DEF Types
<1> QED BY <1>1, <1>2, <1>4, <1>5, <1>6 DEF Quits

LEMMA IdleQuits ==
    ASSUME Types, NEW c \in Callers, at[c] = "idle", UNCHANGED sqlVars
    PROVE  Quits(c)
<1>1. at = [at EXCEPT ![c] = "idle"]
  BY DEF Types
<1> QED BY <1>1 DEF Types, Quits, sqlVars

LEMMA QuitsKept ==
    ASSUME Inv, NEW c \in Callers, Quits(c), at[c] \in {"idle", "answered"}
    PROVE  LockOK' /\ at'[c] = "idle"
<1>1. writer # c /\ Types
  BY DEF Inv, LockOK
<1>2. at'[c] = "idle" /\ \A d \in Callers \ {c} : at'[d] = at[d]
  BY <1>1 DEF Quits, Types
<1> QED BY <1>1, <1>2 DEF Inv, LockOK, Quits

LEMMA EndKept ==
    ASSUME Inv, NEW c \in Callers, NEW out,
           pc[c] \in Loading \union Waiting, at[c] \in {"idle", "answered"},
           Quits(c), OutcomeHolds(out, op[c]),
           pc' = [pc EXCEPT ![c] = "idle"],
           outcome' = [outcome EXCEPT ![c] = out],
           observed' = [observed EXCEPT ![c] = << >>],
           UNCHANGED <<op, attempt, page, view, calls>>
    PROVE  Inv'
<1>1. Types /\ CallerOK(c) /\ rows' = rows
  BY DEF Inv, Quits
<1>2. Types'
  <2>1. /\ at' \in [Callers -> {"idle", "begin", "insert", "answered"}]
        /\ pc' \in [Callers -> {"idle"} \union Loading \union Waiting \union Listing]
        /\ outcome' = [d \in Callers |-> outcome'[d]]
    BY <1>1 DEF Types, Quits
  <2>2. observed' \in [Callers -> Seq(RecordType)]
    BY <1>1 DEF Types
  <2> QED BY <2>1, <2>2, <1>1 DEF Types, Quits
<1>3. pc'[c] = "idle" /\ outcome'[c] = out /\ at'[c] = "idle"
  BY <1>1, QuitsKept DEF Types
<1>4. \A d \in Callers \ {c} : Same(d)
  BY <1>1 DEF Types, Same, Quits
<1>5. NumbersKept /\ NumbersOK'
  BY <1>1, CallsType DEF NumbersKept, Inv, NumbersOK
<1>6. LockOK'
  BY QuitsKept
<1>7. CallerOK(c)'
  <2>1. Committed' = Committed
    BY <1>1 DEF Committed, CommittedIn
  <2>2. CallOK(c)'
    BY <1>1, <1>3 DEF CallerOK, CallOK, Loading, Waiting
  <2>3. TransactionOK(c)' /\ AnswerOK(c)'
    BY <1>3 DEF TransactionOK, AnswerOK
  <2>4. UnsettledOK(c)' /\ AttemptOK(c)'
    BY <1>3 DEF UnsettledOK, Unsettled, AttemptOK, Loading, Waiting
  <2>5. OutcomeOK(c)'
    BY <2>1, <1>1, <1>3 DEF OutcomeOK, OutcomeHolds
  <2> QED BY <2>2, <2>3, <2>4, <2>5 DEF CallerOK
<1>8. \A d \in Callers : PageOK(d)'
  <2>1. ASSUME NEW d \in Callers PROVE PageOK(d)'
    <3>1. pc'[d] = pc[d] \/ pc'[d] \notin Listing
      BY <1>3, <1>4 DEF Same, Listing
    <3> QED BY <3>1, <1>1, PageFrame DEF Inv
  <2> QED BY <2>1
<1>9. ViewOK'
  BY <1>1, ViewFrame DEF Inv
<1>10. staged' = staged
  BY DEF Quits
<1> QED BY <1>1, <1>2, <1>4, <1>5, <1>6, <1>7, <1>8, <1>9, <1>10, LocalStep

(* A call whose attempts are used up by conflicts had fewer attempts than  *)
(* there were calls.                                                       *)
LEMMA AttemptsSuffice ==
    ASSUME Inv, NEW c \in Callers, at[c] = "answered", answer[c].kind = "conflict",
           ~(attempt[c] < ThreadRetries)
    PROVE  ThreadRetries < MaxCalls
<1>1. SUFFICES ASSUME ThreadRetries >= MaxCalls PROVE FALSE
  BY Bounds
<1>2. CallerOK(c) /\ Types
  BY DEF Inv
<1>3. attempt[c] <= Cardinality(Committed) /\ attempt[c] \in 0 .. ThreadRetries
  BY <1>2 DEF CallerOK, AnswerOK, Types
<1>4. Cardinality(Committed) >= MaxCalls
  BY <1>1, <1>3, Bounds, CommittedFinite
<1>5. IsFiniteSet(1 .. MaxCalls) /\ Cardinality(1 .. MaxCalls) = MaxCalls
  BY Bounds, FS_Interval, SMTT(30)
<1>6. Committed = 1 .. MaxCalls
  <2>1. /\ Cardinality(Committed) <= Cardinality(1 .. MaxCalls)
        /\ Cardinality(1 .. MaxCalls) = Cardinality(Committed) => 1 .. MaxCalls = Committed
    BY <1>5, CommittedFinite, FS_Subset
  <2> QED BY <2>1, <1>4, <1>5, Bounds, CommittedFinite
<1>7. op[c] \in WriteOp
  BY <1>2 DEF CallerOK, CallOK, Waiting, WriteOp, CreateOp, AppendOp, ForkOp, ArchiveOp
<1>8. op[c].n \in Committed
  BY <1>6, <1>7, OpNumbers
<1>9. PICK k \in 1 .. calls : Unused(k)
  BY <1>2, <1>8 DEF CallerOK, UnsettledOK, Unsettled
<1>10. k \in 1 .. MaxCalls
  BY <1>2, CallsType, Bounds
<1> QED BY <1>6, <1>9, <1>10 DEF Unused

LEMMA RetryKept ==
    ASSUME Inv, NEW c \in Callers, NEW l \in Loading \ {"archiveIndex"},
           pc[c] \in Waiting, at[c] = "answered", answer[c].kind = "conflict",
           attempt[c] < ThreadRetries, Quits(c), Fits(op[c], l),
           attempt' = [attempt EXCEPT ![c] = @ + 1],
           pc' = [pc EXCEPT ![c] = l],
           UNCHANGED <<outcome, observed, op, page, view, calls>>
    PROVE  Inv'
<1>1. Types /\ CallerOK(c) /\ rows' = rows
  BY DEF Inv, Quits
<1>2. attempt[c] \in Nat /\ attempt'[c] = attempt[c] + 1
  BY <1>1, Bounds DEF Types
<1>3. Types'
  <2>1. /\ at' \in [Callers -> {"idle", "begin", "insert", "answered"}]
        /\ pc' \in [Callers -> {"idle"} \union Loading \union Waiting \union Listing]
    BY <1>1 DEF Types, Quits
  <2>2. attempt[c] + 1 \in 0 .. ThreadRetries
    BY <1>2, Bounds
  <2>3. attempt' \in [Callers -> 0 .. ThreadRetries]
    BY <2>2, <1>1 DEF Types
  <2> QED BY <2>1, <2>3, <1>1 DEF Types, Quits
<1>4. pc'[c] = l /\ at'[c] = "idle"
  BY <1>1, QuitsKept DEF Types
<1>5. \A d \in Callers \ {c} : Same(d)
  BY <1>1 DEF Types, Same, Quits
<1>6. NumbersKept /\ NumbersOK'
  BY <1>1, CallsType DEF NumbersKept, Inv, NumbersOK
<1>7. LockOK'
  BY QuitsKept
<1>8. CallerOK(c)'
  <2>1. Committed' = Committed /\ Cardinality(Committed) \in Nat
    BY <1>1, CommittedFinite DEF Committed, CommittedIn
  <2>2. CallOK(c)'
    BY <1>1, <1>2, <1>4 DEF CallerOK, CallOK, Loading, Waiting, Fits
  <2>3. TransactionOK(c)' /\ AnswerOK(c)'
    BY <1>4 DEF TransactionOK, AnswerOK
  <2>4. UnsettledOK(c)'
    <3>1. SUFFICES ASSUME op[c].n \in Committed
                   PROVE  op[c] \in AppendOp /\ \E k \in 1 .. calls' : Unused(k)'
      BY <2>1 DEF UnsettledOK
    <3>2. op[c] \in AppendOp
      BY <3>1, <1>1 DEF CallerOK, UnsettledOK, Unsettled
    <3>3. PICK k \in 1 .. calls : Unused(k)
      BY <3>1, <1>1 DEF CallerOK, UnsettledOK, Unsettled
    <3> QED BY <3>2, <3>3, <1>1, <1>6, UnusedKept
  <2>5. AttemptOK(c)'
    <3>1. attempt[c] <= Cardinality(Committed)
      BY <1>1 DEF CallerOK, AnswerOK
    <3> QED BY <3>1, <2>1, <1>2, <1>4 DEF AttemptOK
  <2>6. OutcomeOK(c)'
    BY <1>1 DEF CallerOK, OutcomeOK, Waiting
  <2> QED BY <2>2, <2>3, <2>4, <2>5, <2>6 DEF CallerOK
<1>9. \A d \in Callers : PageOK(d)'
  <2>1. ASSUME NEW d \in Callers PROVE PageOK(d)'
    <3>1. pc'[d] = pc[d] \/ pc'[d] \notin Listing
      BY <1>4, <1>5 DEF Same, Listing, Loading
    <3> QED BY <3>1, <1>1, PageFrame DEF Inv
  <2> QED BY <2>1
<1>10. ViewOK' /\ staged' = staged
  BY <1>1, ViewFrame DEF Inv, Quits
<1> QED BY <1>1, <1>3, <1>5, <1>6, <1>7, <1>8, <1>9, <1>10, LocalStep

-----------------------------------------------------------------------------
(* A call submits its batch.                                               *)

LEMMA SubmitKept ==
    ASSUME Inv, NEW c \in Callers, NEW l \in Waiting, NEW ob \in Seq(RecordType),
           NEW b, NEW n \in Nat, NEW m \in Nat,
           pc[c] \in Loading, Submit(c, b), Fits(op[c], l),
           pc' = [pc EXCEPT ![c] = l],
           observed' = [observed EXCEPT ![c] = ob],
           UNCHANGED <<op, attempt, outcome, page, view, calls>>,
           n <= Len(rows[op[c].thread]), m = Len(rows[Index]),
           n = Len(rows[op[c].thread]) => Found(c, rows[op[c].thread])',
           n < Len(rows[op[c].thread]) => attempt[c] <= Cardinality(Committed),
           l = "created" => n = 0,
           l \in {"appended", "archived"} => n = Len(ob),
           Untouched(c, n, m)'
    PROVE  Inv'
<1>1. Types /\ CallerOK(c)
  BY DEF Inv
<1>2. /\ batch' = [batch EXCEPT ![c] = b] /\ at' = [at EXCEPT ![c] = "begin"]
      /\ tries' = [tries EXCEPT ![c] = 1] /\ answer' = [answer EXCEPT ![c] = NoAnswer]
      /\ rows' = rows /\ writer' = writer /\ staged' = staged /\ faults' = faults
  BY DEF Submit
<1>3. Types'
  <2>1. /\ at' \in [Callers -> {"idle", "begin", "insert", "answered"}]
        /\ pc' \in [Callers -> {"idle"} \union Loading \union Waiting \union Listing]
        /\ batch' = [d \in Callers |-> batch'[d]]
    BY <1>1, <1>2 DEF Types
  <2>2. tries' \in [Callers -> 0 .. SqliteAttempts]
    BY <1>1, <1>2, Bounds DEF Types
  <2>3. NoAnswer \in AnswerType
    BY DEF NoAnswer, AnswerType
  <2>4. answer' \in [Callers -> AnswerType]
    BY <2>3, <1>1, <1>2 DEF Types
  <2>5. observed' \in [Callers -> Seq(RecordType)]
    BY <1>1 DEF Types
  <2> QED BY <2>1, <2>2, <2>4, <2>5, <1>1, <1>2 DEF Types
<1>4. /\ pc'[c] = l /\ at'[c] = "begin" /\ observed'[c] = ob
      /\ \A d \in Callers \ {c} : at'[d] = at[d]
  BY <1>1, <1>2 DEF Types
<1>5. at[c] = "idle" /\ writer # c
  BY <1>1 DEF CallerOK, CallOK, Loading, Waiting, Inv, LockOK
<1>6. \A d \in Callers \ {c} : Same(d)
  BY <1>1, <1>2 DEF Types, Same
<1>7. NumbersKept /\ NumbersOK'
  BY <1>1, CallsType DEF NumbersKept, Inv, NumbersOK
<1>8. LockOK'
  BY <1>2, <1>4, <1>5 DEF Inv, LockOK
<1>9. CallerOK(c)'
  <2>1. Committed' = Committed
    BY <1>2 DEF Committed, CommittedIn
  <2>2. CallOK(c)'
    BY <1>1, <1>4 DEF CallerOK, CallOK, Loading, Waiting, Fits
  <2>3. TransactionOK(c)'
    <3>1. Expects(c, n, m)'
      <4>1. Len(rows[Index]) \in Nat
        BY <1>1, Names DEF Types
      <4>2. m <= Len(rows[Index]) /\ ~(m < Len(rows[Index]))
        BY <4>1
      <4> QED BY <4>2, <2>1, <1>2, <1>4 DEF Expects
    <3>2. Progress(c, n, m)'
      BY <1>4 DEF Progress
    <3> QED BY <3>1, <3>2 DEF TransactionOK
  <2>4. UnsettledOK(c)'
    <3>1. SUFFICES ASSUME op[c].n \in Committed
                   PROVE  op[c] \in AppendOp /\ \E k \in 1 .. calls' : Unused(k)'
      BY <2>1 DEF UnsettledOK
    <3>2. op[c] \in AppendOp
      BY <3>1, <1>1 DEF CallerOK, UnsettledOK, Unsettled
    <3>3. PICK k \in 1 .. calls : Unused(k)
      BY <3>1, <1>1 DEF CallerOK, UnsettledOK, Unsettled
    <3> QED BY <3>2, <3>3, <1>1, <1>2, <1>7, UnusedKept
  <2>5. AttemptOK(c)' /\ AnswerOK(c)'
    BY <2>1, <1>1, <1>4 DEF CallerOK, AttemptOK, AnswerOK, Waiting
  <2>6. OutcomeOK(c)'
    BY <1>1 DEF CallerOK, OutcomeOK, Loading
  <2> QED BY <2>2, <2>3, <2>4, <2>5, <2>6 DEF CallerOK
<1>10. \A d \in Callers : PageOK(d)'
  <2>1. ASSUME NEW d \in Callers PROVE PageOK(d)'
    <3>1. pc'[d] = pc[d] \/ pc'[d] \notin Listing
      BY <1>4, <1>6 DEF Same, Listing, Waiting
    <3> QED BY <3>1, <1>2, PageFrame DEF Inv
  <2> QED BY <2>1
<1>11. ViewOK'
  BY <1>2, ViewFrame DEF Inv
<1> QED BY <1>2, <1>3, <1>6, <1>7, <1>8, <1>9, <1>10, <1>11, LocalStep

LEMMA FinishFields ==
    ASSUME NEW c \in Callers, NEW r, Finish(c, r)
    PROVE  /\ pc' = [pc EXCEPT ![c] = "idle"]
           /\ outcome' = [outcome EXCEPT ![c] = [kind |-> r, of |-> op[c]]]
           /\ observed' = [observed EXCEPT ![c] = << >>]
BY DEF Finish, Goto

(* A call that ends before it has written anything tells so.               *)
LEMMA LeaveKept ==
    ASSUME Inv, NEW c \in Callers, NEW r, pc[c] \in Loading, UNCHANGED sqlVars,
           Finish(c, r), UNCHANGED <<op, attempt, page, view, calls>>,
           \/ r \in {"exists", "notfound"}
           \/ r = "ok" /\ op[c] \in ArchiveOp,
           r = "exists" => rows[op[c].thread] # << >>
    PROVE  Inv'
<1>1. Types /\ CallerOK(c)
  BY DEF Inv
<1>2. at[c] = "idle"
  BY <1>1 DEF CallerOK, CallOK, Loading, Waiting
<1>3. Quits(c)
  BY <1>1, <1>2, IdleQuits
<1>4. PICK out : out = [kind |-> r, of |-> op[c]]
  OBVIOUS
<1>5. op[c] \in WriteOp
  BY <1>1 DEF CallerOK, CallOK, Loading, WriteOp
<1>6. op[c] \notin AppendOp => op[c].n \notin Committed
  BY <1>1 DEF CallerOK, UnsettledOK, Unsettled
<1>7. OutcomeHolds(out, op[c])
  BY <1>4, <1>5, <1>6 DEF OutcomeHolds
<1> QED BY <1>2, <1>3, <1>4, <1>7, EndKept, FinishFields

LEMMA createOnceKept ==
    ASSUME Inv, NEW c \in Callers, createOnce(c)
    PROVE  Inv'
<1>1. pc[c] = "create" /\ UNCHANGED <<op, attempt, page, view, calls>>
  BY DEF createOnce
<1>2. Types /\ op[c] \in CreateOp /\ op[c].thread \in Threads
  BY <1>1 DEF Inv, CallerOK, CallOK, CreateOp
<1>3. op[c].kind = "create"
  BY <1>2 DEF CreateOp
<1>4. CASE InIndex(op[c].thread)
  <2>1. Finish(c, "exists") /\ UNCHANGED sqlVars
    BY <1>4 DEF createOnce
  <2>2. rows[op[c].thread] # << >>
    BY <1>2, <1>4 DEF Inv, IndexAgrees, StreamsAgree
  <2> QED BY <2>1, <2>2, <1>1, LeaveKept DEF Loading
<1>5. CASE ~InIndex(op[c].thread)
  <2>1. PICK t : t = op[c].thread
    OBVIOUS
  <2>2. PICK m : m = Len(rows[Index])
    OBVIOUS
  <2>3. rows[t] = << >> /\ Len(rows[t]) = 0
    BY <2>1, <1>2, <1>5 DEF Inv, IndexAgrees, StreamsAgree
  <2>4. m \in Nat
    BY <2>2, <1>2, Names, StreamType
  <2>5. PICK b : b = <<Request(t, 0, <<Plain(op[c].n, "thread", "created", t, op[c].branch)>>),
                       Request(Index, m, <<Plain(op[c].n, "index", "created", t, op[c].branch)>>)>>
    OBVIOUS
  <2>6. Submit(c, b) /\ Goto(c, "created") /\ UNCHANGED <<outcome, observed>>
    BY <2>1, <2>2, <2>5, <1>5 DEF createOnce, Load
  <2>7. pc' = [pc EXCEPT ![c] = "created"] /\ pc'[c] = "created"
    BY <2>6, <1>2 DEF Goto, Types
  <2>8. batch'[c] = b
    BY <2>6, <1>2 DEF Submit, Types
  <2>9. Untouched(c, 0, m)'
    <3>1. batch'[c] = <<First(c, 0)', Second(c, m)'>>
      BY <2>1, <2>5, <2>7, <2>8, <1>1, <1>3
         DEF First, Second, ThreadRecord, IndexRecord, NewKind, NewBranch
    <3> QED BY <3>1, <2>7 DEF Untouched, Two
  <2>10. rows' = rows
    BY <2>6 DEF Submit
  <2>11. Found(c, rows[op[c].thread])'
    BY <2>1, <2>3, <2>7, <2>10, <1>1 DEF Found
  <2>12. observed[c] \in Seq(RecordType) /\ observed' = [observed EXCEPT ![c] = observed[c]]
    BY <2>6, <1>2 DEF Types
  <2>13. Fits(op[c], "created") /\ pc[c] \in Loading /\ "created" \in Waiting
    BY <1>1, <1>2 DEF Fits, Loading, Waiting
  <2>14. /\ 0 <= Len(rows[op[c].thread]) /\ ~(0 < Len(rows[op[c].thread]))
         /\ UNCHANGED <<op, attempt, outcome, page, view, calls>>
    BY <2>1, <2>3, <2>6, <1>1
  <2> QED BY <2>2, <2>4, <2>6, <2>7, <2>9, <2>11, <2>12, <2>13, <2>14, SubmitKept
<1> QED BY <1>4, <1>5

LEMMA AppendLoadKept ==
    ASSUME Inv, NEW c \in Callers, AppendLoad(c)
    PROVE  Inv'
<1>1. pc[c] = "append" /\ UNCHANGED <<op, attempt, page, view, calls>>
  BY DEF AppendLoad
<1>2. Types /\ op[c] \in AppendOp /\ op[c].thread \in Threads
  BY <1>1 DEF Inv, CallerOK, CallOK, AppendOp
<1>3. PICK t : t = op[c].thread
  OBVIOUS
<1>4. t \in Streams /\ rows[t] \in Seq(RecordType) /\ Len(rows[t]) \in Nat
  BY <1>2, <1>3, Names, StreamType
<1>5. CASE rows[t] = << >> \/ op[c].branch \notin BranchesOf(rows[t])
  <2>1. Finish(c, "notfound") /\ UNCHANGED sqlVars
    BY <1>3, <1>5 DEF AppendLoad, Load
  <2> QED BY <2>1, <1>1, LeaveKept DEF Loading
<1>6. CASE ~(rows[t] = << >> \/ op[c].branch \notin BranchesOf(rows[t]))
  <2>1. PICK n : n = Len(rows[t])
    OBVIOUS
  <2>2. PICK m : m = Len(rows[Index])
    OBVIOUS
  <2>3. n \in Nat /\ m \in Nat
    BY <2>1, <2>2, <1>2, <1>4, Names, StreamType
  <2>4. PICK b : b = <<Request(t, n, <<Record(<<op[c].n, "thread">>, "event", t, op[c].branch,
                                              "", 0, op[c].time)>>)>>
    OBVIOUS
  <2>5. /\ Submit(c, b) /\ observed' = [observed EXCEPT ![c] = rows[t]]
        /\ Goto(c, "appended") /\ UNCHANGED outcome
    BY <2>1, <2>4, <1>3, <1>6 DEF AppendLoad, Load
  <2>6. pc' = [pc EXCEPT ![c] = "appended"] /\ pc'[c] = "appended"
    BY <2>5, <1>2 DEF Goto, Types
  <2>7. batch'[c] = b /\ rows' = rows
    BY <2>5, <1>2 DEF Submit, Types
  <2>8. Untouched(c, n, m)'
    <3>1. batch'[c] = <<First(c, n)'>>
      BY <2>1, <2>4, <2>6, <2>7, <1>1, <1>3 DEF First, ThreadRecord
    <3> QED BY <3>1, <2>6 DEF Untouched, Two
  <2>9. Found(c, rows[op[c].thread])'
    BY <2>6, <2>7, <1>1, <1>3, <1>6 DEF Found
  <2>10. Fits(op[c], "appended") /\ pc[c] \in Loading /\ "appended" \in Waiting
    BY <1>1, <1>2 DEF Fits, Loading, Waiting
  <2>11. UNCHANGED <<op, attempt, outcome, page, view, calls>>
    BY <2>5, <1>1
  <2>12. n <= Len(rows[op[c].thread]) /\ ~(n < Len(rows[op[c].thread]))
    BY <2>1, <2>3, <1>3
  <2> QED BY <2>1, <2>2, <2>3, <2>5, <2>6, <2>8, <2>9, <2>10, <2>11, <2>12, <1>4, SubmitKept
<1> QED BY <1>5, <1>6

LEMMA ForkLoadKept ==
    ASSUME Inv, NEW c \in Callers, ForkLoad(c)
    PROVE  Inv'
<1>1. pc[c] = "fork" /\ UNCHANGED <<op, attempt, page, view, calls>>
  BY DEF ForkLoad
<1>2. Types /\ op[c] \in ForkOp /\ op[c].thread \in Threads
  BY <1>1 DEF Inv, CallerOK, CallOK, ForkOp
<1>3. PICK t : t = op[c].thread
  OBVIOUS
<1>4. t \in Streams /\ rows[t] \in Seq(RecordType) /\ Len(rows[t]) \in Nat
  BY <1>2, <1>3, Names, StreamType
<1>5. CASE rows[t] = << >> \/ op[c].from \notin BranchesOf(rows[t])
  <2>1. Finish(c, "notfound") /\ UNCHANGED sqlVars
    BY <1>3, <1>5 DEF ForkLoad, Load
  <2> QED BY <2>1, <1>1, LeaveKept DEF Loading
<1>6. CASE /\ ~(rows[t] = << >> \/ op[c].from \notin BranchesOf(rows[t]))
           /\ op[c].branch \in BranchesOf(rows[t])
  <2>1. Finish(c, "exists") /\ UNCHANGED sqlVars
    BY <1>3, <1>6 DEF ForkLoad, Load
  <2> QED BY <2>1, <1>1, <1>3, <1>6, LeaveKept DEF Loading
<1>7. CASE /\ ~(rows[t] = << >> \/ op[c].from \notin BranchesOf(rows[t]))
           /\ ~(op[c].branch \in BranchesOf(rows[t]))
  <2>1. PICK n : n = Len(rows[t])
    OBVIOUS
  <2>2. PICK m : m = Len(rows[Index])
    OBVIOUS
  <2>3. n \in Nat /\ m \in Nat
    BY <2>1, <2>2, <1>2, <1>4, Names, StreamType
  <2>4. PICK b : b = <<Request(t, n, <<Record(<<op[c].n, "thread">>, "forked", t, op[c].branch,
                                              op[c].from, n, op[c].n)>>)>>
    OBVIOUS
  <2>5. Submit(c, b) /\ Goto(c, "forked") /\ UNCHANGED <<outcome, observed>>
    BY <2>1, <2>4, <1>3, <1>7 DEF ForkLoad, Load
  <2>6. pc' = [pc EXCEPT ![c] = "forked"] /\ pc'[c] = "forked"
    BY <2>5, <1>2 DEF Goto, Types
  <2>7. batch'[c] = b /\ rows' = rows
    BY <2>5, <1>2 DEF Submit, Types
  <2>8. Untouched(c, n, m)'
    <3>1. batch'[c] = <<First(c, n)'>>
      BY <2>1, <2>4, <2>6, <2>7, <1>1, <1>3 DEF First, ThreadRecord
    <3> QED BY <3>1, <2>6 DEF Untouched, Two
  <2>9. Found(c, rows[op[c].thread])'
    BY <2>6, <2>7, <1>1, <1>3, <1>7 DEF Found
  <2>10. Fits(op[c], "forked") /\ pc[c] \in Loading /\ "forked" \in Waiting
    BY <1>1, <1>2 DEF Fits, Loading, Waiting
  <2>11. UNCHANGED <<op, attempt, outcome, page, view, calls>>
    BY <2>5, <1>1
  <2>12. n <= Len(rows[op[c].thread]) /\ ~(n < Len(rows[op[c].thread]))
    BY <2>1, <2>3, <1>3
  <2>13. observed[c] \in Seq(RecordType) /\ observed' = [observed EXCEPT ![c] = observed[c]]
    BY <2>5, <1>2 DEF Types
  <2> QED BY <2>1, <2>2, <2>3, <2>5, <2>6, <2>8, <2>9, <2>10, <2>11, <2>12, <2>13, <1>4,
             SubmitKept
<1> QED BY <1>5, <1>6, <1>7

LEMMA ArchiveAppendKept ==
    ASSUME Inv, NEW c \in Callers, ArchiveAppend(c)
    PROVE  Inv'
<1>1. /\ pc[c] = "archiveIndex"
      /\ UNCHANGED <<op, attempt, observed, page, outcome, view, calls>>
  BY DEF ArchiveAppend
<1>2. Types /\ op[c] \in ArchiveOp /\ op[c].thread \in Threads
  BY <1>1 DEF Inv, CallerOK, CallOK, ArchiveOp
<1>3. op[c].kind \in {"archive", "unarchive"}
  BY <1>2 DEF ArchiveOp
<1>4. PICK t : t = op[c].thread
  OBVIOUS
<1>5. PICK n : n = Len(observed[c])
  OBVIOUS
<1>6. PICK m : m = Len(rows[Index])
  OBVIOUS
<1>7. n \in Nat /\ m \in Nat /\ observed[c] \in Seq(RecordType)
  <2>1. observed[c] \in Seq(RecordType)
    BY <1>2 DEF Types
  <2>2. n \in Nat
    BY <2>1, <1>5
  <2>3. m \in Nat
    BY <1>2, <1>6, Names, StreamType
  <2> QED BY <2>1, <2>2, <2>3
<1>8. AttemptOK(c)
  BY DEF Inv, CallerOK
<1>9. /\ n <= Len(rows[t])
      /\ n = Len(rows[t]) => Found(c, rows[t])
      /\ n < Len(rows[t]) => attempt[c] <= Cardinality(Committed)
  BY <1>1, <1>4, <1>5, <1>8 DEF AttemptOK
<1>10. PICK k : k = IF op[c].kind = "archive" THEN "archived" ELSE "unarchived"
  OBVIOUS
<1>11. PICK b : b = <<Request(t, n, <<Plain(op[c].n, "thread", k, t, Main)>>),
                      Request(Index, m, <<Plain(op[c].n, "index", k, t, Main)>>)>>
  OBVIOUS
<1>12. Submit(c, b) /\ Goto(c, "archived")
  BY <1>4, <1>5, <1>6, <1>10, <1>11 DEF ArchiveAppend, Load
<1>13. pc' = [pc EXCEPT ![c] = "archived"] /\ pc'[c] = "archived"
  BY <1>12, <1>2 DEF Goto, Types
<1>14. batch'[c] = b /\ rows' = rows
  BY <1>12, <1>2 DEF Submit, Types
<1>15. Untouched(c, n, m)'
  <2>1. NewKind(c)' = k /\ NewBranch(c)' = Main
    BY <1>1, <1>3, <1>10 DEF NewKind, NewBranch
  <2>2. batch'[c] = <<First(c, n)', Second(c, m)'>>
    BY <2>1, <1>1, <1>4, <1>11, <1>13, <1>14 DEF First, Second, ThreadRecord, IndexRecord
  <2> QED BY <2>2, <1>13 DEF Untouched, Two
<1>16. n = Len(rows[op[c].thread]) => Found(c, rows[op[c].thread])'
  BY <1>1, <1>4, <1>9, <1>13, <1>14 DEF Found
<1>17. observed' = [observed EXCEPT ![c] = observed[c]]
  BY <1>1, <1>2 DEF Types
<1>18. Fits(op[c], "archived") /\ pc[c] \in Loading /\ "archived" \in Waiting
  BY <1>1, <1>2 DEF Fits, Loading, Waiting
<1>19. UNCHANGED <<op, attempt, outcome, page, view, calls>>
  BY <1>1
<1> QED BY <1>4, <1>5, <1>6, <1>7, <1>9, <1>12, <1>13, <1>15, <1>16, <1>17, <1>18, <1>19, SubmitKept

LEMMA ArchiveLoadKept ==
    ASSUME Inv, NEW c \in Callers, ArchiveLoad(c)
    PROVE  Inv'
<1>1. pc[c] = "archive" /\ UNCHANGED <<sqlVars, op, attempt, page, view, calls>>
  BY DEF ArchiveLoad
<1>2. Types /\ op[c] \in ArchiveOp /\ op[c].thread \in Threads /\ CallerOK(c)
  BY <1>1 DEF Inv, CallerOK, CallOK, ArchiveOp
<1>3. PICK t : t = op[c].thread
  OBVIOUS
<1>4. t \in Streams /\ rows[t] \in Seq(RecordType) /\ Len(rows[t]) \in Nat
  BY <1>2, <1>3, Names, StreamType
<1>5. CASE rows[t] = << >>
  <2>1. Finish(c, "notfound")
    BY <1>3, <1>5 DEF ArchiveLoad, Load
  <2> QED BY <2>1, <1>1, LeaveKept DEF Loading
<1>6. CASE rows[t] # << >> /\ ArchivedIn(rows[t]) = (op[c].kind = "archive")
  <2>1. Finish(c, "ok")
    BY <1>3, <1>6 DEF ArchiveLoad, Load
  <2> QED BY <2>1, <1>1, <1>2, LeaveKept DEF Loading
<1>7. CASE rows[t] # << >> /\ ~(ArchivedIn(rows[t]) = (op[c].kind = "archive"))
  <2>1. /\ observed' = [observed EXCEPT ![c] = rows[t]]
        /\ Goto(c, "archiveIndex") /\ UNCHANGED outcome
    BY <1>3, <1>7 DEF ArchiveLoad, Load
  <2>2. /\ pc' = [pc EXCEPT ![c] = "archiveIndex"] /\ pc'[c] = "archiveIndex"
        /\ observed'[c] = rows[t]
    BY <2>1, <1>2 DEF Goto, Types
  <2>3. /\ rows' = rows /\ writer' = writer /\ staged' = staged /\ batch' = batch /\ at' = at
        /\ tries' = tries /\ answer' = answer /\ faults' = faults
    BY <1>1 DEF sqlVars
  <2>4. Types'
    <3>1. pc' \in [Callers -> {"idle"} \union Loading \union Waiting \union Listing]
      BY <2>2, <1>2 DEF Types, Loading
    <3>2. observed' \in [Callers -> Seq(RecordType)]
      BY <2>1, <1>2, <1>4 DEF Types
    <3> QED BY <3>1, <3>2, <2>1, <2>3, <1>1, <1>2 DEF Types
  <2>5. \A d \in Callers \ {c} : Same(d)
    BY <2>1, <2>2, <2>3, <1>1, <1>2 DEF Types, Same
  <2>6. NumbersKept /\ NumbersOK'
    BY <1>1, <1>2, CallsType DEF NumbersKept, Inv, NumbersOK
  <2>7. LockOK'
    BY <2>3 DEF Inv, LockOK
  <2>8. CallerOK(c)'
    <3>1. Committed' = Committed /\ at[c] = "idle"
      BY <2>3, <1>1, <1>2 DEF Committed, CommittedIn, CallerOK, CallOK, Waiting
    <3>2. CallOK(c)'
      BY <2>2, <2>3, <1>1, <1>2 DEF CallerOK, CallOK, Loading, Waiting
    <3>3. TransactionOK(c)' /\ AnswerOK(c)'
      BY <3>1, <2>3 DEF TransactionOK, AnswerOK
    <3>4. UnsettledOK(c)'
      <4>1. op[c].n \notin Committed
        <5>1. op[c] \notin AppendOp
          BY <1>2 DEF ArchiveOp, AppendOp
        <5> QED BY <5>1, <1>1, <1>2 DEF CallerOK, UnsettledOK, Unsettled, Loading
      <4> QED BY <4>1, <3>1, <1>1 DEF UnsettledOK
    <3>5. AttemptOK(c)'
      <4>1. attempt'[c] - 1 <= Cardinality(Committed')
        BY <3>1, <1>1, <1>2 DEF CallerOK, AttemptOK, Loading
      <4>2. Found(c, rows[op[c].thread])'
        BY <2>2, <2>3, <1>1, <1>3, <1>7 DEF Found
      <4>3. Len(observed'[c]) = Len(rows'[op'[c].thread]) /\ Len(rows[t]) \in Nat
        BY <2>2, <2>3, <1>1, <1>3, <1>4
      <4> QED BY <4>1, <4>2, <4>3, <2>2, <2>3, <1>1, <1>3 DEF AttemptOK
    <3>6. OutcomeOK(c)'
      BY <2>1, <1>1, <1>2 DEF CallerOK, OutcomeOK
    <3> QED BY <3>2, <3>3, <3>4, <3>5, <3>6 DEF CallerOK
  <2>9. \A d \in Callers : PageOK(d)'
    <3>1. ASSUME NEW d \in Callers PROVE PageOK(d)'
      <4>1. pc'[d] = pc[d] \/ pc'[d] \notin Listing
        BY <2>2, <2>5 DEF Same, Listing
      <4> QED BY <4>1, <2>3, <1>1, PageFrame DEF Inv
    <3> QED BY <3>1
  <2>10. ViewOK'
    BY <2>3, <1>1, ViewFrame DEF Inv
  <2> QED BY <2>3, <2>4, <2>5, <2>6, <2>7, <2>8, <2>9, <2>10, LocalStep
<1> QED BY <1>5, <1>6, <1>7

-----------------------------------------------------------------------------
(* A call takes the answer.                                                *)

(* The error and the success of a call, and a conflict.                    *)
LEMMA AnswerEnds ==
    ASSUME Inv, NEW c \in Callers, NEW r, pc[c] \in Waiting, Take(c), Finish(c, r),
           UNCHANGED <<op, attempt, page, view, calls>>,
           \/ r \in {"error", "duplicate"}
           \/ r = "ok" /\ answer[c].kind = "ok" /\ pc[c] # "appended"
           \/ /\ r = "conflict" /\ answer[c].kind = "conflict"
              /\ ~(attempt[c] < ThreadRetries)
           \/ /\ r = "exists" /\ answer[c].kind = "conflict" /\ rows[op[c].thread] # << >>
              /\ pc[c] = "created"
    PROVE  Inv'
<1>1. Types /\ CallerOK(c)
  BY DEF Inv
<1>2. Quits(c) /\ at[c] = "answered"
  BY <1>1, TakeQuits
<1>3. PICK out : out = [kind |-> r, of |-> op[c]]
  OBVIOUS
<1>4. op[c] \in WriteOp
  BY <1>1 DEF CallerOK, CallOK, Waiting, WriteOp
<1>5. OutcomeHolds(out, op[c])
  <2>1. CASE r \in {"error", "duplicate"}
    BY <2>1, <1>3, <1>4 DEF OutcomeHolds
  <2>2. CASE r = "ok" /\ answer[c].kind = "ok" /\ pc[c] # "appended"
    <3>1. \E i \in DOMAIN rows[op[c].thread] : StoredAt(c, i)
      BY <2>2, <1>1, <1>2 DEF CallerOK, AnswerOK
    <3>2. op[c] \notin AppendOp
      BY <2>2, <1>1 DEF CallerOK, CallOK, Waiting, AppendOp, CreateOp, ForkOp, ArchiveOp
    <3> QED BY <3>1, <3>2, <2>2, <1>3, <1>4 DEF OutcomeHolds, StoredAt
  <2>3. CASE r = "conflict" /\ answer[c].kind = "conflict" /\ ~(attempt[c] < ThreadRetries)
    <3>1. ThreadRetries < MaxCalls
      BY <2>3, <1>2, AttemptsSuffice
    <3>2. op[c] \notin AppendOp => op[c].n \notin Committed
      BY <2>3, <1>1, <1>2 DEF CallerOK, UnsettledOK, Unsettled
    <3> QED BY <3>1, <3>2, <2>3, <1>3, <1>4 DEF OutcomeHolds
  <2>4. CASE /\ r = "exists" /\ answer[c].kind = "conflict" /\ rows[op[c].thread] # << >>
             /\ pc[c] = "created"
    <3>1. op[c] \notin AppendOp => op[c].n \notin Committed
      BY <2>4, <1>1, <1>2 DEF CallerOK, UnsettledOK, Unsettled
    <3> QED BY <3>1, <2>4, <1>3, <1>4 DEF OutcomeHolds
  <2> QED BY <2>1, <2>2, <2>3, <2>4
<1> QED BY <1>2, <1>3, <1>5, EndKept, FinishFields

LEMMA ConflictKept ==
    ASSUME Inv, NEW c \in Callers, NEW l \in Loading \ {"archiveIndex"}, pc[c] \in Waiting,
           Take(c), Retry(c, l), Fits(op[c], l), answer[c].kind = "conflict",
           UNCHANGED <<op, page, view, calls>>
    PROVE  Inv'
<1>1. Types /\ Quits(c) /\ at[c] = "answered"
  BY TakeQuits DEF Inv
<1>2. CASE attempt[c] < ThreadRetries
  <2>1. /\ attempt' = [attempt EXCEPT ![c] = @ + 1]
        /\ pc' = [pc EXCEPT ![c] = l] /\ UNCHANGED <<outcome, observed>>
    BY <1>2 DEF Retry, Goto
  <2>2. UNCHANGED <<outcome, observed, op, page, view, calls>>
    BY <2>1
  <2> QED BY <2>1, <2>2, <1>1, <1>2, RetryKept
<1>3. CASE ~(attempt[c] < ThreadRetries)
  <2>1. Finish(c, "conflict") /\ UNCHANGED attempt
    BY <1>3 DEF Retry
  <2>2. UNCHANGED <<op, attempt, page, view, calls>>
    BY <2>1
  <2> QED BY <2>1, <2>2, <1>3, AnswerEnds
<1> QED BY <1>2, <1>3

LEMMA AnswerKinds ==
    ASSUME Inv, NEW c \in Callers, Take(c)
    PROVE  /\ answer[c].kind \in {"ok", "duplicate", "conflict", "error"}
           /\ answer[c].kind = "duplicate" => pc[c] = "appended"
           /\ answer[c].kind = "conflict" /\ pc[c] = "created" =>
                 \/ answer[c] = Answer("conflict", Index)
                 \/ answer[c] # Answer("conflict", Index) /\ rows[op[c].thread] # << >>
<1>1. AnswerOK(c) /\ at[c] = "answered" /\ answer[c] \in AnswerType
  BY DEF Inv, CallerOK, Take, Types
<1>2. answer[c].kind \in {"ok", "duplicate", "conflict", "error"}
  BY <1>1 DEF AnswerOK, AnswerType
<1>3. answer[c].kind = "duplicate" => pc[c] = "appended"
  BY <1>1 DEF AnswerOK
<1>4. ASSUME answer[c].kind = "conflict", pc[c] = "created"
      PROVE  \/ answer[c] = Answer("conflict", Index)
             \/ answer[c] # Answer("conflict", Index) /\ rows[op[c].thread] # << >>
  <2>1. answer[c] = [kind |-> answer[c].kind, stream |-> answer[c].stream]
    BY <1>1 DEF AnswerType
  <2>2. CASE answer[c].stream = Index
    BY <2>1, <2>2, <1>4 DEF Answer
  <2>3. CASE answer[c].stream # Index
    <3>1. answer[c] # Answer("conflict", Index)
      BY <2>3 DEF Answer
    <3> QED BY <3>1, <2>3, <1>1, <1>4 DEF AnswerOK
  <2> QED BY <2>2, <2>3
<1> QED BY <1>2, <1>3, <1>4

LEMMA CreateAnsweredKept ==
    ASSUME Inv, NEW c \in Callers, CreateAnswered(c)
    PROVE  Inv'
<1>1. pc[c] = "created" /\ Take(c) /\ UNCHANGED <<op, page, view, calls>>
  BY DEF CreateAnswered
<1>2. pc[c] \in Waiting /\ Fits(op[c], "create")
  BY <1>1 DEF Waiting, Fits, Inv, CallerOK, CallOK
<1>3. CASE answer[c].kind = "ok"
  <2>0. answer[c] # Answer("conflict", Index)
    BY <1>3 DEF Answer
  <2>1. Finish(c, "ok") /\ UNCHANGED attempt
    BY <2>0, <1>3 DEF CreateAnswered
  <2> QED BY <2>1, <1>1, <1>2, <1>3, AnswerEnds
<1>4. CASE answer[c].kind = "error"
  <2>0. answer[c] # Answer("conflict", Index)
    BY <1>4 DEF Answer
  <2>1. Finish(c, "error") /\ UNCHANGED attempt
    BY <2>0, <1>4 DEF CreateAnswered
  <2> QED BY <2>1, <1>1, <1>2, AnswerEnds
<1>5. CASE answer[c].kind = "conflict" /\ answer[c] = Answer("conflict", Index)
  <2>1. Retry(c, "create")
    BY <1>5 DEF CreateAnswered
  <2> QED BY <2>1, <1>1, <1>2, <1>5, ConflictKept DEF Loading
<1>6. CASE /\ answer[c].kind = "conflict" /\ answer[c] # Answer("conflict", Index)
           /\ rows[op[c].thread] # << >>
  <2>1. Finish(c, "exists") /\ UNCHANGED attempt
    BY <1>6 DEF CreateAnswered, Load
  <2> QED BY <2>1, <1>1, <1>2, <1>6, AnswerEnds
<1> QED BY <1>1, <1>3, <1>4, <1>5, <1>6, AnswerKinds

LEMMA ForkAnsweredKept ==
    ASSUME Inv, NEW c \in Callers, ForkAnswered(c)
    PROVE  Inv'
<1>1. pc[c] = "forked" /\ Take(c) /\ UNCHANGED <<op, page, view, calls>>
  BY DEF ForkAnswered
<1>2. pc[c] \in Waiting /\ Fits(op[c], "fork")
  BY <1>1 DEF Waiting, Fits, Inv, CallerOK, CallOK
<1>3. CASE answer[c].kind = "ok"
  <2>1. Finish(c, "ok") /\ UNCHANGED attempt
    BY <1>3 DEF ForkAnswered
  <2> QED BY <2>1, <1>1, <1>2, <1>3, AnswerEnds
<1>4. CASE answer[c].kind = "conflict"
  <2>1. Retry(c, "fork")
    BY <1>4 DEF ForkAnswered
  <2> QED BY <2>1, <1>1, <1>2, <1>4, ConflictKept DEF Loading
<1>5. CASE answer[c].kind # "ok" /\ answer[c].kind # "conflict"
  <2>1. Finish(c, "error") /\ UNCHANGED attempt
    BY <1>5 DEF ForkAnswered
  <2> QED BY <2>1, <1>1, <1>2, AnswerEnds
<1> QED BY <1>3, <1>4, <1>5

LEMMA ArchiveAnsweredKept ==
    ASSUME Inv, NEW c \in Callers, ArchiveAnswered(c)
    PROVE  Inv'
<1>1. pc[c] = "archived" /\ Take(c) /\ UNCHANGED <<op, page, view, calls>>
  BY DEF ArchiveAnswered
<1>2. pc[c] \in Waiting /\ Fits(op[c], "archive")
  BY <1>1 DEF Waiting, Fits, Inv, CallerOK, CallOK
<1>3. CASE answer[c].kind = "ok"
  <2>1. Finish(c, "ok") /\ UNCHANGED attempt
    BY <1>3 DEF ArchiveAnswered
  <2> QED BY <2>1, <1>1, <1>2, <1>3, AnswerEnds
<1>4. CASE answer[c].kind = "conflict"
  <2>1. Retry(c, "archive")
    BY <1>4 DEF ArchiveAnswered
  <2> QED BY <2>1, <1>1, <1>2, <1>4, ConflictKept DEF Loading
<1>5. CASE answer[c].kind # "ok" /\ answer[c].kind # "conflict"
  <2>1. Finish(c, "error") /\ UNCHANGED attempt
    BY <1>5 DEF ArchiveAnswered
  <2> QED BY <2>1, <1>1, <1>2, AnswerEnds
<1> QED BY <1>3, <1>4, <1>5

(* An append that returns a sequence returns the one its record has.       *)
LEMMA FinishAtKept ==
    ASSUME Inv, NEW c \in Callers, pc[c] = "appended", Take(c),
           NEW i \in DOMAIN rows[op[c].thread], StoredAt(c, i), FinishAt(c, i),
           UNCHANGED <<op, attempt, page, view, calls>>
    PROVE  Inv'
<1>1. Types /\ Quits(c) /\ at[c] = "answered" /\ pc[c] \in Waiting /\ op[c] \in AppendOp
  BY TakeQuits DEF Inv, Waiting, CallerOK, CallOK
<1>2. PICK out : out = [kind |-> "ok", of |-> op[c], sequence |-> i]
  OBVIOUS
<1>3. OutcomeHolds(out, op[c])
  BY <1>1, <1>2 DEF OutcomeHolds, StoredAt, WriteOp
<1>4. /\ pc' = [pc EXCEPT ![c] = "idle"] /\ outcome' = [outcome EXCEPT ![c] = out]
      /\ observed' = [observed EXCEPT ![c] = << >>]
  BY <1>2 DEF FinishAt, Goto
<1> QED BY <1>1, <1>3, <1>4, EndKept

LEMMA AppendAnsweredKept ==
    ASSUME Inv, NEW c \in Callers, AppendAnswered(c)
    PROVE  Inv'
<1>1. pc[c] = "appended" /\ Take(c) /\ UNCHANGED <<op, page, view, calls>>
  BY DEF AppendAnswered
<1>2. pc[c] \in Waiting /\ Fits(op[c], "append") /\ at[c] = "answered"
  BY <1>1 DEF Waiting, Fits, Inv, CallerOK, CallOK, Take
<1>3. CASE answer[c].kind = "ok"
  <2>1. FinishAt(c, Len(observed[c]) + 1) /\ UNCHANGED attempt
    BY <1>3 DEF AppendAnswered
  <2>2. PICK i \in DOMAIN rows[op[c].thread] : StoredAt(c, i) /\ i = Len(observed[c]) + 1
    BY <1>1, <1>2, <1>3 DEF Inv, CallerOK, AnswerOK
  <2> QED BY <2>1, <2>2, <1>1, FinishAtKept
<1>4. CASE answer[c].kind = "conflict"
  <2>1. Retry(c, "append")
    BY <1>4 DEF AppendAnswered
  <2> QED BY <2>1, <1>1, <1>2, <1>4, ConflictKept DEF Loading
<1>5. CASE answer[c].kind = "error"
  <2>1. Finish(c, "error") /\ UNCHANGED attempt
    BY <1>5 DEF AppendAnswered
  <2> QED BY <2>1, <1>1, <1>2, AnswerEnds
<1>6. CASE answer[c].kind = "duplicate"
  <2>1. /\ IF recoverDuplicateAppend(c) = {} THEN Finish(c, "duplicate")
           ELSE \E i \in recoverDuplicateAppend(c) : FinishAt(c, i)
        /\ UNCHANGED attempt
    BY <1>6 DEF AppendAnswered
  <2>2. CASE recoverDuplicateAppend(c) = {}
    <3>1. Finish(c, "duplicate") /\ UNCHANGED attempt
      BY <2>1, <2>2
    <3> QED BY <3>1, <1>1, <1>2, AnswerEnds
  <2>3. CASE recoverDuplicateAppend(c) # {}
    <3>1. PICK i \in recoverDuplicateAppend(c) : FinishAt(c, i)
      BY <2>1, <2>3
    <3>2. i \in DOMAIN rows[op[c].thread] /\ StoredAt(c, i)
      BY <3>1 DEF recoverDuplicateAppend, StoredAt, Load
    <3> QED BY <3>1, <3>2, <2>1, <1>1, FinishAtKept
  <2> QED BY <2>2, <2>3
<1> QED BY <1>1, <1>3, <1>4, <1>5, <1>6, AnswerKinds

-----------------------------------------------------------------------------
(* Beginning calls.                                                        *)

LEMMA BeginKept ==
    ASSUME Inv, NEW c \in Callers, NEW t \in Threads
    PROVE  /\ \A b \in Branches : BeginCreate(c, t, b) => Inv'
           /\ \A b \in Branches : BeginAppend(c, t, b) => Inv'
           /\ \A from, to \in Branches : BeginFork(c, t, from, to) => Inv'
           /\ \A k \in {"archive", "unarchive"} : BeginArchive(c, t, k) => Inv'
<1>1. calls \in Nat
  BY CallsType DEF Inv
<1>2. ASSUME NEW o, NEW l, Start(c, o, l)
      PROVE  calls + 1 \in 1 .. MaxCalls /\ calls + 1 \in Nat
  BY <1>1, <1>2, Bounds DEF Start
<1>3. ASSUME NEW b \in Branches, BeginCreate(c, t, b) PROVE Inv'
  <2>1. PICK o : o = [kind |-> "create", n |-> calls + 1, thread |-> t, branch |-> b]
    OBVIOUS
  <2>2. Start(c, o, "create")
    BY <2>1, <1>3 DEF BeginCreate
  <2>3. o \in CreateOp /\ o.n = calls + 1
    BY <2>1, <2>2, <1>2 DEF CreateOp
  <2> QED BY <2>2, <2>3, StartKept DEF WriteOp, Fits, Loading
<1>4. ASSUME NEW b \in Branches, BeginAppend(c, t, b) PROVE Inv'
  <2>1. PICK o : o = [kind |-> "append", n |-> calls + 1, thread |-> t, branch |-> b,
                      time |-> calls + 1]
    OBVIOUS
  <2>2. Start(c, o, "append")
    BY <2>1, <1>4 DEF BeginAppend
  <2>3. o \in AppendOp /\ o.n = calls + 1
    BY <2>1, <2>2, <1>2 DEF AppendOp
  <2> QED BY <2>2, <2>3, StartKept DEF WriteOp, Fits, Loading
<1>5. ASSUME NEW from \in Branches, NEW to \in Branches, BeginFork(c, t, from, to) PROVE Inv'
  <2>1. PICK o : o = [kind |-> "fork", n |-> calls + 1, thread |-> t, branch |-> to,
                      from |-> from]
    OBVIOUS
  <2>2. Start(c, o, "fork")
    BY <2>1, <1>5 DEF BeginFork
  <2>3. o \in ForkOp /\ o.n = calls + 1
    BY <2>1, <2>2, <1>2 DEF ForkOp
  <2> QED BY <2>2, <2>3, StartKept DEF WriteOp, Fits, Loading
<1>6. ASSUME NEW k \in {"archive", "unarchive"}, BeginArchive(c, t, k) PROVE Inv'
  <2>1. PICK o : o = [kind |-> k, n |-> calls + 1, thread |-> t]
    OBVIOUS
  <2>2. Start(c, o, "archive")
    BY <2>1, <1>6 DEF BeginArchive
  <2>3. o \in ArchiveOp /\ o.n = calls + 1
    BY <2>1, <2>2, <1>2 DEF ArchiveOp
  <2> QED BY <2>2, <2>3, StartKept DEF WriteOp, Fits, Loading
<1> QED BY <1>3, <1>4, <1>5, <1>6

(* A repeated append keeps the number of the call it repeats.              *)
LEMMA RepeatAppendKept ==
    ASSUME Inv, NEW c \in Callers, NEW fixed \in BOOLEAN, RepeatAppend(c, fixed)
    PROVE  Inv'
<1>1. outcome[c].kind = "error" /\ outcome[c].of.kind = "append"
  BY DEF RepeatAppend
<1>2. outcome[c].of = op[c] /\ op[c] \in WriteOp
  BY <1>1 DEF Inv, CallerOK, OutcomeOK, OutcomeHolds, NoOutcome
<1>3. op[c] \in AppendOp
  BY <1>1, <1>2 DEF WriteOp, CreateOp, AppendOp, ForkOp, ArchiveOp
<1>4. calls \in Nat
  BY CallsType DEF Inv
<1>5. PICK o : o = [outcome[c].of EXCEPT !.time = IF fixed THEN @ ELSE calls + 1]
  OBVIOUS
<1>6. o \in AppendOp /\ o.n = op[c].n
  BY <1>2, <1>3, <1>4, <1>5 DEF AppendOp
<1>7. Start(c, o, "append")
  BY <1>5 DEF RepeatAppend
<1> QED BY <1>3, <1>6, <1>7, StartKept DEF WriteOp, Fits, Loading

-----------------------------------------------------------------------------
(* List.                                                                   *)

(* A step of a list leaves everything but its caller's page alone.         *)
ListStep(c) ==
    /\ UNCHANGED <<sqlVars, attempt, observed, view>>
    /\ at[c] = "idle" /\ pc[c] \in {"idle"} \union Listing
    /\ page' \in [Callers -> PageType]
    /\ \A d \in Callers \ {c} : page'[d] = page[d] /\ op'[d] = op[d] /\ outcome'[d] = outcome[d]
    /\ outcome' = [d \in Callers |-> outcome'[d]]
    /\ op' \in [Callers -> WriteOp \union ReadOp]
    /\ \/ op'[c] = op[c]
       \/ op'[c] = [kind |-> "list"] /\ outcome'[c] = NoOutcome
    /\ calls' \in 0 .. MaxCalls /\ calls' >= calls

LEMMA ListStepKept ==
    ASSUME Inv, NEW c \in Callers, NEW l \in {"idle"} \union Listing, ListStep(c),
           pc' = [pc EXCEPT ![c] = l], PageOK(c)',
           \/ outcome'[c] = outcome[c] /\ pc[c] \in Listing
           \/ outcome'[c] = NoOutcome
           \/ outcome'[c].kind = "listed" /\ outcome'[c].due \subseteq outcome'[c].threads
    PROVE  Inv'
<1>1. Types /\ CallerOK(c) /\ calls \in Nat
  BY CallsType DEF Inv
<1>2. /\ rows' = rows /\ writer' = writer /\ staged' = staged /\ batch' = batch /\ at' = at
      /\ tries' = tries /\ answer' = answer /\ faults' = faults
      /\ attempt' = attempt /\ observed' = observed /\ view' = view
  BY DEF ListStep, sqlVars
<1>3. pc'[c] = l /\ pc' \in [Callers -> {"idle"} \union Loading \union Waiting \union Listing]
  BY <1>1 DEF Types
<1>4. Types'
  BY <1>1, <1>2, <1>3 DEF Types, ListStep
<1>5. \A d \in Callers \ {c} : Same(d)
  BY <1>1, <1>2 DEF Same, Types, ListStep
<1>6. [kind |-> "list"] \notin WriteOp
  BY DEF WriteOp, CreateOp, AppendOp, ForkOp, ArchiveOp
<1>7. \A d \in Callers : op'[d] \in WriteOp => op'[d] = op[d]
  BY <1>6 DEF ListStep
<1>8. NumbersKept
  BY <1>1, <1>7, Bounds DEF NumbersKept, ListStep
<1>9. NumbersOK'
  BY <1>7 DEF Inv, NumbersOK
<1>10. LockOK'
  BY <1>2 DEF Inv, LockOK
<1>11. CallerOK(c)'
  <2>1. at'[c] = "idle" /\ l \notin Loading /\ l \notin Waiting
    BY <1>2 DEF ListStep, Listing, Loading, Waiting
  <2>2. op'[c] \in WriteOp => op'[c].n <= calls'
    <3>1. op'[c] \in WriteOp => op'[c] = op[c] /\ op[c].n \in Nat
      BY <1>7, OpNumbers
    <3> QED BY <3>1, <1>1, Bounds DEF ListStep, CallerOK, CallOK
  <2>3. CallOK(c)'
    BY <2>1, <2>2, <1>3 DEF CallOK, Loading, Waiting
  <2>4. TransactionOK(c)' /\ AnswerOK(c)' /\ UnsettledOK(c)' /\ AttemptOK(c)'
    BY <2>1, <1>3 DEF TransactionOK, AnswerOK, UnsettledOK, Unsettled, AttemptOK, Loading
  <2>5. OutcomeOK(c)'
    <3>1. pc[c] \in Listing => outcome[c] = NoOutcome \/ (outcome[c].kind = "listed" /\ outcome[c].due \subseteq outcome[c].threads)
      BY <1>1 DEF CallerOK, OutcomeOK, Listing
    <3> QED BY <3>1 DEF OutcomeOK
  <2> QED BY <2>3, <2>4, <2>5 DEF CallerOK
<1>12. \A d \in Callers : PageOK(d)'
  <2>1. ASSUME NEW d \in Callers \ {c} PROVE PageOK(d)'
    <3>1. pc'[d] = pc[d] /\ page'[d] = page[d]
      BY <1>5 DEF Same, ListStep
    <3> QED BY <3>1, <1>2, PageFrame DEF Inv
  <2> QED BY <2>1
<1>13. ViewOK'
  BY <1>2, ViewFrame DEF Inv
<1> QED BY <1>2, <1>4, <1>5, <1>8, <1>9, <1>10, <1>11, <1>12, <1>13, LocalStep

LEMMA BeginListKept ==
    ASSUME Inv, NEW c \in Callers, BeginList(c)
    PROVE  Inv'
<1>1. PICK due : due = {t \in Threads : rows[t] # << >> /\ ~ArchivedIn(rows[t])}
  OBVIOUS
<1>2. /\ pc[c] = "idle" /\ calls < MaxCalls /\ calls' = calls + 1
      /\ op' = [op EXCEPT ![c] = [kind |-> "list"]]
      /\ outcome' = [outcome EXCEPT ![c] = NoOutcome]
      /\ page' = [page EXCEPT ![c] = [NoPage EXCEPT !.due = due]]
      /\ pc' = [pc EXCEPT ![c] = "listIndex"]
      /\ UNCHANGED <<sqlVars, attempt, observed, view>>
  BY <1>1 DEF BeginList, Goto
<1>3. Types /\ calls \in Nat /\ at[c] = "idle"
  BY <1>2, CallsType DEF Inv, CallerOK, CallOK, Waiting
<1>4. NoPage \in PageType
  BY DEF NoPage, PageType
<1>5. PICK p : p = [NoPage EXCEPT !.due = due]
  OBVIOUS
<1>5a. p \in PageType /\ p.due = due
  BY <1>1, <1>4, <1>5 DEF PageType
<1>6. ListStep(c)
  <2>1. page' \in [Callers -> PageType]
    BY <1>2, <1>3, <1>5, <1>5a DEF Types
  <2>2. \A d \in Callers \ {c} : page'[d] = page[d] /\ op'[d] = op[d] /\ outcome'[d] = outcome[d]
    BY <1>2, <1>3 DEF Types
  <2>3. outcome' = [d \in Callers |-> outcome'[d]] /\ outcome'[c] = NoOutcome
    BY <1>2, <1>3 DEF Types
  <2>4. op' \in [Callers -> WriteOp \union ReadOp] /\ op'[c] = [kind |-> "list"]
    BY <1>2, <1>3 DEF Types, ReadOp
  <2>5. calls' \in 0 .. MaxCalls /\ calls' >= calls
    BY <1>2, <1>3, Bounds
  <2> QED BY <2>1, <2>2, <2>3, <2>4, <2>5, <1>2, <1>3 DEF ListStep
<1>7. pc'[c] = "listIndex" /\ outcome'[c] = NoOutcome /\ page'[c].due = due /\ rows' = rows
  BY <1>2, <1>3, <1>5, <1>5a DEF Types, sqlVars
<1>8. PageOK(c)'
  BY <1>1, <1>7 DEF PageOK
<1> QED BY <1>2, <1>6, <1>7, <1>8, ListStepKept DEF Listing

LEMMA ListIndexKept ==
    ASSUME Inv, NEW c \in Callers, ListIndex(c)
    PROVE  Inv'
<1>1. PICK left : left = OrderOf(rows[Index])
  OBVIOUS
<1>2. /\ pc[c] = "listIndex" /\ page' = [page EXCEPT ![c].left = left]
      /\ pc' = [pc EXCEPT ![c] = "list"]
      /\ UNCHANGED <<sqlVars, op, attempt, observed, outcome, view, calls>>
  BY <1>1 DEF ListIndex, Load, Goto
<1>3. Types /\ calls \in Nat /\ at[c] = "idle" /\ PageOK(c)
  BY <1>2, CallsType DEF Inv, CallerOK, CallOK, Waiting
<1>4. rows[Index] \in Seq(RecordType)
  BY <1>3, Names, StreamType
<1>5. /\ left \in Seq(Threads)
      /\ \A i \in DOMAIN rows[Index] : \E k \in DOMAIN left : left[k] = rows[Index][i].thread
  BY <1>1, <1>4, OrderCovers
<1>6. page[c] \in PageType
  BY <1>3 DEF Types
<1>7. /\ page' \in [Callers -> PageType] /\ page'[c].left = left /\ page'[c].due = page[c].due
      /\ \A d \in Callers \ {c} : page'[d] = page[d]
  BY <1>2, <1>3, <1>5, <1>6 DEF Types, PageType
<1>8. ListStep(c)
  BY <1>2, <1>3, <1>7, CallsType, Bounds DEF ListStep, Types, Listing
<1>9. pc'[c] = "list" /\ rows' = rows
  BY <1>2, <1>3 DEF Types, sqlVars
<1>10. PageOK(c)'
  <2>1. \A t \in page[c].due : rows[t] # << >> /\ ~ArchivedIn(rows[t])
    BY <1>2, <1>3 DEF PageOK, Listing
  <2>2. ASSUME NEW t \in page[c].due PROVE \E k \in DOMAIN left : left[k] = t
    <3>1. t \in Threads
      BY <1>6 DEF PageType
    <3>2. InIndex(t)
      BY <3>1, <2>1 DEF Inv, IndexAgrees, StreamsAgree
    <3> QED BY <3>2, <1>5 DEF InIndex
  <2> QED BY <2>1, <2>2, <1>7, <1>9 DEF PageOK
<1>11. outcome'[c] = outcome[c] /\ pc[c] \in Listing /\ "list" \in Listing
  BY <1>2 DEF Listing
<1> QED BY <1>2, <1>8, <1>10, <1>11, ListStepKept

LEMMA ListThreadKept ==
    ASSUME Inv, NEW c \in Callers, ListThread(c)
    PROVE  Inv'
<1>1. PICK left : left = page[c].left
  OBVIOUS
<1>2. PICK t : t = Head(left)
  OBVIOUS
<1>3. PICK found : found = IF rows[t] = << >> \/ ArchivedIn(rows[t]) THEN page[c].threads
                           ELSE page[c].threads \union {t}
  OBVIOUS
<1>4. /\ pc[c] = "list" /\ left # << >>
      /\ page' = [page EXCEPT ![c].left = Tail(left), ![c].threads = found]
      /\ UNCHANGED <<sqlVars, op, pc, attempt, observed, outcome, view, calls>>
  BY <1>1, <1>2, <1>3 DEF ListThread, Load
<1>5. Types /\ calls \in Nat /\ at[c] = "idle" /\ PageOK(c)
  BY <1>4, CallsType DEF Inv, CallerOK, CallOK, Waiting
<1>6. page[c] \in PageType /\ left \in Seq(Threads)
  BY <1>1, <1>5 DEF Types, PageType
<1>7. t \in Threads /\ Tail(left) \in Seq(Threads)
  BY <1>2, <1>4, <1>6
<1>8. found \in SUBSET Threads
  BY <1>3, <1>6, <1>7 DEF PageType
<1>9. /\ page' \in [Callers -> PageType]
      /\ page'[c].left = Tail(left) /\ page'[c].threads = found /\ page'[c].due = page[c].due
      /\ \A d \in Callers \ {c} : page'[d] = page[d]
  BY <1>4, <1>5, <1>6, <1>7, <1>8 DEF Types, PageType
<1>10. ListStep(c)
  BY <1>4, <1>5, <1>9, CallsType, Bounds DEF ListStep, Types, Listing
<1>11. rows' = rows /\ pc'[c] = "list" /\ pc' = [pc EXCEPT ![c] = "list"]
  BY <1>4, <1>5 DEF Types, sqlVars
<1>12. PageOK(c)'
  <2>1. \A x \in page[c].due : rows[x] # << >> /\ ~ArchivedIn(rows[x])
    BY <1>4, <1>5 DEF PageOK, Listing
  <2>2. ASSUME NEW x \in page[c].due
        PROVE  x \in found \/ \E i \in DOMAIN Tail(left) : Tail(left)[i] = x
    <3>1. CASE x \in page[c].threads
      BY <3>1, <1>3
    <3>2. CASE x \notin page[c].threads
      <4>1. PICK i \in DOMAIN left : left[i] = x
        BY <3>2, <1>1, <1>4, <1>5 DEF PageOK
      <4>2. CASE i = 1
        <5>1. x = t
          BY <4>1, <4>2, <1>2, <1>4, <1>6
        <5> QED BY <5>1, <2>1, <1>3
      <4>3. CASE i # 1
        <5>1. i - 1 \in DOMAIN Tail(left) /\ Tail(left)[i - 1] = left[i]
          BY <4>1, <4>3, <1>4, <1>6
        <5> QED BY <5>1, <4>1
      <4> QED BY <4>2, <4>3
    <3> QED BY <3>1, <3>2
  <2> QED BY <2>1, <2>2, <1>9, <1>11 DEF PageOK
<1>13. outcome'[c] = outcome[c] /\ pc[c] \in Listing /\ "list" \in Listing
  BY <1>4 DEF Listing
<1> QED BY <1>10, <1>11, <1>12, <1>13, ListStepKept

LEMMA ListReturnsKept ==
    ASSUME Inv, NEW c \in Callers, ListReturns(c)
    PROVE  Inv'
<1>1. PICK out : out = [kind |-> "listed", threads |-> page[c].threads, due |-> page[c].due]
  OBVIOUS
<1>2. /\ pc[c] = "list" /\ page[c].left = << >> /\ pc' = [pc EXCEPT ![c] = "idle"]
      /\ outcome' = [outcome EXCEPT ![c] = out] /\ page' = [page EXCEPT ![c] = NoPage]
      /\ UNCHANGED <<sqlVars, op, attempt, observed, view, calls>>
  BY <1>1 DEF ListReturns, Goto
<1>3. Types /\ calls \in Nat /\ at[c] = "idle" /\ PageOK(c)
  BY <1>2, CallsType DEF Inv, CallerOK, CallOK, Waiting
<1>4. NoPage \in PageType
  BY DEF NoPage, PageType
<1>5. /\ page' \in [Callers -> PageType] /\ outcome'[c] = out
      /\ outcome' = [d \in Callers |-> outcome'[d]]
      /\ \A d \in Callers \ {c} : page'[d] = page[d] /\ outcome'[d] = outcome[d]
  BY <1>2, <1>3, <1>4 DEF Types
<1>6. ListStep(c)
  BY <1>2, <1>3, <1>5, CallsType, Bounds DEF ListStep, Types, Listing
<1>7. pc'[c] = "idle"
  BY <1>2, <1>3 DEF Types
<1>8. PageOK(c)'
  BY <1>7 DEF PageOK, Listing
<1>9. out.due \subseteq out.threads /\ out.kind = "listed"
  BY <1>1, <1>2, <1>3 DEF PageOK
<1> QED BY <1>2, <1>5, <1>6, <1>8, <1>9, ListStepKept

-----------------------------------------------------------------------------
(* EnsureFresh.                                                            *)

LEMMA SubSeqJoin ==
    ASSUME NEW recs \in Seq(RecordType), NEW a \in 0 .. Len(recs), NEW b \in a .. Len(recs)
    PROVE  /\ SubSeq(recs, 1, a) \in Seq(RecordType) /\ SubSeq(recs, a + 1, b) \in Seq(RecordType)
           /\ SubSeq(recs, 1, a) \o SubSeq(recs, a + 1, b) = SubSeq(recs, 1, b)
<1>1. /\ Len(recs) \in Nat /\ a \in Nat /\ b \in Nat /\ a <= b /\ b <= Len(recs)
      /\ \A i \in 1 .. Len(recs) : recs[i] \in RecordType
  OBVIOUS
<1>2. PICK p : p = SubSeq(recs, 1, a)
  OBVIOUS
<1>3. PICK q : q = SubSeq(recs, a + 1, b)
  OBVIOUS
<1>4. PICK w : w = SubSeq(recs, 1, b)
  OBVIOUS
<1>5. p \in Seq(RecordType) /\ Len(p) = a /\ \A i \in 1 .. a : p[i] = recs[i]
  BY <1>1, <1>2
<1>6. q \in Seq(RecordType) /\ Len(q) = b - a /\ \A i \in 1 .. b - a : q[i] = recs[a + i]
  BY <1>1, <1>3
<1>7. w \in Seq(RecordType) /\ Len(w) = b /\ \A i \in 1 .. b : w[i] = recs[i]
  BY <1>1, <1>4
<1>8. p \o q \in Seq(RecordType) /\ Len(p \o q) = b
  <2>0. p \in Seq(RecordType) /\ q \in Seq(RecordType)
    BY <1>5, <1>6
  <2>1. p \o q \in Seq(RecordType) /\ Len(p \o q) = Len(p) + Len(q)
    BY <2>0
  <2>2. a + (b - a) = b
    BY <1>1
  <2> QED BY <2>1, <2>2, <1>5, <1>6
<1>9. ASSUME NEW i \in 1 .. b PROVE (p \o q)[i] = w[i]
  <2>1. CASE i <= a
    BY <2>1, <1>1, <1>5, <1>6, <1>7
  <2>2. CASE i > a
    <3>1. i - a \in 1 .. b - a /\ a + (i - a) = i
      BY <2>2, <1>1
    <3>2. (p \o q)[i] = q[i - a]
      BY <3>1, <2>2, <1>1, <1>5, <1>6
    <3>3. q[i - a] = recs[i]
      BY <3>1, <1>6
    <3> QED BY <3>2, <3>3, <1>7
  <2>3. i <= a \/ i > a
    BY <1>1
  <2> QED BY <2>1, <2>2, <2>3
<1>10. p \o q = w
  BY <1>7, <1>8, <1>9
<1> QED BY <1>2, <1>3, <1>4, <1>5, <1>6, <1>10

LEMMA ViewStepKept ==
    ASSUME Inv, UNCHANGED <<sqlVars, op, pc, attempt, observed, page, outcome>>,
           calls' \in 0 .. MaxCalls, calls' >= calls, view' \in ViewType, ViewOK'
    PROVE  Inv'
<1>1. /\ rows' = rows /\ writer' = writer /\ staged' = staged /\ batch' = batch /\ at' = at
      /\ tries' = tries /\ answer' = answer /\ faults' = faults
  BY DEF sqlVars
<1>2. Types /\ calls \in Nat /\ calls' \in Nat
  BY CallsType, Bounds DEF Inv
<1>3. Types'
  BY <1>1, <1>2 DEF Types
<1>4. NumbersKept /\ NumbersOK'
  BY <1>2 DEF NumbersKept, NumbersOK, Inv
<1>5. LockOK'
  BY <1>1 DEF LockOK, Inv
<1>6. \A d \in Callers : CallerOK(d)'
  <2>1. ASSUME NEW d \in Callers PROVE CallerOK(d)'
    <3>1. Same(d)
      BY <1>1 DEF Same
    <3> QED BY <3>1, <1>1, <1>4, OtherCaller
  <2> QED BY <2>1
<1>7. \A d \in Callers : PageOK(d)'
  <2>1. ASSUME NEW d \in Callers PROVE PageOK(d)'
    BY <1>1, PageFrame DEF Inv
  <2> QED BY <2>1
<1>8. RowsOK' /\ IndexAgrees'
  BY <1>1, <1>2, RowsFrame
<1> QED BY <1>3, <1>4, <1>5, <1>6, <1>7, <1>8 DEF Inv

LEMMA BeginEnsureFreshKept ==
    ASSUME Inv, BeginEnsureFresh
    PROVE  Inv'
<1>1. /\ calls < MaxCalls /\ calls' = calls + 1
      /\ view' = [view EXCEPT !.running = TRUE, !.last = << >>, !.since = Len(rows[Index])]
      /\ UNCHANGED <<sqlVars, op, pc, attempt, observed, page, outcome>>
  BY DEF BeginEnsureFresh
<1>2. Types /\ calls \in Nat /\ view \in ViewType /\ rows' = rows
  BY <1>1, CallsType DEF Inv, Types, sqlVars
<1>3. Len(rows[Index]) \in Nat
  BY <1>2, Names, StreamType
<1>4. PICK v : v = view'
  OBVIOUS
<1>5. /\ v.entries = view.entries /\ v.checkpoint = view.checkpoint /\ v.last = << >>
      /\ v.since = Len(rows[Index]) /\ v.running /\ v \in ViewType
  <2>1. /\ v.entries = view.entries /\ v.checkpoint = view.checkpoint /\ v.last = << >>
        /\ v.since = Len(rows[Index]) /\ v.running = TRUE
    BY <1>1, <1>2, <1>4 DEF ViewType
  <2>2. << >> \in Seq(Nat)
    OBVIOUS
  <2>3. v \in ViewType
    BY <2>2, <1>1, <1>2, <1>3, <1>4 DEF ViewType
  <2> QED BY <2>1, <2>3
<1>6. ViewOK'
  BY <1>2, <1>3, <1>4, <1>5 DEF Inv, ViewOK, Absent
<1>7. calls' \in 0 .. MaxCalls /\ calls' >= calls
  BY <1>1, <1>2, Bounds
<1> QED BY <1>1, <1>4, <1>5, <1>6, <1>7, ViewStepKept

LEMMA RunOnceKept ==
    ASSUME Inv, RunOnce
    PROVE  Inv'
<1>1. PICK recs : recs = rows[Index]
  OBVIOUS
<1>2. PICK cp : cp = view.checkpoint
  OBVIOUS
<1>3. PICK upto : upto = cp + (IF BatchSize = 0 THEN Len(recs) ELSE BatchSize)
  OBVIOUS
<1>4. PICK next : next = IF upto < Len(recs) THEN upto ELSE Len(recs)
  OBVIOUS
<1>5. /\ view' = [view EXCEPT !.entries = Project(@, SubSeq(recs, cp + 1, next)),
                              !.checkpoint = next, !.last = <<next>>,
                              !.running = <<next>> # view.last]
      /\ UNCHANGED <<sqlVars, op, pc, attempt, observed, page, outcome, calls>>
  BY <1>1, <1>2, <1>3, <1>4 DEF RunOnce, Load
<1>6. /\ Types /\ ViewOK /\ view \in ViewType /\ rows' = rows
      /\ recs \in Seq(RecordType) /\ Len(recs) \in Nat
  <2>1. Types /\ ViewOK /\ view \in ViewType /\ rows' = rows
    BY <1>5 DEF Inv, Types, sqlVars
  <2> QED BY <2>1, <1>1, Names, StreamType
<1>7. cp \in Nat /\ cp <= Len(recs)
  BY <1>1, <1>2, <1>6 DEF ViewType, ViewOK
<1>8. cp \in 0 .. Len(recs) /\ next \in cp .. Len(recs) /\ next \in Nat
  BY <1>3, <1>4, <1>6, <1>7, Bounds
<1>9. next = cp => next = Len(recs)
  BY <1>3, <1>4, <1>6, <1>7, Bounds
<1>10. view.entries = Project(Absent, SubSeq(recs, 1, cp))
  BY <1>1, <1>2, <1>6 DEF ViewOK
<1>11. PICK e : e = Project(view.entries, SubSeq(recs, cp + 1, next))
  OBVIOUS
<1>12. e = Project(Absent, SubSeq(recs, 1, next))
  <2>1. PICK p : p = SubSeq(recs, 1, cp)
    OBVIOUS
  <2>2. PICK q : q = SubSeq(recs, cp + 1, next)
    OBVIOUS
  <2>3. p \in Seq(RecordType) /\ q \in Seq(RecordType) /\ p \o q = SubSeq(recs, 1, next)
    BY <2>1, <2>2, <1>6, <1>8, SubSeqJoin
  <2>4. Project(Absent, p \o q) = Project(Project(Absent, p), q)
    BY <2>3, ProjectInRounds
  <2> QED BY <2>1, <2>2, <2>3, <2>4, <1>10, <1>11
<1>13. e \in [Threads -> EntryType]
  <2>1. SubSeq(recs, cp + 1, next) \in Seq(RecordType)
    BY <1>6, <1>8, SubSeqJoin
  <2>2. view.entries \in [Threads -> EntryType]
    BY <1>6 DEF ViewType
  <2> QED BY <2>1, <2>2, <1>11, ProjectType
<1>14. PICK v : v = view'
  OBVIOUS
<1>15. /\ v.entries = e /\ v.checkpoint = next /\ v.last = <<next>>
       /\ v.since = view.since /\ v.running = (<<next>> # view.last)
  BY <1>5, <1>6, <1>11, <1>14 DEF ViewType
<1>16. v \in ViewType
  <2>1. <<next>> \in Seq(Nat) /\ (<<next>> # view.last) \in BOOLEAN
    BY <1>8
  <2> QED BY <2>1, <1>5, <1>6, <1>8, <1>11, <1>13, <1>14 DEF ViewType
<1>17. ~v.running => next >= v.since
  <2>1. SUFFICES ASSUME <<next>> = view.last PROVE next >= view.since
    BY <1>15
  <2>2. view.last = << >> \/ view.last = <<cp>>
    BY <1>2, <1>6 DEF ViewOK
  <2>3. <<next>> # << >>
    OBVIOUS
  <2>4. <<next>> = <<cp>>
    BY <2>1, <2>2, <2>3
  <2>5. next = cp
    BY <2>4
  <2>6. view.since <= Len(recs) /\ view.since \in Nat
    BY <1>1, <1>6 DEF ViewOK, ViewType
  <2> QED BY <2>5, <2>6, <1>6, <1>9
<1>18. ViewOK'
  <2>1. v.checkpoint <= Len(recs) /\ v.since <= Len(recs)
    BY <1>1, <1>6, <1>8, <1>15 DEF ViewOK
  <2>2. v.last \in {<< >>, <<v.checkpoint>>}
    BY <1>15
  <2>3. v.entries = Project(Absent, SubSeq(recs, 1, v.checkpoint))
    BY <1>12, <1>15
  <2>4. ~v.running => v.checkpoint >= v.since
    BY <1>15, <1>17
  <2> QED BY <2>1, <2>2, <2>3, <2>4, <1>1, <1>6, <1>14 DEF ViewOK, Absent
<1>19. calls' \in 0 .. MaxCalls /\ calls' >= calls
  BY <1>5, <1>6, CallsType, Bounds
<1> QED BY <1>5, <1>14, <1>16, <1>18, <1>19, ViewStepKept

-----------------------------------------------------------------------------
(* Steps of the event store before COMMIT.                                 *)

PagesFiltered ==
    page' = [d \in Callers |-> [page[d] EXCEPT !.due = {t \in @ : ~ArchivedIn(rows'[t])}]]

LEMMA StorePages ==
    ASSUME Inv, PagesFiltered, pc' = pc,
           \A t \in Threads : rows[t] # << >> => rows'[t] # << >>
    PROVE  page' \in [Callers -> PageType] /\ \A d \in Callers : PageOK(d)'
<1>1. ASSUME NEW d \in Callers PROVE page'[d] \in PageType /\ PageOK(d)'
  <2>1. page[d] \in PageType /\ PageOK(d)
    BY DEF Inv, Types
  <2>2. PICK due : due = {t \in page[d].due : ~ArchivedIn(rows'[t])}
    OBVIOUS
  <2>3. page'[d] = [page[d] EXCEPT !.due = due]
    BY <2>2 DEF PagesFiltered
  <2>4. due \in SUBSET Threads
    BY <2>1, <2>2 DEF PageType
  <2>5. /\ page'[d] \in PageType /\ page'[d].due = due
        /\ page'[d].left = page[d].left /\ page'[d].threads = page[d].threads
    BY <2>1, <2>3, <2>4 DEF PageType
  <2>6. ASSUME NEW t \in due, pc[d] \in Listing
        PROVE  t \in page[d].due /\ rows'[t] # << >> /\ ~ArchivedIn(rows'[t])
    BY <2>1, <2>2, <2>4, <2>6 DEF PageOK
  <2>7. PageOK(d)'
    BY <2>1, <2>5, <2>6 DEF PageOK, Listing
  <2> QED BY <2>5, <2>7
<1>2. page' = [d \in Callers |-> page'[d]]
  BY DEF PagesFiltered
<1> QED BY <1>1, <1>2

LEMMA IdsInRows ==
    ASSUME Types, RowsOK, NEW k \in 1 .. MaxCalls
    PROVE  /\ <<k, "thread">> \in IdsIn(rows) <=> k \in Committed
           /\ <<k, "index">> \in IdsIn(rows) => k \in Committed
<1>1. ASSUME NEW x \in Roles, <<k, x>> \in IdsIn(rows) PROVE k \in Committed
  <2>1. PICK s \in Streams : \E i \in DOMAIN rows[s] : <<k, x>> = rows[s][i].id
    BY <1>1 DEF IdsIn
  <2>2. PICK i \in DOMAIN rows[s] : <<k, x>> = rows[s][i].id
    BY <2>1
  <2>3. rows[s][i].id[1] \in Committed
    BY <2>2 DEF RowsOK
  <2> QED BY <2>2, <2>3
<1>2. ASSUME k \in Committed PROVE <<k, "thread">> \in IdsIn(rows)
  <2>1. PICK t \in Threads : \E i \in DOMAIN rows[t] : rows[t][i].id = <<k, "thread">>
    BY <1>2 DEF Committed, CommittedIn
  <2>2. t \in Streams
    BY Names
  <2> QED BY <2>1, <2>2 DEF IdsIn
<1> QED BY <1>1, <1>2 DEF Roles

(* What remains to be shown of a step of the event store for c that leaves *)
(* the rows alone.                                                         *)
LEMMA StoreLocal ==
    ASSUME Inv, NEW c \in Callers, at[c] \in {"begin", "insert"}, rows' = rows, PagesFiltered,
           UNCHANGED <<op, pc, attempt, observed, outcome, view, calls>>,
           writer' \in Callers \union {NoWriter}, faults' \in 0 .. MaxFaults,
           at' = [at EXCEPT ![c] = at'[c]], at'[c] \in {"begin", "insert", "answered"},
           batch' = [batch EXCEPT ![c] = batch'[c]],
           tries' \in [Callers -> 0 .. SqliteAttempts],
           answer' = [answer EXCEPT ![c] = answer'[c]], answer'[c] \in AnswerType,
           LockOK', \A d \in Callers \ {c} : at[d] = "insert" => staged' = staged,
           TransactionOK(c)', AnswerOK(c)'
    PROVE  Inv'
<1>1. Types /\ CallerOK(c)
  BY DEF Inv
<1>2. page' \in [Callers -> PageType] /\ \A d \in Callers : PageOK(d)'
  BY StorePages
<1>3. Types'
  <2>1. at' \in [Callers -> {"idle", "begin", "insert", "answered"}]
    BY <1>1 DEF Types
  <2>2. batch' = [d \in Callers |-> batch'[d]]
    BY <1>1 DEF Types
  <2>3. answer' \in [Callers -> AnswerType]
    BY <1>1 DEF Types
  <2> QED BY <2>1, <2>2, <2>3, <1>1, <1>2 DEF Types
<1>4. \A d \in Callers \ {c} : Same(d)
  BY <1>1 DEF Same, Types
<1>5. NumbersKept /\ NumbersOK'
  BY <1>1, CallsType DEF NumbersKept, Inv, NumbersOK
<1>6. CallerOK(c)'
  <2>1. Committed' = Committed /\ pc[c] \in Waiting
    BY <1>1 DEF Committed, CommittedIn, CallerOK, CallOK
  <2>2. CallOK(c)'
    BY <2>1, <1>1 DEF CallerOK, CallOK
  <2>3. UnsettledOK(c)'
    <3>1. SUFFICES ASSUME op[c].n \in Committed
                   PROVE  op[c] \in AppendOp /\ \E k \in 1 .. calls' : Unused(k)'
      BY <2>1 DEF UnsettledOK
    <3>2. op[c] \in AppendOp
      BY <3>1, <1>1 DEF CallerOK, UnsettledOK, Unsettled
    <3>3. PICK k \in 1 .. calls : Unused(k)
      BY <3>1, <1>1 DEF CallerOK, UnsettledOK, Unsettled
    <3> QED BY <3>2, <3>3, <1>1, <1>5, UnusedKept
  <2>4. AttemptOK(c)'
    BY <2>1, <1>1 DEF CallerOK, AttemptOK, Waiting
  <2>5. OutcomeOK(c)'
    BY <2>1, <1>1 DEF CallerOK, OutcomeOK, Waiting
  <2> QED BY <2>2, <2>3, <2>4, <2>5 DEF CallerOK
<1>7. ViewOK'
  BY ViewFrame DEF Inv
<1> QED BY <1>2, <1>3, <1>4, <1>5, <1>6, <1>7, LocalStep

LEMMA BeginImmediateKept ==
    ASSUME Inv, NEW c \in Callers, BeginImmediate(c), PagesFiltered,
           UNCHANGED <<op, pc, attempt, observed, outcome, view, calls>>
    PROVE  Inv'
<1>1. /\ at[c] = "begin" /\ writer = NoWriter /\ writer' = c /\ staged' = rows
      /\ at' = [at EXCEPT ![c] = "insert"] /\ rows' = rows /\ batch' = batch
      /\ tries' = tries /\ answer' = answer /\ faults' = faults
  BY DEF BeginImmediate
<1>2. Types /\ CallerOK(c)
  BY DEF Inv
<1>3. at'[c] = "insert" /\ \A d \in Callers \ {c} : at'[d] = at[d]
  BY <1>1, <1>2 DEF Types
<1>4. \A d \in Callers : at[d] # "insert"
  BY <1>1, Names DEF Inv, LockOK
<1>5. LockOK'
  BY <1>1, <1>3, <1>4, Names DEF LockOK
<1>6. TransactionOK(c)'
  <2>1. PICK n, m \in Nat : Expects(c, n, m) /\ Progress(c, n, m)
    BY <1>1, <1>2 DEF CallerOK, TransactionOK
  <2>2. Committed' = Committed
    BY <1>1 DEF Committed, CommittedIn
  <2>3. Expects(c, n, m)'
    BY <2>1, <2>2, <1>1 DEF Expects, Found, Two
  <2>4. Untouched(c, n, m)
    BY <2>1, <1>1 DEF Progress
  <2>5. Untouched(c, n, m)'
    BY <2>4, <1>1 DEF Untouched, Two, First, Second, ThreadRecord, IndexRecord, NewKind, NewBranch
  <2>6. Progress(c, n, m)'
    BY <2>5, <1>1, <1>3 DEF Progress
  <2> QED BY <2>3, <2>6 DEF TransactionOK
<1>7. AnswerOK(c)'
  BY <1>3 DEF AnswerOK
<1>8. /\ batch' = [batch EXCEPT ![c] = batch'[c]] /\ answer' = [answer EXCEPT ![c] = answer'[c]]
      /\ answer'[c] \in AnswerType /\ tries' \in [Callers -> 0 .. SqliteAttempts]
      /\ faults' \in 0 .. MaxFaults /\ at' = [at EXCEPT ![c] = at'[c]]
  BY <1>1, <1>2, <1>3 DEF Types
<1> QED BY <1>1, <1>3, <1>4, <1>5, <1>6, <1>7, <1>8, StoreLocal

(* The transaction of c, if it has one, is rolled back with an answer.     *)
LEMMA RefusedKept ==
    ASSUME Inv, NEW c \in Callers, at[c] \in {"begin", "insert"}, PagesFiltered,
           NEW a \in AnswerType, Answered(c, a),
           rows' = rows, writer' = IF writer = c THEN NoWriter ELSE writer,
           staged' = IF writer = c THEN rows ELSE staged,
           batch' = batch, tries' = tries, faults' \in 0 .. MaxFaults,
           UNCHANGED <<op, pc, attempt, observed, outcome, view, calls>>, AnswerOK(c)'
    PROVE  Inv'
<1>1. Types /\ CallerOK(c)
  BY DEF Inv
<1>2. /\ at'[c] = "answered" /\ at' = [at EXCEPT ![c] = "answered"]
      /\ answer'[c] = a /\ answer' = [answer EXCEPT ![c] = a]
      /\ \A d \in Callers \ {c} : at'[d] = at[d]
  BY <1>1 DEF Types, Answered
<1>3. \A d \in Callers \ {c} : at[d] = "insert" => staged' = staged
  BY DEF Inv, LockOK
<1>4. LockOK'
  BY <1>2, Names DEF Inv, LockOK
<1>5. TransactionOK(c)'
  BY <1>2 DEF TransactionOK
<1>6. /\ batch' = [batch EXCEPT ![c] = batch'[c]]
      /\ tries' \in [Callers -> 0 .. SqliteAttempts]
      /\ writer' \in Callers \union {NoWriter}
  BY <1>1 DEF Types
<1> QED BY <1>2, <1>3, <1>4, <1>5, <1>6, StoreLocal

LEMMA ErrorAnswer ==
    ASSUME NEW c \in Callers, Types, Answered(c, Answer("error", ""))
    PROVE  Answer("error", "") \in AnswerType /\ AnswerOK(c)'
<1>1. PICK a : a = Answer("error", "")
  OBVIOUS
<1>2. a \in AnswerType /\ a.kind = "error"
  BY <1>1 DEF Answer, AnswerType
<1>3. answer'[c] = a
  BY <1>1 DEF Answered, Types
<1> QED BY <1>1, <1>2, <1>3 DEF AnswerOK

LEMMA BeginBusyKept ==
    ASSUME Inv, NEW c \in Callers, BeginBusy(c), PagesFiltered,
           UNCHANGED <<op, pc, attempt, observed, outcome, view, calls>>
    PROVE  Inv'
<1>1. /\ at[c] = "begin" /\ writer # c
      /\ rows' = rows /\ writer' = writer /\ staged' = staged /\ batch' = batch
      /\ faults' = faults
  BY DEF BeginBusy
<1>2. Types /\ CallerOK(c)
  BY DEF Inv
<1>3. CASE tries[c] < SqliteAttempts
  <2>1. tries' = [tries EXCEPT ![c] = @ + 1] /\ at' = at /\ answer' = answer
    BY <1>3 DEF BeginBusy
  <2>2. tries[c] + 1 \in 0 .. SqliteAttempts
    BY <1>2, <1>3, Bounds DEF Types
  <2>3. tries' \in [Callers -> 0 .. SqliteAttempts]
    BY <2>1, <2>2, <1>2 DEF Types
  <2>4. LockOK'
    BY <2>1, <1>1 DEF Inv, LockOK
  <2>5. Same(c) /\ NumbersKept
    BY <2>1, <1>1, <1>2, CallsType DEF Same, NumbersKept
  <2>6. TransactionOK(c)' /\ AnswerOK(c)'
    BY <2>5, <1>1, OtherCaller DEF CallerOK
  <2>7. /\ batch' = [batch EXCEPT ![c] = batch'[c]] /\ answer' = [answer EXCEPT ![c] = answer'[c]]
        /\ answer'[c] \in AnswerType /\ faults' \in 0 .. MaxFaults
        /\ at' = [at EXCEPT ![c] = at'[c]] /\ at'[c] = "begin"
        /\ writer' \in Callers \union {NoWriter}
    BY <2>1, <1>1, <1>2 DEF Types
  <2> QED BY <2>3, <2>4, <2>6, <2>7, <1>1, StoreLocal
<1>4. CASE ~(tries[c] < SqliteAttempts)
  <2>1. Answered(c, Answer("error", "")) /\ tries' = tries
    BY <1>4 DEF BeginBusy
  <2>2. Answer("error", "") \in AnswerType /\ AnswerOK(c)'
    BY <2>1, <1>2, ErrorAnswer
  <2>3. faults' \in 0 .. MaxFaults
    BY <1>1, <1>2 DEF Types
  <2> QED BY <2>1, <2>2, <2>3, <1>1, RefusedKept
<1> QED BY <1>3, <1>4

LEMMA StatementFailsKept ==
    ASSUME Inv, NEW c \in Callers, StatementFails(c), PagesFiltered,
           UNCHANGED <<op, pc, attempt, observed, outcome, view, calls>>
    PROVE  Inv'
<1>1. /\ at[c] \in {"begin", "insert"} /\ faults < MaxFaults /\ faults' = faults + 1
      /\ Answered(c, Answer("error", "")) /\ batch' = batch /\ tries' = tries
      /\ writer' = IF writer = c THEN NoWriter ELSE writer
      /\ staged' = IF writer = c THEN rows ELSE staged
      /\ rows' = rows
  BY DEF StatementFails, Rollback
<1>2. Types
  BY DEF Inv
<1>3. faults' \in 0 .. MaxFaults
  <2>1. faults \in 0 .. MaxFaults /\ faults < MaxFaults /\ faults' = faults + 1
    BY <1>1, <1>2 DEF Types
  <2> QED BY <2>1, Bounds
<1>4. Answer("error", "") \in AnswerType /\ AnswerOK(c)'
  BY <1>1, <1>2, ErrorAnswer
<1> QED BY <1>1, <1>3, <1>4, RefusedKept

(* A waiting call that appends is the only one that can meet its record.   *)
LEMMA OnlyAppendsRepeat ==
    ASSUME Inv, NEW c \in Callers, at[c] \in {"begin", "insert"}, op[c].n \in Committed
    PROVE  pc[c] = "appended"
<1>1. CallerOK(c)
  BY DEF Inv
<1>2. op[c] \in AppendOp /\ pc[c] \in Waiting
  BY <1>1 DEF CallerOK, UnsettledOK, Unsettled, CallOK
<1>3. op[c].kind = "append"
  BY <1>2 DEF AppendOp
<1>4. op[c] \notin CreateOp /\ op[c] \notin ForkOp /\ op[c] \notin ArchiveOp
  BY <1>3 DEF CreateOp, ForkOp, ArchiveOp
<1> QED BY <1>1, <1>2, <1>4 DEF CallerOK, CallOK, Waiting

LEMMA WaitingOp ==
    ASSUME Inv, NEW c \in Callers, pc[c] \in Waiting
    PROVE  /\ op[c] \in WriteOp /\ op[c].n \in 1 .. MaxCalls /\ op[c].n \in Nat
           /\ op[c].n <= calls /\ op[c].thread \in Threads /\ op[c].thread \in Streams
           /\ op[c].thread # Index /\ Index \in Streams
<1>1. CallerOK(c)
  BY DEF Inv
<1>2. op[c] \in WriteOp
  BY <1>1 DEF CallerOK, CallOK, Waiting, WriteOp
<1>3. op[c].n <= calls
  BY <1>1, <1>2 DEF CallerOK, CallOK
<1> QED BY <1>2, <1>3, OpNumbers, Names

LEMMA InsertFirstKept ==
    ASSUME Inv, NEW c \in Callers, InsertRequest(c), PagesFiltered,
           UNCHANGED <<op, pc, attempt, observed, outcome, view, calls>>,
           NEW n \in Nat, NEW m \in Nat, Expects(c, n, m), Untouched(c, n, m), staged = rows
    PROVE  Inv'
<1>1. Types /\ CallerOK(c) /\ at[c] = "insert" /\ writer = c
  BY DEF Inv, InsertRequest, LockOK
<1>2. pc[c] \in Waiting
  BY <1>1 DEF CallerOK, CallOK
<1>3. PICK r : r = First(c, n)
  OBVIOUS
<1>4. /\ Head(batch[c]) = r
      /\ Tail(batch[c]) = IF Two(c) THEN <<Second(c, m)>> ELSE << >>
  BY <1>3 DEF Untouched
<1>5. PICK x : x = ThreadRecord(c, n)
  OBVIOUS
<1>6. r.stream = op[c].thread /\ r.expected = n /\ r.records = <<x>>
  BY <1>3, <1>5 DEF First, Request
<1>7. x.id = <<op[c].n, "thread">>
  BY <1>5 DEF ThreadRecord, Plain, Record
<1>8. op[c].thread \in Streams /\ op[c].n \in 1 .. MaxCalls /\ op[c].thread \in Threads
  BY <1>2, WaitingOp
<1>9. Len(rows[op[c].thread]) \in Nat
  BY <1>1, <1>8, StreamType
<1>10. PICK a : a = appendRequest(staged, r)
  OBVIOUS
<1>11. /\ a = NoAnswer => /\ staged' = [staged EXCEPT ![r.stream] = @ \o r.records]
                          /\ batch' = [batch EXCEPT ![c] = Tail(@)]
                          /\ rows' = rows /\ writer' = writer /\ at' = at /\ answer' = answer
       /\ a # NoAnswer => Answered(c, a) /\ Rollback(c) /\ batch' = batch
       /\ tries' = tries /\ faults' = faults
  BY <1>4, <1>10 DEF InsertRequest
<1>12. (\E i \in DOMAIN r.records : r.records[i].id \in IdsIn(staged)) <=> op[c].n \in Committed
  <2>1. (\E i \in DOMAIN r.records : r.records[i].id \in IdsIn(staged)) <=> x.id \in IdsIn(rows)
    BY <1>6
  <2> QED BY <2>1, <1>1, <1>7, <1>8, IdsInRows DEF Inv
<1>13. Committed' = Committed \/ rows' # rows
  BY DEF Committed, CommittedIn
<1>14. CASE n # Len(rows[op[c].thread])
  <2>1. a = Answer("conflict", op[c].thread)
    BY <1>14, <1>6, <1>10 DEF appendRequest
  <2>2. /\ a.kind = "conflict" /\ a.stream = op[c].thread /\ a # NoAnswer /\ a \in AnswerType
    BY <2>1, <1>8 DEF Answer, NoAnswer, AnswerType
  <2>3. /\ Answered(c, a) /\ rows' = rows /\ writer' = IF writer = c THEN NoWriter ELSE writer
    BY <2>2, <1>11 DEF Rollback
  <2>4. staged' = IF writer = c THEN rows ELSE staged
    BY <2>2, <1>11 DEF Rollback
  <2>5. n < Len(rows[op[c].thread])
    BY <1>14, <1>9 DEF Expects
  <2>6. attempt[c] <= Cardinality(Committed)
    BY <2>5 DEF Expects
  <2>7. rows[op[c].thread] # << >>
    BY <2>5, <1>9
  <2>8. answer'[c] = a
    BY <2>3, <1>1 DEF Answered, Types
  <2>9. AnswerOK(c)'
    BY <2>2, <2>3, <2>6, <2>7, <2>8, <1>13 DEF AnswerOK
  <2>10. faults' \in 0 .. MaxFaults /\ batch' = batch /\ tries' = tries
    BY <2>2, <1>11, <1>1 DEF Types
  <2> QED BY <2>2, <2>3, <2>4, <2>9, <2>10, <1>1, RefusedKept
<1>15. CASE n = Len(rows[op[c].thread]) /\ op[c].n \in Committed
  <2>1. a = Answer("duplicate", op[c].thread)
    BY <1>15, <1>6, <1>10, <1>12 DEF appendRequest
  <2>2. /\ a.kind = "duplicate" /\ a # NoAnswer /\ a \in AnswerType
    BY <2>1, <1>8 DEF Answer, NoAnswer, AnswerType
  <2>3. /\ Answered(c, a) /\ rows' = rows /\ writer' = IF writer = c THEN NoWriter ELSE writer
    BY <2>2, <1>11 DEF Rollback
  <2>4. staged' = IF writer = c THEN rows ELSE staged
    BY <2>2, <1>11 DEF Rollback
  <2>5. pc[c] = "appended"
    BY <1>15, <1>1, OnlyAppendsRepeat
  <2>6. answer'[c] = a
    BY <2>3, <1>1 DEF Answered, Types
  <2>7. AnswerOK(c)'
    BY <2>2, <2>5, <2>6 DEF AnswerOK
  <2>8. faults' \in 0 .. MaxFaults /\ batch' = batch /\ tries' = tries
    BY <2>2, <1>11, <1>1 DEF Types
  <2> QED BY <2>2, <2>3, <2>4, <2>7, <2>8, <1>1, RefusedKept
<1>16. CASE n = Len(rows[op[c].thread]) /\ op[c].n \notin Committed
  <2>1. a = NoAnswer
    BY <1>16, <1>6, <1>10, <1>12 DEF appendRequest
  <2>2. /\ staged' = PutFirst(c, n)
        /\ batch' = [batch EXCEPT ![c] = Tail(batch[c])]
        /\ rows' = rows /\ writer' = writer /\ at' = at /\ answer' = answer
    BY <2>1, <1>5, <1>6, <1>11 DEF PutFirst
  <2>3. batch'[c] = IF Two(c) THEN <<Second(c, m)>> ELSE << >>
    BY <2>2, <1>1, <1>4 DEF Types
  <2>4. LockOK'
    BY <2>2, <1>1, Names DEF Inv, LockOK
  <2>5. \A d \in Callers \ {c} : at[d] = "insert" => staged' = staged
    BY <1>1 DEF Inv, LockOK
  <2>6. TransactionOK(c)'
    <3>1. Expects(c, n, m)'
      BY <2>2, <1>13 DEF Expects, Found, Two
    <3>2. ThreadRecord(c, n)' = ThreadRecord(c, n) /\ Second(c, m)' = Second(c, m)
      BY DEF Second, ThreadRecord, IndexRecord, NewKind, NewBranch
    <3>3. PutFirst(c, n)' = PutFirst(c, n)
      BY <3>2, <2>2 DEF PutFirst
    <3>4. Accepted(c, n)' /\ (Two(c)' <=> Two(c))
      BY <2>2, <1>16, <1>13 DEF Accepted, Two
    <3>5. CASE Two(c)
      <4>1. Progress(c, n, m)'
        BY <3>2, <3>3, <3>4, <3>5, <2>2, <2>3, <1>1 DEF Progress
      <4> QED BY <4>1, <3>1 DEF TransactionOK
    <3>6. CASE ~Two(c)
      <4>1. Progress(c, n, m)'
        BY <3>3, <3>4, <3>6, <2>2, <2>3, <1>1 DEF Progress
      <4> QED BY <4>1, <3>1 DEF TransactionOK
    <3> QED BY <3>5, <3>6
  <2>7. AnswerOK(c)'
    BY <2>2, <1>1 DEF AnswerOK
  <2>8. /\ batch' = [batch EXCEPT ![c] = batch'[c]] /\ answer' = [answer EXCEPT ![c] = answer'[c]]
        /\ answer'[c] \in AnswerType /\ tries' \in [Callers -> 0 .. SqliteAttempts]
        /\ faults' \in 0 .. MaxFaults /\ at' = [at EXCEPT ![c] = at'[c]] /\ at'[c] = "insert"
        /\ writer' \in Callers \union {NoWriter}
    BY <2>2, <1>1, <1>11 DEF Types
  <2> QED BY <2>2, <2>4, <2>5, <2>6, <2>7, <2>8, <1>1, StoreLocal
<1> QED BY <1>14, <1>15, <1>16

LEMMA InsertSecondKept ==
    ASSUME Inv, NEW c \in Callers, InsertRequest(c), PagesFiltered,
           UNCHANGED <<op, pc, attempt, observed, outcome, view, calls>>,
           NEW n \in Nat, NEW m \in Nat, Expects(c, n, m), Two(c), Accepted(c, n),
           batch[c] = <<Second(c, m)>>, staged = PutFirst(c, n)
    PROVE  Inv'
<1>1. Types /\ CallerOK(c) /\ at[c] = "insert" /\ writer = c
  BY DEF Inv, InsertRequest, LockOK
<1>2. pc[c] \in Waiting
  BY <1>1 DEF CallerOK, CallOK
<1>3. PICK r : r = Second(c, m)
  OBVIOUS
<1>4. Head(batch[c]) = r /\ Tail(batch[c]) = << >>
  BY <1>3
<1>5. PICK x : x = IndexRecord(c)
  OBVIOUS
<1>6. r.stream = Index /\ r.expected = m /\ r.records = <<x>>
  BY <1>3, <1>5 DEF Second, Request
<1>7. x.id = <<op[c].n, "index">>
  BY <1>5 DEF IndexRecord, Plain, Record
<1>8. /\ op[c].thread \in Streams /\ op[c].n \in 1 .. MaxCalls /\ op[c].thread \in Threads
      /\ op[c].thread # Index /\ Index \in Streams
  BY <1>2, WaitingOp
<1>9. Len(rows[Index]) \in Nat /\ staged[Index] = rows[Index]
  BY <1>1, <1>8, StreamType DEF PutFirst, Types
<1>10. PICK a : a = appendRequest(staged, r)
  OBVIOUS
<1>11. /\ a = NoAnswer => /\ staged' = [staged EXCEPT ![r.stream] = @ \o r.records]
                          /\ batch' = [batch EXCEPT ![c] = Tail(@)]
                          /\ rows' = rows /\ writer' = writer /\ at' = at /\ answer' = answer
       /\ a # NoAnswer => Answered(c, a) /\ Rollback(c) /\ batch' = batch
       /\ tries' = tries /\ faults' = faults
  BY <1>4, <1>10 DEF InsertRequest
<1>12. ~\E i \in DOMAIN r.records : r.records[i].id \in IdsIn(staged)
  <2>1. SUFFICES ASSUME x.id \in IdsIn(staged) PROVE FALSE
    BY <1>6
  <2>2. PICK s \in Streams : \E i \in DOMAIN staged[s] : x.id = staged[s][i].id
    BY <2>1 DEF IdsIn
  <2>3. PICK i \in DOMAIN staged[s] : x.id = staged[s][i].id
    BY <2>2
  <2>4. PICK y : y = ThreadRecord(c, n)
    OBVIOUS
  <2>5. y.id = <<op[c].n, "thread">>
    BY <2>4 DEF ThreadRecord, Plain, Record
  <2>6. staged[s] = IF s = op[c].thread THEN rows[s] \o <<y>> ELSE rows[s]
    BY <2>4, <1>1 DEF PutFirst, Types
  <2>7. rows[s] \in Seq(RecordType) /\ Len(rows[s]) \in Nat
    BY <1>1, StreamType
  <2>8. CASE i \in DOMAIN rows[s] /\ staged[s][i] = rows[s][i]
    <3>1. x.id \in IdsIn(rows)
      BY <2>3, <2>8 DEF IdsIn
    <3>2. op[c].n \in Committed
      BY <3>1, <1>1, <1>7, <1>8, IdsInRows DEF Inv
    <3> QED BY <3>2 DEF Accepted
  <2>9. CASE staged[s][i] = y
    BY <2>3, <2>5, <2>9, <1>7
  <2>10. (i \in DOMAIN rows[s] /\ staged[s][i] = rows[s][i]) \/ staged[s][i] = y
    <3>1. CASE s # op[c].thread
      BY <3>1, <2>3, <2>6
    <3>2. CASE s = op[c].thread
      <4>1. staged[s] = rows[s] \o <<y>>
        BY <3>2, <2>6
      <4>2. i \in 1 .. Len(rows[s]) + 1
        BY <4>1, <2>3, <2>7
      <4> QED BY <4>1, <4>2, <2>7
    <3> QED BY <3>1, <3>2
  <2> QED BY <2>8, <2>9, <2>10
<1>13. Committed' = Committed \/ rows' # rows
  BY DEF Committed, CommittedIn
<1>14. CASE m # Len(rows[Index])
  <2>1. a = Answer("conflict", Index)
    BY <1>14, <1>6, <1>9, <1>10 DEF appendRequest
  <2>2. /\ a.kind = "conflict" /\ a.stream = Index /\ a # NoAnswer /\ a \in AnswerType
    BY <2>1, <1>8 DEF Answer, NoAnswer, AnswerType
  <2>3. /\ Answered(c, a) /\ rows' = rows /\ writer' = IF writer = c THEN NoWriter ELSE writer
    BY <2>2, <1>11 DEF Rollback
  <2>4. staged' = IF writer = c THEN rows ELSE staged
    BY <2>2, <1>11 DEF Rollback
  <2>5. m < Len(rows[Index])
    BY <1>14, <1>9 DEF Expects
  <2>6. attempt[c] <= Cardinality(Committed)
    BY <2>5 DEF Expects
  <2>8. answer'[c] = a
    BY <2>3, <1>1 DEF Answered, Types
  <2>9. AnswerOK(c)'
    BY <2>2, <2>3, <2>6, <2>8, <1>8, <1>13 DEF AnswerOK
  <2>10. faults' \in 0 .. MaxFaults /\ batch' = batch /\ tries' = tries
    BY <2>2, <1>11, <1>1 DEF Types
  <2> QED BY <2>2, <2>3, <2>4, <2>9, <2>10, <1>1, RefusedKept
<1>15. CASE m = Len(rows[Index])
  <2>1. a = NoAnswer
    BY <1>15, <1>6, <1>9, <1>10, <1>12 DEF appendRequest
  <2>2. /\ staged' = PutBoth(c, n)
        /\ batch' = [batch EXCEPT ![c] = Tail(batch[c])]
        /\ rows' = rows /\ writer' = writer /\ at' = at /\ answer' = answer
    BY <2>1, <1>5, <1>6, <1>11 DEF PutBoth
  <2>3. batch'[c] = << >>
    BY <2>2, <1>1, <1>4 DEF Types
  <2>4. LockOK'
    BY <2>2, <1>1, Names DEF Inv, LockOK
  <2>5. \A d \in Callers \ {c} : at[d] = "insert" => staged' = staged
    BY <1>1 DEF Inv, LockOK
  <2>6. TransactionOK(c)'
    <3>1. Expects(c, n, m)'
      BY <2>2, <1>13 DEF Expects, Found, Two
    <3>2. ThreadRecord(c, n)' = ThreadRecord(c, n) /\ IndexRecord(c)' = IndexRecord(c)
      BY DEF ThreadRecord, IndexRecord, NewKind, NewBranch
    <3>3. PutBoth(c, n)' = PutBoth(c, n)
      BY <3>2, <2>2 DEF PutBoth, PutFirst
    <3>4. Accepted(c, n)' /\ Two(c)'
      BY <2>2, <1>13 DEF Accepted, Two
    <3>5. Progress(c, n, m)'
      BY <3>3, <3>4, <2>2, <2>3, <1>1, <1>15 DEF Progress
    <3> QED BY <3>1, <3>5 DEF TransactionOK
  <2>7. AnswerOK(c)'
    BY <2>2, <1>1 DEF AnswerOK
  <2>8. /\ batch' = [batch EXCEPT ![c] = batch'[c]] /\ answer' = [answer EXCEPT ![c] = answer'[c]]
        /\ answer'[c] \in AnswerType /\ tries' \in [Callers -> 0 .. SqliteAttempts]
        /\ faults' \in 0 .. MaxFaults /\ at' = [at EXCEPT ![c] = at'[c]] /\ at'[c] = "insert"
        /\ writer' \in Callers \union {NoWriter}
    BY <2>2, <1>1, <1>11 DEF Types
  <2> QED BY <2>2, <2>4, <2>5, <2>6, <2>7, <2>8, <1>1, StoreLocal
<1> QED BY <1>14, <1>15

LEMMA InsertRequestKept ==
    ASSUME Inv, NEW c \in Callers, InsertRequest(c), PagesFiltered,
           UNCHANGED <<op, pc, attempt, observed, outcome, view, calls>>
    PROVE  Inv'
<1>1. CallerOK(c) /\ at[c] = "insert" /\ batch[c] # << >>
  BY DEF Inv, InsertRequest
<1>2. PICK n, m \in Nat : Expects(c, n, m) /\ Progress(c, n, m)
  BY <1>1 DEF CallerOK, TransactionOK
<1>3. \/ Untouched(c, n, m) /\ staged = rows
      \/ /\ Two(c) /\ Accepted(c, n)
         /\ batch[c] = <<Second(c, m)>> /\ staged = PutFirst(c, n)
  BY <1>1, <1>2 DEF Progress
<1> QED BY <1>2, <1>3, InsertFirstKept, InsertSecondKept

-----------------------------------------------------------------------------
(* COMMIT.                                                                 *)

(* What the transaction of c adds to the rows: x to the thread and, for a  *)
(* creation or an archival, y to the index.                                *)
Lands(c, t, x, y) ==
    /\ t = op[c].thread /\ t \in Threads /\ x \in RecordType /\ y \in RecordType
    /\ x.id = <<op[c].n, "thread">> /\ y.id = <<op[c].n, "index">>
    /\ x.thread = t /\ y.thread = t /\ op[c].n \notin Committed
    /\ x.kind = "created" <=> rows[t] = << >>
    /\ x.kind \in Toggles => ArchivedIn(rows[t]) # (x.kind = "archived")
    /\ x.kind = "forked" => /\ x.branch = Alt /\ x.from = Main /\ x.fork = Len(rows[t])
                            /\ Alt \notin BranchesOf(rows[t])
    /\ Two(c) <=> x.kind \in {"created"} \union Toggles
    /\ Two(c) => y.kind = x.kind
    /\ pc[c] = "appended" => Len(rows[t]) = Len(observed[c])
    /\ rows' = [s \in Streams |-> IF s = t THEN rows[s] \o <<x>>
                                  ELSE IF s = Index /\ Two(c) THEN rows[s] \o <<y>>
                                  ELSE rows[s]]

LEMMA IndexRecordType ==
    ASSUME Inv, NEW c \in Callers, pc[c] \in Waiting, NEW y, y = IndexRecord(c)
    PROVE  /\ y \in RecordType /\ y.id = <<op[c].n, "index">> /\ y.thread = op[c].thread
           /\ y.kind = NewKind(c)
<1>1. /\ op[c] \in WriteOp /\ op[c].n \in 1 .. MaxCalls /\ op[c].n \in Nat
      /\ op[c].thread \in Threads
  BY WaitingOp
<1>2. y = Record(<<op[c].n, "index">>, NewKind(c), op[c].thread, NewBranch(c), "", 0, op[c].n)
  BY DEF IndexRecord, Plain
<1>3. NewKind(c) \in {"created", "event", "forked"} \union Toggles
  BY DEF NewKind, Toggles
<1>4. NewBranch(c) \in Branches
  <2>1. CASE op[c].kind = "create"
    <3>1. op[c] \in CreateOp
      BY <2>1, <1>1 DEF WriteOp, CreateOp, AppendOp, ForkOp, ArchiveOp
    <3> QED BY <3>1, <2>1 DEF CreateOp, NewBranch
  <2>2. CASE op[c].kind # "create"
    BY <2>2 DEF NewBranch, Branches
  <2> QED BY <2>1, <2>2
<1>5. <<op[c].n, "index">> \in (1 .. MaxCalls) \X Roles
  BY <1>1 DEF Roles
<1>6. PICK k, b, id : k = NewKind(c) /\ b = NewBranch(c) /\ id = <<op[c].n, "index">>
  OBVIOUS
<1>7. y = [id |-> id, kind |-> k, thread |-> op[c].thread, branch |-> b, from |-> NoBranch,
           fork |-> 0, time |-> op[c].n]
  BY <1>2, <1>6 DEF Record, NoBranch
<1>8. y \in RecordType
  BY <1>1, <1>3, <1>4, <1>5, <1>6, <1>7 DEF RecordType
<1>9. y.id = id /\ y.thread = op[c].thread /\ y.kind = k
  BY <1>7
<1> QED BY <1>6, <1>8, <1>9

(* The record of the thread, by the place of the call.                     *)
LEMMA ThreadRecordType ==
    ASSUME Inv, NEW c \in Callers, pc[c] \in Waiting, NEW n \in Nat, NEW x,
           x = ThreadRecord(c, n)
    PROVE  /\ x \in RecordType /\ x.id = <<op[c].n, "thread">> /\ x.thread = op[c].thread
           /\ pc[c] = "appended" => x.kind = "event" /\ x.branch = op[c].branch
           /\ pc[c] = "forked" => /\ x.kind = "forked" /\ x.branch = op[c].branch
                                  /\ x.from = op[c].from /\ x.fork = n
           /\ Two(c) => x.kind = NewKind(c)
           /\ pc[c] = "created" => op[c].kind = "create"
           /\ pc[c] = "archived" => op[c].kind \in {"archive", "unarchive"}
<1>1. /\ op[c] \in WriteOp /\ op[c].n \in 1 .. MaxCalls /\ op[c].n \in Nat
      /\ op[c].thread \in Threads /\ CallOK(c)
  BY WaitingOp DEF Inv, CallerOK
<1>2. <<op[c].n, "thread">> \in (1 .. MaxCalls) \X Roles
  BY <1>1 DEF Roles
<1>3. CASE pc[c] = "appended"
  <2>1. op[c] \in AppendOp
    BY <1>1, <1>3 DEF CallOK
  <2>2. op[c].branch \in Branches /\ op[c].time \in Nat
    BY <2>1 DEF AppendOp
  <2>3. x = Record(<<op[c].n, "thread">>, "event", op[c].thread, op[c].branch, "", 0, op[c].time)
    BY <1>3 DEF ThreadRecord
  <2>4. PICK id : id = <<op[c].n, "thread">>
    OBVIOUS
  <2>5. x = [id |-> id, kind |-> "event", thread |-> op[c].thread, branch |-> op[c].branch,
             from |-> NoBranch, fork |-> 0, time |-> op[c].time]
    BY <2>3, <2>4 DEF Record, NoBranch
  <2>6. x \in RecordType
    BY <2>2, <2>4, <2>5, <1>1, <1>2 DEF RecordType
  <2>7. x.id = id /\ x.thread = op[c].thread /\ x.kind = "event" /\ x.branch = op[c].branch
    BY <2>5
  <2> QED BY <2>4, <2>6, <2>7, <1>3 DEF Two
<1>4. CASE pc[c] = "forked"
  <2>1. op[c] \in ForkOp
    BY <1>1, <1>4 DEF CallOK
  <2>2. op[c].branch \in Branches /\ op[c].from \in Branches
    BY <2>1 DEF ForkOp
  <2>3. x = Record(<<op[c].n, "thread">>, "forked", op[c].thread, op[c].branch, op[c].from, n,
                   op[c].n)
    BY <1>4 DEF ThreadRecord
  <2>4. PICK id : id = <<op[c].n, "thread">>
    OBVIOUS
  <2>5. x = [id |-> id, kind |-> "forked", thread |-> op[c].thread, branch |-> op[c].branch,
             from |-> op[c].from, fork |-> n, time |-> op[c].n]
    BY <2>3, <2>4 DEF Record, NoBranch
  <2>6. x \in RecordType
    BY <2>2, <2>4, <2>5, <1>1, <1>2 DEF RecordType
  <2>7. /\ x.id = id /\ x.thread = op[c].thread /\ x.kind = "forked" /\ x.branch = op[c].branch
        /\ x.from = op[c].from /\ x.fork = n
    BY <2>5
  <2> QED BY <2>4, <2>6, <2>7, <1>4 DEF Two
<1>5. CASE Two(c)
  <2>1. PICK b : b = NewBranch(c)
    OBVIOUS
  <2>2. b \in Branches
    <3>1. CASE op[c].kind = "create"
      <4>1. op[c] \in CreateOp
        BY <3>1, <1>1 DEF WriteOp, CreateOp, AppendOp, ForkOp, ArchiveOp
      <4> QED BY <4>1, <3>1, <2>1 DEF CreateOp, NewBranch
    <3>2. CASE op[c].kind # "create"
      BY <3>2, <2>1 DEF NewBranch, Branches
    <3> QED BY <3>1, <3>2
  <2>3. pc[c] # "appended" /\ pc[c] # "forked"
    BY <1>5 DEF Two
  <2>4. x = Record(<<op[c].n, "thread">>, NewKind(c), op[c].thread, b, "", 0, op[c].n)
    BY <2>1, <2>3 DEF ThreadRecord, Plain
  <2>5. NewKind(c) \in {"created", "event", "forked"} \union Toggles
    BY DEF NewKind, Toggles
  <2>6. /\ pc[c] = "created" => op[c].kind = "create"
        /\ pc[c] = "archived" => op[c].kind \in {"archive", "unarchive"}
    BY <1>1 DEF CallOK, CreateOp, ArchiveOp
  <2>7. PICK k, id : k = NewKind(c) /\ id = <<op[c].n, "thread">>
    OBVIOUS
  <2>8. x = [id |-> id, kind |-> k, thread |-> op[c].thread, branch |-> b,
             from |-> NoBranch, fork |-> 0, time |-> op[c].n]
    BY <2>4, <2>7 DEF Record, NoBranch
  <2>9. x \in RecordType
    BY <2>2, <2>5, <2>7, <2>8, <1>1, <1>2 DEF RecordType
  <2>10. x.id = id /\ x.thread = op[c].thread /\ x.kind = k
    BY <2>8
  <2> QED BY <2>3, <2>6, <2>7, <2>9, <2>10
<1> QED BY <1>3, <1>4, <1>5 DEF Waiting, Two

LEMMA CommitLands ==
    ASSUME Inv, NEW c \in Callers, at[c] = "insert", batch[c] = << >>, rows' = staged
    PROVE  \E t, x, y : Lands(c, t, x, y)
<1>1. Types /\ CallerOK(c) /\ pc[c] \in Waiting
  BY DEF Inv, CallerOK, CallOK
<1>2. PICK n, m \in Nat : Expects(c, n, m) /\ Progress(c, n, m)
  BY <1>1 DEF CallerOK, TransactionOK
<1>3. PICK t : t = op[c].thread
  OBVIOUS
<1>4. t \in Threads /\ t \in Streams /\ t # Index /\ Index \in Streams
  BY <1>1, <1>3, WaitingOp
<1>5. PICK x : x = ThreadRecord(c, n)
  OBVIOUS
<1>6. PICK y : y = IndexRecord(c)
  OBVIOUS
<1>7. /\ Accepted(c, n)
      /\ \/ Two(c) /\ staged = PutBoth(c, n)
         \/ ~Two(c) /\ staged = PutFirst(c, n)
  <2>1. ~Untouched(c, n, m)
    BY DEF Untouched
  <2> QED BY <1>2, <2>1 DEF Progress
<1>8. n = Len(rows[t]) /\ op[c].n \notin Committed /\ Found(c, rows[t])
  BY <1>2, <1>3, <1>7 DEF Accepted, Expects
<1>9. rows' = [s \in Streams |-> IF s = t THEN rows[s] \o <<x>>
                                 ELSE IF s = Index /\ Two(c) THEN rows[s] \o <<y>>
                                 ELSE rows[s]]
  <2>1. rows = [s \in Streams |-> rows[s]]
    BY <1>1 DEF Types
  <2>2. CASE ~Two(c)
    BY <2>1, <2>2, <1>3, <1>5, <1>7 DEF PutFirst
  <2>3. CASE Two(c)
    BY <2>1, <2>3, <1>3, <1>4, <1>5, <1>6, <1>7 DEF PutFirst, PutBoth
  <2> QED BY <2>2, <2>3
<1>10. /\ y \in RecordType /\ y.id = <<op[c].n, "index">> /\ y.thread = t /\ y.kind = NewKind(c)
  BY <1>1, <1>3, <1>6, IndexRecordType
<1>11. /\ x \in RecordType /\ x.id = <<op[c].n, "thread">> /\ x.thread = t
       /\ pc[c] = "appended" => x.kind = "event" /\ x.branch = op[c].branch
       /\ pc[c] = "forked" => /\ x.kind = "forked" /\ x.branch = op[c].branch
                              /\ x.from = op[c].from /\ x.fork = n
       /\ Two(c) => x.kind = NewKind(c)
       /\ pc[c] = "created" => op[c].kind = "create"
       /\ pc[c] = "archived" => op[c].kind \in {"archive", "unarchive"}
  BY <1>1, <1>3, <1>5, ThreadRecordType
<1>12. pc[c] = "appended" => Len(rows[t]) = Len(observed[c])
  BY <1>2, <1>8 DEF Expects
<1>13. Two(c) <=> x.kind \in {"created"} \union Toggles
  BY <1>1, <1>11 DEF Two, Waiting, Toggles, NewKind
<1>14. x.kind = "created" <=> rows[t] = << >>
  BY <1>1, <1>8, <1>11 DEF Two, Waiting, NewKind, Found
<1>15. x.kind \in Toggles => ArchivedIn(rows[t]) # (x.kind = "archived")
  <2>1. SUFFICES ASSUME x.kind \in Toggles PROVE ArchivedIn(rows[t]) # (x.kind = "archived")
    OBVIOUS
  <2>2. pc[c] = "archived" /\ x.kind = NewKind(c) /\ op[c].kind \in {"archive", "unarchive"}
    BY <2>1, <1>1, <1>11 DEF Two, Waiting, NewKind, Toggles
  <2>3. (x.kind = "archived") = (op[c].kind = "archive")
    BY <2>2 DEF NewKind
  <2>4. ArchivedIn(rows[t]) # (op[c].kind = "archive")
    BY <2>2, <1>8 DEF Found
  <2> QED BY <2>3, <2>4
<1>16. x.kind = "forked" => /\ x.branch = Alt /\ x.from = Main /\ x.fork = Len(rows[t])
                            /\ Alt \notin BranchesOf(rows[t])
  <2>1. SUFFICES ASSUME x.kind = "forked"
                 PROVE  /\ x.branch = Alt /\ x.from = Main /\ x.fork = Len(rows[t])
                        /\ Alt \notin BranchesOf(rows[t])
    OBVIOUS
  <2>2. pc[c] = "forked"
    BY <2>1, <1>1, <1>11, <1>13 DEF Waiting, Two, Toggles
  <2>3. op[c] \in ForkOp
    BY <2>2, <1>1 DEF CallerOK, CallOK
  <2>4. op[c].branch \in {Main, Alt} /\ op[c].from \in {Main, Alt}
    BY <2>3 DEF ForkOp, Branches
  <2>5. op[c].from \in BranchesOf(rows[t]) /\ op[c].branch \notin BranchesOf(rows[t])
    BY <2>2, <1>8 DEF Found
  <2>6. Main \in BranchesOf(rows[t])
    BY DEF BranchesOf
  <2>7. op[c].branch = Alt /\ op[c].from = Main
    BY <2>4, <2>5, <2>6
  <2> QED BY <2>2, <2>5, <2>7, <1>8, <1>11
<1>17. Two(c) => y.kind = x.kind
  BY <1>10, <1>11
<1>18. Lands(c, t, x, y)
  BY <1>3, <1>4, <1>8, <1>9, <1>10, <1>11, <1>12, <1>13, <1>14, <1>15, <1>16, <1>17 DEF Lands
<1> QED BY <1>18

LEMMA LandedStreams ==
    ASSUME Inv, NEW c \in Callers, NEW t, NEW x, NEW y, Lands(c, t, x, y)
    PROVE  /\ t \in Streams /\ Index \in Streams /\ t # Index
           /\ rows' \in [Streams -> Seq(RecordType)]
           /\ rows'[t] = rows[t] \o <<x>>
           /\ rows'[Index] = IF Two(c) THEN rows[Index] \o <<y>> ELSE rows[Index]
           /\ \A s \in Threads : s # t => rows'[s] = rows[s]
<1>1. t \in Streams /\ Index \in Streams /\ t # Index /\ Types
  BY Names DEF Lands, Inv
<1>2. /\ rows' = [s \in Streams |-> IF s = t THEN rows[s] \o <<x>>
                                    ELSE IF s = Index /\ Two(c) THEN rows[s] \o <<y>>
                                    ELSE rows[s]]
      /\ x \in RecordType /\ y \in RecordType
  BY DEF Lands
<1>3. ASSUME NEW s \in Streams PROVE rows'[s] \in Seq(RecordType)
  BY <1>1, <1>2, StreamType
<1>4. rows' \in [Streams -> Seq(RecordType)]
  BY <1>2, <1>3
<1>5. rows'[t] = rows[t] \o <<x>>
  BY <1>1, <1>2
<1>6. rows'[Index] = IF Two(c) THEN rows[Index] \o <<y>> ELSE rows[Index]
  BY <1>1, <1>2
<1>7. \A s \in Threads : s # t => rows'[s] = rows[s]
  BY <1>1, <1>2, Names
<1> QED BY <1>1, <1>4, <1>5, <1>6, <1>7

LEMMA Extended ==
    ASSUME NEW q \in Seq(RecordType), NEW r \in RecordType, NEW p, p = q \o <<r>>
    PROVE  /\ p \in Seq(RecordType) /\ Len(q) \in Nat /\ Len(p) = Len(q) + 1
           /\ DOMAIN q = 1 .. Len(q) /\ DOMAIN p = 1 .. Len(q) + 1
           /\ \A i \in DOMAIN q : p[i] = q[i]
           /\ p[Len(q) + 1] = r
OBVIOUS

(* Nothing that was there changes.                                         *)
LEMMA LandedKeeps ==
    ASSUME Inv, NEW c \in Callers, NEW t, NEW x, NEW y, Lands(c, t, x, y), NEW s \in Streams
    PROVE  /\ Len(rows[s]) \in Nat /\ Len(rows'[s]) \in Nat /\ Len(rows[s]) <= Len(rows'[s])
           /\ DOMAIN rows[s] = 1 .. Len(rows[s]) /\ DOMAIN rows'[s] = 1 .. Len(rows'[s])
           /\ \A i \in DOMAIN rows[s] : i \in DOMAIN rows'[s] /\ rows'[s][i] = rows[s][i]
           /\ \A i \in DOMAIN rows'[s] : i \notin DOMAIN rows[s] =>
                 /\ i = Len(rows[s]) + 1
                 /\ \/ s = t /\ rows'[s][i] = x
                    \/ s = Index /\ Two(c) /\ rows'[s][i] = y
<1>1. rows[s] \in Seq(RecordType) /\ x \in RecordType /\ y \in RecordType
  BY StreamType DEF Lands, Inv
<1>2. CASE rows'[s] = rows[s]
  BY <1>1, <1>2
<1>3. CASE rows'[s] = rows[s] \o <<x>> /\ s = t
  BY <1>1, <1>3, Extended
<1>4. CASE rows'[s] = rows[s] \o <<y>> /\ s = Index /\ Two(c)
  BY <1>1, <1>4, Extended
<1>5. \/ rows'[s] = rows[s]
      \/ rows'[s] = rows[s] \o <<x>> /\ s = t
      \/ rows'[s] = rows[s] \o <<y>> /\ s = Index /\ Two(c)
  BY LandedStreams, Names, ZenonT(30)
<1> QED BY <1>2, <1>3, <1>4, <1>5

LEMMA CommittedGrows ==
    ASSUME Inv, NEW c \in Callers, NEW t, NEW x, NEW y, Lands(c, t, x, y), pc[c] \in Waiting
    PROVE  /\ Committed' = Committed \union {op[c].n}
           /\ Cardinality(Committed') = Cardinality(Committed) + 1
<1>1. op[c].n \in 1 .. MaxCalls /\ op[c].n \notin Committed /\ t \in Threads
  BY WaitingOp DEF Lands
<1>2. ASSUME NEW k \in Committed' PROVE k \in Committed \union {op[c].n}
  <2>1. PICK s \in Threads : \E i \in DOMAIN rows'[s] : rows'[s][i].id = <<k, "thread">>
    BY DEF Committed, CommittedIn
  <2>2. PICK i \in DOMAIN rows'[s] : rows'[s][i].id = <<k, "thread">>
    BY <2>1
  <2>3. s \in Streams /\ s # Index /\ k \in 1 .. MaxCalls
    BY Names DEF Committed, CommittedIn
  <2>4. CASE i \in DOMAIN rows[s]
    <3>1. rows[s][i].id = <<k, "thread">>
      BY <2>2, <2>3, <2>4, LandedKeeps
    <3> QED BY <3>1, <2>3, <2>4 DEF Committed, CommittedIn
  <2>5. CASE i \notin DOMAIN rows[s]
    <3>1. rows'[s][i] = x
      BY <2>2, <2>3, <2>5, LandedKeeps
    <3>2. x.id = <<op[c].n, "thread">>
      BY DEF Lands
    <3> QED BY <3>1, <3>2, <2>2
  <2> QED BY <2>4, <2>5
<1>3. ASSUME NEW k \in Committed PROVE k \in Committed'
  <2>1. PICK s \in Threads : \E i \in DOMAIN rows[s] : rows[s][i].id = <<k, "thread">>
    BY DEF Committed, CommittedIn
  <2>2. PICK i \in DOMAIN rows[s] : rows[s][i].id = <<k, "thread">>
    BY <2>1
  <2>3. s \in Streams /\ k \in 1 .. MaxCalls
    BY Names DEF Committed, CommittedIn
  <2>4. i \in DOMAIN rows'[s] /\ rows'[s][i].id = <<k, "thread">>
    BY <2>2, <2>3, LandedKeeps
  <2> QED BY <2>3, <2>4 DEF Committed, CommittedIn
<1>4. op[c].n \in Committed'
  <2>1. rows'[t] = rows[t] \o <<x>> /\ t \in Streams
    BY LandedStreams
  <2>2. rows[t] \in Seq(RecordType) /\ x \in RecordType /\ x.id = <<op[c].n, "thread">>
    BY <2>1, StreamType DEF Lands, Inv
  <2>3. Len(rows[t]) + 1 \in DOMAIN rows'[t] /\ rows'[t][Len(rows[t]) + 1] = x
    BY <2>1, <2>2, Extended
  <2> QED BY <2>2, <2>3, <1>1 DEF Committed, CommittedIn
<1>5. Committed' = Committed \union {op[c].n}
  BY <1>2, <1>3, <1>4
<1>6. IsFiniteSet(Committed)
  BY CommittedFinite
<1> QED BY <1>1, <1>5, <1>6, FS_AddElement

LEMMA RowsGrow ==
    ASSUME Inv, NEW c \in Callers, NEW t, NEW x, NEW y, Lands(c, t, x, y), pc[c] \in Waiting,
           calls' = calls
    PROVE  RowsOK'
<1>1. Committed' = Committed \union {op[c].n}
  BY CommittedGrows
<1>2. /\ x.id = <<op[c].n, "thread">> /\ y.id = <<op[c].n, "index">>
      /\ op[c].n <= calls /\ op[c].n \notin Committed /\ Types /\ RowsOK
      /\ op[c].n \in Nat
  BY WaitingOp DEF Lands, Inv
<1>3. ASSUME NEW s \in Streams, NEW i \in DOMAIN rows'[s]
      PROVE  /\ rows'[s][i].id[1] <= calls
             /\ rows'[s][i].id[2] = IF s = Index THEN "index" ELSE "thread"
             /\ rows'[s][i].id[1] \in Committed'
             /\ \A j \in DOMAIN rows'[s] : rows'[s][i].id = rows'[s][j].id => i = j
  <2>1. ASSUME NEW j \in DOMAIN rows'[s], j \notin DOMAIN rows[s]
        PROVE  /\ rows'[s][j].id = <<op[c].n, IF s = Index THEN "index" ELSE "thread">>
               /\ j = Len(rows[s]) + 1
    <3>1. /\ j = Len(rows[s]) + 1
          /\ \/ s = t /\ rows'[s][j] = x
             \/ s = Index /\ Two(c) /\ rows'[s][j] = y
      BY <2>1, LandedKeeps
    <3> QED BY <3>1, <1>2, LandedStreams
  <2>2. ASSUME NEW j \in DOMAIN rows[s]
        PROVE  /\ j \in DOMAIN rows'[s] /\ rows'[s][j] = rows[s][j]
               /\ rows[s][j].id[1] # op[c].n
    BY <1>2, LandedKeeps DEF RowsOK
  <2>3. CASE i \in DOMAIN rows[s]
    <3>1. rows'[s][i].id[1] <= calls /\ rows'[s][i].id[1] \in Committed'
      BY <2>2, <2>3, <1>1, <1>2 DEF RowsOK
    <3>2. rows'[s][i].id[2] = IF s = Index THEN "index" ELSE "thread"
      BY <2>2, <2>3, <1>2 DEF RowsOK
    <3>3. ASSUME NEW j \in DOMAIN rows'[s], rows'[s][i].id = rows'[s][j].id PROVE i = j
      <4>1. CASE j \in DOMAIN rows[s]
        BY <4>1, <3>3, <2>2, <2>3, <1>2 DEF RowsOK
      <4>2. CASE j \notin DOMAIN rows[s]
        <5>1. rows'[s][j].id[1] = op[c].n
          BY <4>2, <2>1
        <5> QED BY <5>1, <3>3, <2>2, <2>3
      <4> QED BY <4>1, <4>2
    <3> QED BY <3>1, <3>2, <3>3
  <2>4. CASE i \notin DOMAIN rows[s]
    <3>1. /\ rows'[s][i].id = <<op[c].n, IF s = Index THEN "index" ELSE "thread">>
          /\ i = Len(rows[s]) + 1
      BY <2>1, <2>4
    <3>2. rows'[s][i].id[1] = op[c].n
      BY <3>1
    <3>3. rows'[s][i].id[2] = IF s = Index THEN "index" ELSE "thread"
      BY <3>1
    <3>4. ASSUME NEW j \in DOMAIN rows'[s], rows'[s][i].id = rows'[s][j].id PROVE i = j
      <4>1. CASE j \in DOMAIN rows[s]
        BY <4>1, <3>2, <3>4, <2>2
      <4>2. CASE j \notin DOMAIN rows[s]
        BY <4>2, <3>1, <2>1
      <4> QED BY <4>1, <4>2
    <3> QED BY <3>2, <3>3, <3>4, <1>1, <1>2
  <2> QED BY <2>3, <2>4
<1>4. ASSUME NEW s \in Threads, NEW i \in DOMAIN rows'[s], rows'[s][i].kind = "forked"
      PROVE  rows'[s][i].branch = Alt /\ rows'[s][i].from = Main
  <2>1. s \in Streams /\ s # Index
    BY Names
  <2>2. CASE i \in DOMAIN rows[s]
    BY <2>1, <2>2, <1>2, <1>4, LandedKeeps DEF RowsOK
  <2>3. CASE i \notin DOMAIN rows[s]
    <3>1. rows'[s][i] = x
      BY <2>1, <2>3, LandedKeeps
    <3> QED BY <3>1, <1>4 DEF Lands
  <2> QED BY <2>2, <2>3
<1> QED BY <1>3, <1>4 DEF RowsOK

(* The two streams still agree: the index has the record too, when the     *)
(* thread has one that the index must know of.                             *)
LEMMA StreamsAgreeGrow ==
    ASSUME Inv, NEW c \in Callers, NEW t, NEW x, NEW y, Lands(c, t, x, y)
    PROVE  StreamsAgree'
<1>1. Types /\ StreamsAgree
  BY DEF Inv, IndexAgrees
<1>2. /\ t \in Streams /\ Index \in Streams /\ t # Index
      /\ rows'[t] = rows[t] \o <<x>>
      /\ rows'[Index] = IF Two(c) THEN rows[Index] \o <<y>> ELSE rows[Index]
      /\ \A s \in Threads : s # t => rows'[s] = rows[s]
  BY LandedStreams
<1>3. /\ rows[t] \in Seq(RecordType) /\ rows[Index] \in Seq(RecordType) /\ t \in Threads
      /\ x \in RecordType /\ y \in RecordType /\ y.thread = t
      /\ x.kind = "created" <=> rows[t] = << >>
      /\ Two(c) <=> x.kind \in {"created"} \union Toggles
      /\ Two(c) => y.kind = x.kind
  BY <1>1, <1>2, StreamType DEF Lands
<1>4. ASSUME NEW s \in Threads PROVE InIndex(s)' <=> InIndex(s) \/ (Two(c) /\ s = t)
  <2>1. CASE Two(c)
    <3>1. rows'[Index] = rows[Index] \o <<y>>
      BY <2>1, <1>2
    <3>2. /\ DOMAIN rows[Index] = 1 .. Len(rows[Index]) /\ Len(rows[Index]) \in Nat
          /\ DOMAIN rows'[Index] = 1 .. Len(rows[Index]) + 1
          /\ \A i \in DOMAIN rows[Index] : rows'[Index][i] = rows[Index][i]
          /\ rows'[Index][Len(rows[Index]) + 1] = y
      BY <3>1, <1>3, Extended
    <3>3. DOMAIN rows'[Index] = DOMAIN rows[Index] \union {Len(rows[Index]) + 1}
      BY <3>2
    <3> QED BY <3>2, <3>3, <2>1, <1>3 DEF InIndex
  <2>2. CASE ~Two(c)
    BY <2>2, <1>2 DEF InIndex
  <2> QED BY <2>1, <2>2
<1>5. ASSUME NEW s \in Threads PROVE (rows'[s] # << >>) <=> InIndex(s)'
  <2>1. (rows[s] # << >>) <=> InIndex(s)
    BY <1>1 DEF StreamsAgree
  <2>2. CASE s # t
    BY <2>1, <2>2, <1>2, <1>4
  <2>3. CASE s = t
    <3>1. rows'[t] # << >>
      BY <1>2, <1>3
    <3>2. InIndex(t) \/ Two(c)
      BY <2>1, <2>3, <1>3
    <3> QED BY <3>1, <3>2, <2>3, <1>4
  <2> QED BY <2>2, <2>3
<1>6. ASSUME NEW s \in Threads, NEW i \in DOMAIN rows'[s]
      PROVE  rows'[s][i].kind = "created" <=> i = 1
  <2>1. s \in Streams /\ s # Index
    BY Names
  <2>2. CASE i \in DOMAIN rows[s]
    BY <2>1, <2>2, <1>1, LandedKeeps DEF StreamsAgree
  <2>3. CASE i \notin DOMAIN rows[s]
    <3>1. rows'[s][i] = x /\ s = t /\ i = Len(rows[s]) + 1 /\ Len(rows[s]) \in Nat
      BY <2>1, <2>3, LandedKeeps
    <3>2. rows[t] = << >> <=> Len(rows[t]) = 0
      BY <1>3
    <3> QED BY <3>1, <3>2, <1>3
  <2> QED BY <2>2, <2>3
<1>7. ASSUME NEW s \in Threads
      PROVE  ArchivedIn(rows'[s]) <=> Project(Absent, rows'[Index])[s] = "archived"
  <2>1. ArchivedIn(rows[s]) <=> Project(Absent, rows[Index])[s] = "archived"
    BY <1>1 DEF StreamsAgree, Absent
  <2>2. PICK e : e = Project(Absent, rows[Index])
    OBVIOUS
  <2>3. Two(c) => Project(Absent, rows'[Index])[s]
                    = IF s # t THEN e[s]
                      ELSE IF y.kind \in Toggles THEN EntryOf(y.kind) ELSE Seen(e[s])
    <3>1. SUFFICES ASSUME Two(c)
                   PROVE  Project(Absent, rows'[Index])[s]
                            = IF s # t THEN e[s]
                              ELSE IF y.kind \in Toggles THEN EntryOf(y.kind) ELSE Seen(e[s])
      OBVIOUS
    <3>2. PICK q : q = <<y>>
      OBVIOUS
    <3>3. Project(Absent, rows'[Index]) = Project(e, q)
      <4>1. q \in Seq(RecordType)
        BY <3>2, <1>3
      <4>2. rows'[Index] = rows[Index] \o q
        BY <3>1, <3>2, <1>2
      <4>3. Project(Absent, rows[Index] \o q) = Project(Project(Absent, rows[Index]), q)
        BY <4>1, <1>3, ProjectInRounds
      <4> QED BY <4>2, <4>3, <2>2
    <3>4. Project(e, <<y>>)[s] = IF y.thread # s THEN e[s]
                                 ELSE IF y.kind \in Toggles THEN EntryOf(y.kind) ELSE Seen(e[s])
      BY <1>3, ProjectOne
    <3> QED BY <3>2, <3>3, <3>4, <1>3
  <2>4. ~Two(c) => Project(Absent, rows'[Index]) = e
    BY <2>2, <1>2
  <2>5. CASE s # t
    <3>1. Project(Absent, rows'[Index])[s] = e[s]
      BY <2>3, <2>4, <2>5
    <3> QED BY <3>1, <2>1, <2>2, <2>5, <1>2
  <2>6. CASE s = t
    <3>1. ArchivedIn(rows'[t])
            <=> IF x.kind \in Toggles THEN x.kind = "archived" ELSE ArchivedIn(rows[t])
      BY <1>2, <1>3, ArchivedInExtended
    <3>2. CASE x.kind \in Toggles
      <4>1. Project(Absent, rows'[Index])[s] = EntryOf(x.kind)
        BY <3>2, <2>3, <2>6, <1>3
      <4>2. EntryOf(x.kind) = "archived" <=> x.kind = "archived"
        BY DEF EntryOf
      <4> QED BY <4>1, <4>2, <3>1, <3>2, <2>6
    <3>3. CASE x.kind \notin Toggles /\ Two(c)
      <4>1. Project(Absent, rows'[Index])[s] = Seen(e[s])
        BY <3>3, <2>3, <2>6, <1>3
      <4>2. Seen(e[s]) = "archived" <=> e[s] = "archived"
        BY DEF Seen
      <4> QED BY <4>1, <4>2, <3>1, <3>3, <2>1, <2>2, <2>6
    <3>4. CASE x.kind \notin Toggles /\ ~Two(c)
      BY <3>1, <3>4, <2>1, <2>2, <2>4, <2>6
    <3> QED BY <3>2, <3>3, <3>4
  <2> QED BY <2>5, <2>6
<1> QED BY <1>5, <1>6, <1>7 DEF StreamsAgree, Absent

LEMMA ArchivalAlternatesGrow ==
    ASSUME Inv, NEW c \in Callers, NEW t, NEW x, NEW y, Lands(c, t, x, y)
    PROVE  ArchivalAlternates'
<1>1. SUFFICES ASSUME NEW s \in Threads, NEW i \in DOMAIN rows'[s], NEW j \in DOMAIN rows'[s],
                      i < j, rows'[s][i].kind \in Toggles,
                      \A k \in i + 1 .. j - 1 : rows'[s][k].kind \notin Toggles
               PROVE  rows'[s][i].kind # rows'[s][j].kind
  BY DEF ArchivalAlternates, Toggles
<1>2. s \in Streams /\ s # Index /\ Types /\ ArchivalAlternates
  BY Names DEF Inv, IndexAgrees
<1>3. /\ Len(rows[s]) \in Nat /\ Len(rows'[s]) \in Nat
      /\ DOMAIN rows[s] = 1 .. Len(rows[s]) /\ DOMAIN rows'[s] = 1 .. Len(rows'[s])
      /\ \A k \in DOMAIN rows[s] : rows'[s][k] = rows[s][k]
      /\ \A k \in DOMAIN rows'[s] : k \notin DOMAIN rows[s] =>
            k = Len(rows[s]) + 1 /\ s = t /\ rows'[s][k] = x
  BY <1>2, LandedKeeps
<1>4. i \in DOMAIN rows[s]
  BY <1>1, <1>3
<1>5. ASSUME NEW k \in i + 1 .. j - 1
      PROVE  k \in DOMAIN rows[s] /\ rows[s][k].kind \notin Toggles
  <2>1. j \in Nat /\ j <= Len(rows[s]) + 1
    BY <1>3
  <2>2. i \in Nat /\ i >= 1
    BY <1>3
  <2>3. k \in 1 .. Len(rows[s])
    BY <2>1, <2>2, <1>3
  <2> QED BY <2>3, <1>1, <1>3
<1>6. rows[s][i].kind \in Toggles
  BY <1>1, <1>3, <1>4
<1>7. CASE j \in DOMAIN rows[s]
  <2>1. rows[s][i].kind # rows[s][j].kind
    BY <1>1, <1>2, <1>4, <1>5, <1>6, <1>7 DEF ArchivalAlternates, Toggles
  <2> QED BY <2>1, <1>3, <1>4, <1>7
<1>8. CASE j \notin DOMAIN rows[s] /\ x.kind \in Toggles
  <2>1. j = Len(rows[s]) + 1 /\ s = t /\ rows'[s][j] = x
    BY <1>3, <1>8
  <2>2. i \in TogglesIn(rows[s])
    BY <1>4, <1>6 DEF TogglesIn
  <2>3. ASSUME NEW k \in TogglesIn(rows[s]) PROVE k <= i
    <3>1. k \in 1 .. Len(rows[s]) /\ rows[s][k].kind \in Toggles
      BY <1>3 DEF TogglesIn
    <3>2. k \notin i + 1 .. j - 1
      BY <3>1, <1>5
    <3>3. i \in Nat /\ k \in Nat
      BY <3>1, <1>3, <1>4
    <3> QED BY <3>1, <3>2, <3>3, <2>1, <1>3
  <2>4. rows[s] \in Seq(RecordType)
    BY <1>2, StreamType
  <2>5. ArchivedIn(rows[s]) <=> rows[s][i].kind = "archived"
    BY <2>2, <2>3, <2>4, ArchivedByLast
  <2>6. ArchivedIn(rows[s]) # (x.kind = "archived")
    BY <2>1, <1>8 DEF Lands
  <2>7. ArchivedIn(rows[s]) \in BOOLEAN
    BY <2>4, ArchivedByLast
  <2>8. rows[s][i].kind # x.kind
    BY <2>5, <2>6, <2>7
  <2> QED BY <2>1, <2>8, <1>3, <1>4
<1>9. CASE j \notin DOMAIN rows[s] /\ x.kind \notin Toggles
  BY <1>1, <1>3, <1>9
<1> QED BY <1>7, <1>8, <1>9

(* The other calls: what they expect may no longer hold, and then the new  *)
(* record accounts for one more attempt.                                   *)
LEMMA OtherGrow ==
    ASSUME Inv, NEW c \in Callers, NEW t, NEW x, NEW y, Lands(c, t, x, y), pc[c] \in Waiting,
           NEW d \in Callers \ {c}, Same(d), at[d] # "insert", op' = op, calls' = calls
    PROVE  CallerOK(d)'
<1>1. /\ Committed' = Committed \union {op[c].n}
      /\ Cardinality(Committed') = Cardinality(Committed) + 1
  BY CommittedGrows
<1>2. PICK total : total = Cardinality(Committed)
  OBVIOUS
<1>3. total \in Nat /\ Cardinality(Committed') = total + 1
  BY <1>1, <1>2, CommittedFinite
<1>4. Types /\ CallerOK(d) /\ attempt[d] \in Nat
  BY Bounds, SMTT(30) DEF Inv, Types
<1>5. op[c] \in WriteOp
  BY WaitingOp
<1>6. op[d] \in WriteOp => op[d].n # op[c].n /\ op[d].thread \in Threads /\ op[d].thread \in Streams
  BY <1>5, OpNumbers, Names DEF Inv, NumbersOK
<1>7. pc[d] \in Loading \union Waiting => op[d] \in WriteOp
  BY <1>4 DEF CallerOK, CallOK, Loading, Waiting, WriteOp
<1>8. pc[d] \in Loading \union Waiting => attempt[d] <= total + 1
  BY <1>2, <1>3, <1>4 DEF CallerOK, AttemptOK
<1>9. \A s \in Threads : s # t => rows'[s] = rows[s]
  BY LandedStreams, ZenonT(30)
<1>10. ASSUME NEW s \in Streams
       PROVE  /\ Len(rows[s]) \in Nat /\ Len(rows'[s]) \in Nat /\ Len(rows[s]) <= Len(rows'[s])
              /\ \A i \in DOMAIN rows[s] : i \in DOMAIN rows'[s] /\ rows'[s][i] = rows[s][i]
  BY LandedKeeps
<1>11. Len(rows'[t]) = Len(rows[t]) + 1 /\ t \in Threads /\ Index \in Streams
  <2>1. rows'[t] = rows[t] \o <<x>> /\ t \in Streams /\ Index \in Streams
    BY LandedStreams, ZenonT(30)
  <2>2. rows[t] \in Seq(RecordType) /\ x \in RecordType /\ t \in Threads
    BY <2>1, <1>4, StreamType DEF Lands
  <2> QED BY <2>1, <2>2, Extended
<1>12. CallOK(d)'
  BY <1>4 DEF CallerOK, CallOK, Same
<1>13. TransactionOK(d)'
  <2>1. SUFFICES ASSUME at[d] = "begin"
                 PROVE  \E n, m \in Nat : Expects(d, n, m)' /\ Progress(d, n, m)'
    BY DEF TransactionOK, Same
  <2>2. PICK n, m \in Nat : Expects(d, n, m) /\ Progress(d, n, m)
    BY <2>1, <1>4 DEF CallerOK, TransactionOK
  <2>3. pc[d] \in Waiting /\ op[d].thread \in Threads /\ op[d].thread \in Streams
    BY <2>1, <1>4, <1>6, <1>7 DEF CallerOK, CallOK
  <2>4. n <= Len(rows'[op[d].thread]) /\ m <= Len(rows'[Index])
    <3>1. n <= Len(rows[op[d].thread]) /\ m <= Len(rows[Index])
      BY <2>2 DEF Expects
    <3>2. /\ Len(rows[op[d].thread]) <= Len(rows'[op[d].thread])
          /\ Len(rows[op[d].thread]) \in Nat /\ Len(rows'[op[d].thread]) \in Nat
      BY <2>3, <1>10
    <3>3. /\ Len(rows[Index]) <= Len(rows'[Index])
          /\ Len(rows[Index]) \in Nat /\ Len(rows'[Index]) \in Nat
      BY <1>10, <1>11
    <3> QED BY <3>1, <3>2, <3>3
  <2>5. n = Len(rows'[op[d].thread]) => Found(d, rows'[op[d].thread])
    <3>1. CASE op[d].thread # t
      BY <3>1, <2>2, <2>3, <1>9 DEF Expects
    <3>2. CASE op[d].thread = t
      <4>1. n <= Len(rows[t]) /\ Len(rows[t]) \in Nat
        BY <3>2, <2>2, <2>3, <1>10 DEF Expects
      <4>2. n # Len(rows'[t])
        BY <4>1, <1>11
      <4> QED BY <4>2, <3>2
    <3> QED BY <3>1, <3>2
  <2>6. attempt[d] <= Cardinality(Committed')
    BY <2>3, <1>3, <1>8
  <2>7. /\ pc[d] = "created" => n = 0
        /\ pc[d] \in {"appended", "archived"} => n = Len(observed[d])
    BY <2>2 DEF Expects
  <2>8. Found(d, rows[op[d].thread])' <=> Found(d, rows'[op[d].thread])
    BY DEF Found, Same
  <2>9. Expects(d, n, m)'
    BY <2>4, <2>5, <2>6, <2>7, <2>8 DEF Expects, Same
  <2>10. Untouched(d, n, m)'
    <3>1. Untouched(d, n, m)
      BY <2>1, <2>2 DEF Progress
    <3> QED BY <3>1 DEF Untouched, Two, First, Second, ThreadRecord, IndexRecord, NewKind,
                        NewBranch, Same
  <2>11. Progress(d, n, m)'
    BY <2>1, <2>10 DEF Progress, Same
  <2> QED BY <2>9, <2>11
<1>14. UnsettledOK(d)'
  <2>1. SUFFICES ASSUME Unsettled(d), op[d].n \in Committed'
                 PROVE  op[d] \in AppendOp /\ \E k \in 1 .. calls' : Unused(k)'
    BY DEF UnsettledOK, Unsettled, Same
  <2>2. op[d] \in WriteOp
    BY <2>1, <1>4, <1>7 DEF Unsettled, CallerOK, CallOK
  <2>3. op[d].n \in Committed
    BY <2>1, <2>2, <1>1, <1>6
  <2>4. op[d] \in AppendOp
    BY <2>1, <2>3, <1>4 DEF CallerOK, UnsettledOK
  <2>5. PICK k \in 1 .. calls : Unused(k)
    BY <2>1, <2>3, <1>4 DEF CallerOK, UnsettledOK
  <2>6. k # op[c].n
    BY <2>5, <1>5 DEF Unused
  <2>7. Unused(k)'
    BY <2>5, <2>6, <1>1 DEF Unused
  <2> QED BY <2>4, <2>5, <2>7
<1>15. AttemptOK(d)'
  <2>1. pc[d] \in Loading \union Waiting => attempt[d] - 1 <= Cardinality(Committed')
    BY <1>3, <1>4, <1>8
  <2>2. ASSUME pc[d] = "archiveIndex"
        PROVE  /\ Len(observed[d]) <= Len(rows'[op[d].thread])
               /\ Len(observed[d]) = Len(rows'[op[d].thread]) => Found(d, rows'[op[d].thread])
               /\ attempt[d] <= Cardinality(Committed')
    <3>1. op[d].thread \in Threads /\ op[d].thread \in Streams
      BY <2>2, <1>6, <1>7 DEF Loading
    <3>2. /\ Len(observed[d]) <= Len(rows[op[d].thread])
          /\ Len(observed[d]) = Len(rows[op[d].thread]) => Found(d, rows[op[d].thread])
      BY <2>2, <1>4 DEF CallerOK, AttemptOK
    <3>3. /\ Len(rows[op[d].thread]) <= Len(rows'[op[d].thread])
          /\ Len(rows[op[d].thread]) \in Nat /\ Len(rows'[op[d].thread]) \in Nat
      BY <3>1, <1>10
    <3>4. Len(observed[d]) \in Nat
      BY <1>4 DEF Types
    <3>5. Len(observed[d]) <= Len(rows'[op[d].thread])
      BY <3>2, <3>3, <3>4
    <3>6. Len(observed[d]) = Len(rows'[op[d].thread]) => Found(d, rows'[op[d].thread])
      <4>1. CASE op[d].thread # t
        BY <4>1, <3>1, <3>2, <1>9
      <4>2. CASE op[d].thread = t
        <5>1. Len(observed[d]) # Len(rows'[t])
          BY <4>2, <3>2, <3>3, <3>4, <1>11
        <5> QED BY <4>2, <5>1
      <4> QED BY <4>1, <4>2
    <3> QED BY <3>5, <3>6, <2>2, <1>3, <1>8 DEF Loading
  <2>3. Found(d, rows[op[d].thread])' <=> Found(d, rows'[op[d].thread])
    BY DEF Found, Same
  <2> QED BY <2>1, <2>2, <2>3 DEF AttemptOK, Same
<1>16. AnswerOK(d)'
  <2>1. SUFFICES ASSUME at[d] = "answered" PROVE AnswerOK(d)'
    BY DEF AnswerOK, Same
  <2>2. pc[d] \in Waiting /\ op[d].thread \in Streams
    BY <2>1, <1>4, <1>6, <1>7 DEF CallerOK, CallOK
  <2>3. AnswerOK(d)
    BY <1>4 DEF CallerOK
  <2>4. ASSUME answer[d].kind = "ok"
        PROVE  \E i \in DOMAIN rows'[op[d].thread] :
                  /\ rows'[op[d].thread][i].id = <<op[d].n, "thread">>
                  /\ pc[d] = "appended" => i = Len(observed[d]) + 1
    <3>1. PICK i \in DOMAIN rows[op[d].thread] :
              StoredAt(d, i) /\ (pc[d] = "appended" => i = Len(observed[d]) + 1)
      BY <2>1, <2>3, <2>4 DEF AnswerOK
    <3>2. i \in DOMAIN rows'[op[d].thread] /\ rows'[op[d].thread][i] = rows[op[d].thread][i]
      BY <3>1, <2>2, <1>10
    <3> QED BY <3>1, <3>2 DEF StoredAt
  <2>5. attempt[d] <= Cardinality(Committed')
    BY <2>2, <1>3, <1>8
  <2>6. rows[op[d].thread] # << >> => rows'[op[d].thread] # << >>
    <3>1. op[d].thread \in Threads
      BY <2>2, <1>6, <1>7
    <3>2. CASE op[d].thread # t
      BY <3>1, <3>2, <1>9
    <3>3. CASE op[d].thread = t
      BY <3>3, <1>10, <1>11, <2>2
    <3> QED BY <3>2, <3>3
  <2> QED BY <2>1, <2>3, <2>4, <2>5, <2>6 DEF AnswerOK, StoredAt, Same
<1>17. OutcomeOK(d)'
  <2>1. OutcomeOK(d)
    BY <1>4 DEF CallerOK
  <2>2. ASSUME OutcomeHolds(outcome[d], op[d]) PROVE OutcomeHolds(outcome[d], op[d])'
    <3>1. PICK r, o : r = outcome[d] /\ o = op[d]
      OBVIOUS
    <3>2. OutcomeHolds(r, o)
      BY <2>2, <3>1
    <3>3. o \in WriteOp
      BY <3>2 DEF OutcomeHolds
    <3>4. o.n # op[c].n /\ o.thread \in Streams /\ o.thread \in Threads
      BY <3>1, <3>3, <1>6
    <3>5. ASSUME r.kind = "ok", o \notin ArchiveOp
          PROVE  \E i \in DOMAIN rows'[o.thread] :
                    rows'[o.thread][i].id = <<o.n, "thread">> /\ (o \in AppendOp => i = r.sequence)
      <4>1. PICK i \in DOMAIN rows[o.thread] :
                rows[o.thread][i].id = <<o.n, "thread">> /\ (o \in AppendOp => i = r.sequence)
        BY <3>2, <3>5 DEF OutcomeHolds
      <4>2. i \in DOMAIN rows'[o.thread] /\ rows'[o.thread][i] = rows[o.thread][i]
        BY <4>1, <3>4, <1>10
      <4> QED BY <4>1, <4>2
    <3>6. rows[o.thread] # << >> => rows'[o.thread] # << >>
      <4>1. CASE o.thread # t
        BY <4>1, <3>4, <1>9
      <4>2. CASE o.thread = t
        BY <4>2, <1>10, <1>11, <3>4
      <4> QED BY <4>1, <4>2
    <3>7. o.n \notin Committed => o.n \notin Committed'
      BY <3>4, <1>1
    <3>8. OutcomeHolds(r, o)'
      BY <3>2, <3>5, <3>6, <3>7 DEF OutcomeHolds
    <3> QED BY <3>1, <3>8 DEF Same
  <2> QED BY <2>1, <2>2 DEF OutcomeOK, Same
<1> QED BY <1>12, <1>13, <1>14, <1>15, <1>16, <1>17 DEF CallerOK

LEMMA ViewGrow ==
    ASSUME Inv, NEW c \in Callers, NEW t, NEW x, NEW y, Lands(c, t, x, y), view' = view
    PROVE  ViewOK'
<1>1. /\ Index \in Streams /\ ViewOK /\ view.checkpoint \in Nat /\ view.since \in Nat
  BY Names DEF Inv, Types, ViewType
<1>2. /\ Len(rows[Index]) \in Nat /\ Len(rows'[Index]) \in Nat
      /\ Len(rows[Index]) <= Len(rows'[Index])
      /\ DOMAIN rows[Index] = 1 .. Len(rows[Index])
      /\ \A i \in DOMAIN rows[Index] : rows'[Index][i] = rows[Index][i]
  BY <1>1, LandedKeeps
<1>3. /\ view.checkpoint <= Len(rows[Index]) /\ view.since <= Len(rows[Index])
      /\ view.checkpoint <= Len(rows'[Index]) /\ view.since <= Len(rows'[Index])
  BY <1>1, <1>2 DEF ViewOK
<1>4. SubSeq(rows'[Index], 1, view.checkpoint) = SubSeq(rows[Index], 1, view.checkpoint)
  <2>1. rows[Index] \in Seq(RecordType) /\ rows'[Index] \in Seq(RecordType)
    BY <1>1, StreamType, LandedStreams DEF Inv
  <2>2. PICK p, q, k : p = rows[Index] /\ q = rows'[Index] /\ k = view.checkpoint
    OBVIOUS
  <2>3. /\ p \in Seq(RecordType) /\ q \in Seq(RecordType) /\ k \in Nat
        /\ k <= Len(p) /\ k <= Len(q) /\ \A i \in 1 .. Len(p) : q[i] = p[i]
    BY <2>1, <2>2, <1>1, <1>2, <1>3
  <2>4. /\ SubSeq(p, 1, k) = [i \in 1 .. k |-> p[i]]
        /\ SubSeq(q, 1, k) = [i \in 1 .. k |-> q[i]]
    BY <2>3
  <2>5. \A i \in 1 .. k : p[i] = q[i]
    BY <2>3
  <2>6. SubSeq(p, 1, k) = SubSeq(q, 1, k)
    BY <2>4, <2>5
  <2> QED BY <2>2, <2>6
<1> QED BY <1>1, <1>3, <1>4 DEF ViewOK, Absent

LEMMA CommitKept ==
    ASSUME Inv, NEW c \in Callers, NEW a \in AnswerType, a.kind \in {"ok", "error"},
           CommitAs(c, a), PagesFiltered, faults' \in 0 .. MaxFaults,
           UNCHANGED <<op, pc, attempt, observed, outcome, view, calls>>
    PROVE  Inv'
<1>1. /\ at[c] = "insert" /\ batch[c] = << >> /\ rows' = staged /\ writer' = NoWriter
      /\ at' = [at EXCEPT ![c] = "answered"] /\ answer' = [answer EXCEPT ![c] = a]
      /\ staged' = staged /\ batch' = batch /\ tries' = tries
  BY DEF CommitAs, Answered
<1>2. Types /\ CallerOK(c) /\ pc[c] \in Waiting /\ writer = c
  BY <1>1 DEF Inv, CallerOK, CallOK, LockOK
<1>3. PICK t, x, y : Lands(c, t, x, y)
  BY <1>1, CommitLands
<1>4. /\ at'[c] = "answered" /\ answer'[c] = a
      /\ \A d \in Callers \ {c} : Same(d) /\ at[d] # "insert" /\ at'[d] = at[d]
  BY <1>1, <1>2 DEF Inv, Types, LockOK, Same
<1>5. /\ page' \in [Callers -> PageType] /\ \A d \in Callers : PageOK(d)'
  <2>1. ASSUME NEW s \in Threads, rows[s] # << >> PROVE rows'[s] # << >>
    <3>1. s \in Streams
      BY Names
    <3>2. rows[s] \in Seq(RecordType) /\ rows'[s] \in Seq(RecordType)
      BY <3>1, <1>2, <1>3, StreamType, LandedStreams
    <3>3. Len(rows[s]) <= Len(rows'[s])
      BY <3>1, <1>3, LandedKeeps
    <3> QED BY <2>1, <3>2, <3>3
  <2> QED BY <2>1, StorePages
<1>6. Types'
  <2>1. rows' \in [Streams -> Seq(RecordType)]
    BY <1>3, LandedStreams
  <2>2. at' \in [Callers -> {"idle", "begin", "insert", "answered"}]
    BY <1>1, <1>2 DEF Types
  <2>3. answer' \in [Callers -> AnswerType]
    BY <1>1, <1>2 DEF Types
  <2> QED BY <2>1, <2>2, <2>3, <1>1, <1>2, <1>5 DEF Types
<1>7. RowsOK' /\ IndexAgrees'
  BY <1>2, <1>3, RowsGrow, StreamsAgreeGrow, ArchivalAlternatesGrow DEF IndexAgrees
<1>8. NumbersOK'
  BY DEF Inv, NumbersOK
<1>9. LockOK'
  BY <1>1, <1>4, Names DEF LockOK
<1>10. CallerOK(c)'
  <2>1. /\ Committed' = Committed \union {op[c].n}
        /\ Cardinality(Committed') = Cardinality(Committed) + 1
    BY <1>2, <1>3, CommittedGrows
  <2>2. CallOK(c)'
    BY <1>2, <1>4 DEF CallerOK, CallOK
  <2>3. TransactionOK(c)'
    BY <1>4 DEF TransactionOK
  <2>4. UnsettledOK(c)'
    BY <1>2, <1>4 DEF UnsettledOK, Unsettled, Loading, Waiting
  <2>5. AttemptOK(c)'
    <3>1. attempt[c] - 1 <= Cardinality(Committed) /\ pc[c] # "archiveIndex"
      BY <1>2 DEF CallerOK, AttemptOK, Waiting
    <3>2. attempt[c] \in Nat /\ Cardinality(Committed) \in Nat
      BY <1>2, Bounds, CommittedFinite DEF Types
    <3>3. attempt[c] - 1 <= Cardinality(Committed')
      BY <3>1, <3>2, <2>1
    <3> QED BY <3>1, <3>3 DEF AttemptOK
  <2>6. AnswerOK(c)'
    <3>1. t = op[c].thread /\ x.id = <<op[c].n, "thread">> /\ x \in RecordType
      BY <1>3 DEF Lands
    <3>2. rows'[t] = rows[t] \o <<x>> /\ t \in Streams
      BY <1>3, LandedStreams
    <3>3. rows[t] \in Seq(RecordType)
      BY <3>2, <1>2, StreamType
    <3>4. PICK i : i = Len(rows[t]) + 1
      OBVIOUS
    <3>5. i \in DOMAIN rows'[t] /\ rows'[t][i] = x
      BY <3>1, <3>2, <3>3, <3>4, Extended
    <3>6. pc[c] = "appended" => i = Len(observed[c]) + 1
      BY <3>4, <1>3 DEF Lands
    <3> QED BY <3>1, <3>5, <3>6, <1>4 DEF AnswerOK, StoredAt
  <2>7. OutcomeOK(c)'
    BY <1>2 DEF CallerOK, OutcomeOK, Waiting
  <2> QED BY <2>2, <2>3, <2>4, <2>5, <2>6, <2>7 DEF CallerOK
<1>11. ASSUME NEW d \in Callers PROVE CallerOK(d)'
  <2>1. CASE d = c
    BY <2>1, <1>10
  <2>2. CASE d # c
    BY <2>2, <1>2, <1>3, <1>4, OtherGrow
  <2> QED BY <2>1, <2>2
<1>12. ViewOK'
  BY <1>3, ViewGrow
<1> QED BY <1>5, <1>6, <1>7, <1>8, <1>9, <1>11, <1>12 DEF Inv

LEMMA StoreStepKept ==
    ASSUME Inv, NEW c \in Callers, StoreStep(c)
    PROVE  Inv'
<1>1. PagesFiltered /\ UNCHANGED <<op, pc, attempt, observed, outcome, view, calls>>
  BY DEF StoreStep, PagesFiltered
<1>2. Types
  BY DEF Inv
<1>3. CASE BeginImmediate(c)
  BY <1>1, <1>3, BeginImmediateKept
<1>4. CASE BeginBusy(c)
  BY <1>1, <1>4, BeginBusyKept
<1>5. CASE InsertRequest(c)
  BY <1>1, <1>5, InsertRequestKept
<1>6. CASE StatementFails(c)
  BY <1>1, <1>6, StatementFailsKept
<1>7. CASE Commit(c)
  <2>1. PICK a : a = Answer("ok", "")
    OBVIOUS
  <2>2. CommitAs(c, a) /\ faults' = faults
    BY <2>1, <1>7 DEF Commit
  <2>3. a \in AnswerType /\ a.kind = "ok"
    BY <2>1 DEF Answer, AnswerType
  <2>4. faults' \in 0 .. MaxFaults
    BY <2>2, <1>2 DEF Types
  <2> QED BY <2>2, <2>3, <2>4, <1>1, CommitKept
<1>8. CASE CommitUnanswered(c)
  <2>1. PICK a : a = Answer("error", "")
    OBVIOUS
  <2>2. CommitAs(c, a) /\ faults' = faults + 1 /\ faults < MaxFaults
    BY <2>1, <1>8 DEF CommitUnanswered
  <2>3. a \in AnswerType /\ a.kind = "error"
    BY <2>1 DEF Answer, AnswerType
  <2>4. faults \in 0 .. MaxFaults /\ MaxFaults \in Nat
    BY <1>2, Bounds DEF Types
  <2>5. faults' \in 0 .. MaxFaults
    BY <2>2, <2>4
  <2> QED BY <2>2, <2>3, <2>5, <1>1, CommitKept
<1> QED BY <1>3, <1>4, <1>5, <1>6, <1>7, <1>8 DEF StoreStep, AppendBatchStep

-----------------------------------------------------------------------------
(* The invariant.                                                          *)

LEMMA InitKept == Init => Inv
<1> SUFFICES ASSUME Init PROVE Inv
  OBVIOUS
<1>1. /\ rows = [s \in Streams |-> << >>] /\ writer = NoWriter
      /\ staged = [s \in Streams |-> << >>] /\ batch = [c \in Callers |-> << >>]
      /\ at = [c \in Callers |-> "idle"] /\ tries = [c \in Callers |-> 0]
      /\ answer = [c \in Callers |-> NoAnswer] /\ faults = 0
  BY DEF Init, SqlInit
<1>2. /\ op = [c \in Callers |-> NoOp] /\ pc = [c \in Callers |-> "idle"]
      /\ attempt = [c \in Callers |-> 0] /\ observed = [c \in Callers |-> << >>]
      /\ page = [c \in Callers |-> NoPage] /\ outcome = [c \in Callers |-> NoOutcome]
      /\ view = [entries |-> [t \in Threads |-> "absent"], checkpoint |-> 0, last |-> << >>,
                 since |-> 0, running |-> FALSE]
      /\ calls = 0
  BY DEF Init
<1>3. \A s \in Streams : rows[s] = << >>
  BY <1>1
<1>4. Types
  <2>1. NoAnswer \in AnswerType /\ NoOp \in WriteOp \union ReadOp /\ NoPage \in PageType
    BY DEF NoAnswer, AnswerType, NoOp, ReadOp, NoPage, PageType
  <2>2. view \in ViewType
    BY <1>2 DEF ViewType, EntryType
  <2>3. rows \in [Streams -> Seq(RecordType)] /\ observed \in [Callers -> Seq(RecordType)]
    BY <1>1, <1>2
  <2>4. tries \in [Callers -> 0 .. SqliteAttempts] /\ attempt \in [Callers -> 0 .. ThreadRetries]
    BY <1>1, <1>2, Bounds
  <2>5. faults \in 0 .. MaxFaults /\ calls \in 0 .. MaxCalls
    BY <1>1, <1>2, Bounds
  <2>6. batch = [c \in Callers |-> batch[c]] /\ outcome = [c \in Callers |-> outcome[c]]
    BY <1>1, <1>2
  <2> QED BY <2>1, <2>2, <2>3, <2>4, <2>5, <2>6, <1>1, <1>2 DEF Types
<1>5. RowsOK
  <2>1. \A s \in Streams : DOMAIN rows[s] = {}
    BY <1>3
  <2> QED BY <2>1, Names DEF RowsOK
<1>6. \A t \in Threads : Project(Absent, << >>)[t] = "absent"
  <2>1. ASSUME NEW t \in Threads PROVE Project(Absent, << >>)[t] = "absent"
    <3>1. PICK q : q = << >>
      OBVIOUS
    <3>2. q \in Seq(RecordType) /\ OwnIn(q, t) = {}
      BY <3>1 DEF OwnIn
    <3>3. Project(Absent, q)[t] = Absent[t]
      BY <3>2, ProjectByLast
    <3> QED BY <3>1, <3>3 DEF Absent
  <2> QED BY <2>1
<1>7. IndexAgrees
  <2>1. \A s \in Streams : DOMAIN rows[s] = {}
    BY <1>3
  <2>2. \A t \in Threads : rows[t] = << >> /\ DOMAIN rows[t] = {}
    BY <2>1, <1>3, Names
  <2>3. \A t \in Threads : ~InIndex(t)
    BY <2>1, Names DEF InIndex
  <2>4. \A t \in Threads : ~ArchivedIn(rows[t])
    BY <2>2, ArchivedInEmpty
  <2>5. \A t \in Threads : Project([x \in Threads |-> "absent"], rows[Index])[t] # "archived"
    <3>1. rows[Index] = << >>
      BY <1>3, Names
    <3> QED BY <3>1, <1>6 DEF Absent
  <2>6. StreamsAgree
    BY <2>2, <2>3, <2>4, <2>5 DEF StreamsAgree
  <2>7. ArchivalAlternates
    BY <2>2 DEF ArchivalAlternates
  <2> QED BY <2>6, <2>7 DEF IndexAgrees
<1>8. \A c \in Callers : op[c] \notin WriteOp
  <2>1. NoOp.kind = "none"
    BY DEF NoOp
  <2>2. NoOp \notin WriteOp
    BY <2>1 DEF WriteOp, CreateOp, AppendOp, ForkOp, ArchiveOp
  <2> QED BY <2>2, <1>2
<1>9. NumbersOK
  BY <1>8 DEF NumbersOK
<1>10. LockOK
  BY <1>1, Names DEF LockOK
<1>11. ASSUME NEW c \in Callers PROVE CallerOK(c)
  <2>1. pc[c] = "idle" /\ at[c] = "idle" /\ outcome[c] = NoOutcome
    BY <1>1, <1>2
  <2>2. CallOK(c)
    BY <2>1, <1>8 DEF CallOK, Loading, Waiting
  <2> QED BY <2>1, <2>2 DEF CallerOK, TransactionOK, UnsettledOK, Unsettled, AttemptOK, AnswerOK,
                            OutcomeOK, Loading, Waiting
<1>12. \A c \in Callers : PageOK(c)
  BY <1>2 DEF PageOK, Listing
<1>13. ViewOK
  <2>1. /\ view.checkpoint = 0 /\ view.since = 0 /\ view.last = << >> /\ view.entries = Absent
    BY <1>2 DEF Absent
  <2>2. rows[Index] = << >>
    BY <1>3, Names
  <2>3. Len(<< >>) = 0 /\ SubSeq(<< >>, 1, 0) = << >>
    OBVIOUS
  <2>4. Project(Absent, << >>) = Absent
    BY <1>6 DEF Project, Absent
  <2>5. /\ view.checkpoint <= Len(rows[Index]) /\ view.since <= Len(rows[Index])
        /\ view.checkpoint >= view.since
    BY <2>1, <2>2, <2>3
  <2>6. view.entries = Project(Absent, SubSeq(rows[Index], 1, view.checkpoint))
    BY <2>1, <2>2, <2>3, <2>4
  <2> QED BY <2>1, <2>5, <2>6 DEF ViewOK
<1> QED BY <1>4, <1>5, <1>7, <1>9, <1>10, <1>11, <1>12, <1>13 DEF Inv

LEMMA StutterKept ==
    ASSUME Inv, UNCHANGED vars
    PROVE  Inv'
<1>1. /\ UNCHANGED <<sqlVars, op, pc, attempt, observed, page, outcome>>
      /\ view' = view /\ calls' = calls /\ rows' = rows
  BY DEF vars, threadVars, sqlVars
<1>2. calls' \in 0 .. MaxCalls /\ calls' >= calls /\ view' \in ViewType
  <2>1. calls \in 0 .. MaxCalls /\ view \in ViewType
    BY DEF Inv, Types
  <2> QED BY <2>1, <1>1, Bounds
<1>3. ViewOK'
  BY <1>1, ViewFrame DEF Inv
<1> QED BY <1>1, <1>2, <1>3, ViewStepKept

LEMMA NextKept ==
    ASSUME Inv, [Next]_vars
    PROVE  Inv'
<1>1. ASSUME NEW c \in Callers, Begin(c) PROVE Inv'
  BY <1>1, BeginKept, RepeatAppendKept, BeginListKept DEF Begin
<1>2. ASSUME NEW c \in Callers, Continue(c) PROVE Inv'
  BY <1>2, createOnceKept, CreateAnsweredKept, AppendLoadKept, AppendAnsweredKept, ForkLoadKept,
     ForkAnsweredKept, ArchiveLoadKept, ArchiveAppendKept, ArchiveAnsweredKept, ListIndexKept,
     ListThreadKept, ListReturnsKept DEF Continue
<1>3. ASSUME NEW c \in Callers, StoreStep(c) PROVE Inv'
  BY <1>3, StoreStepKept
<1>4. CASE BeginEnsureFresh
  BY <1>4, BeginEnsureFreshKept
<1>5. CASE RunOnce
  BY <1>5, RunOnceKept
<1>6. CASE UNCHANGED vars
  BY <1>6, StutterKept
<1> QED BY <1>1, <1>2, <1>3, <1>4, <1>5, <1>6 DEF Next

(* Whatever the callers, processes and faults do to each other, every call *)
(* of the thread store and every transaction of the event store below it   *)
(* is where the other state says it is.                                    *)
THEOREM Invariance == Spec => []Inv
<1>1. Init => Inv
  BY InitKept
<1>2. Inv /\ [Next]_vars => Inv'
  BY NextKept
<1> QED BY <1>1, <1>2, PTL DEF Spec

(* Every variable of the thread store and of its event store has its type, *)
(* and the write transaction has exactly one owner, who is inserting.      *)
THEOREM TypeCorrect == Spec => []TypeOK
<1>1. Inv => TypeOK
  <2> SUFFICES ASSUME Inv PROVE TypeOK
    OBVIOUS
  <2>1. Types /\ LockOK
    BY DEF Inv
  <2>2. ASSUME NEW s \in Streams, NEW i \in DOMAIN rows[s] PROVE rows[s][i].id \in Ids
    <3>1. rows[s][i].id \in (1 .. MaxCalls) \X {"thread", "index"}
      BY <2>1, StoredRecord DEF RecordType, Roles
    <3> QED BY <3>1, ThreadAssumption
  <2>3. ASSUME NEW c \in Callers PROVE outcome[c].kind \in Statuses
    BY DEF Inv, CallerOK, OutcomeOK, OutcomeHolds, NoOutcome, Statuses
  <2> QED BY <2>1, <2>2, <2>3 DEF TypeOK, Types, LockOK
<1> QED BY <1>1, Invariance, PTL

(* Create and Archive write a thread's stream and the index in one batch,  *)
(* so that the index names the threads there are and their archival, and   *)
(* no archival is recorded twice, however calls interleave and fail.       *)
THEOREM IndexTellsThreads == Spec => []IndexAgrees
<1>1. Inv => IndexAgrees
  BY DEF Inv
<1> QED BY <1>1, Invariance, PTL

(* What Create, Append, Fork and Archive return is so, an append repeated  *)
(* after an error included, and no call runs out of attempts by conflicts  *)
(* when it may make as many as there are calls.                            *)
THEOREM OutcomesAreTrue == Spec => []CallsTellTruth
<1>1. Inv => CallsTellTruth
  <2> SUFFICES ASSUME Inv PROVE CallsTellTruth
    OBVIOUS
  <2>1. ASSUME NEW c \in Callers, NEW r, r = outcome[c]
        PROVE  /\ r.kind = "ok" /\ r.of.kind \in {"create", "append", "fork"} => Stored(r.of)
               /\ r.kind \in {"exists", "notfound", "conflict"} =>
                     ~Stored(r.of) \/ r.of.kind = "append"
               /\ r.kind = "exists" => rows[r.of.thread] # << >>
               /\ r.kind = "ok" /\ r.of.kind = "append" =>
                     \E i \in DOMAIN rows[r.of.thread] :
                        i = r.sequence /\ rows[r.of.thread][i].id = <<r.of.n, "thread">>
               /\ r.kind = "conflict" => ThreadRetries < MaxCalls
    <3>1. OutcomeOK(c)
      BY DEF Inv, CallerOK
    <3>2. CASE r.kind \in {"none", "listed"}
      BY <3>2
    <3>3. CASE r.kind \notin {"none", "listed"}
      <4>1. PICK o : o = op[c]
        OBVIOUS
      <4>2. OutcomeHolds(r, o)
        BY <4>1, <3>1, <3>3, <2>1 DEF OutcomeOK, NoOutcome
      <4>3. r.of = o /\ o \in WriteOp
        BY <4>2 DEF OutcomeHolds
      <4>4. o.n \in 1 .. MaxCalls /\ o.thread \in Threads
        BY <4>3, OpNumbers
      <4>5. o.kind \in {"create", "append", "fork"} => o \notin ArchiveOp
        BY DEF ArchiveOp
      <4>6. o.kind = "append" => o \in AppendOp
        BY <4>3 DEF WriteOp, CreateOp, AppendOp, ForkOp, ArchiveOp
      <4>7. o \in AppendOp => o.kind = "append"
        BY DEF AppendOp
      <4>8. Stored(o) => o.n \in Committed
        BY <4>4 DEF Stored, Committed, CommittedIn
      <4>9. r.kind = "ok" /\ r.of.kind \in {"create", "append", "fork"} => Stored(r.of)
        BY <4>2, <4>3, <4>5 DEF OutcomeHolds, Stored
      <4>10. r.kind \in {"exists", "notfound", "conflict"} => ~Stored(r.of) \/ r.of.kind = "append"
        BY <4>2, <4>3, <4>7, <4>8 DEF OutcomeHolds
      <4>11. r.kind = "exists" => rows[r.of.thread] # << >>
        BY <4>2, <4>3 DEF OutcomeHolds
      <4>12. r.kind = "ok" /\ r.of.kind = "append" =>
                \E i \in DOMAIN rows[r.of.thread] :
                   i = r.sequence /\ rows[r.of.thread][i].id = <<r.of.n, "thread">>
        BY <4>2, <4>3, <4>5, <4>6 DEF OutcomeHolds
      <4>13. r.kind = "conflict" => ThreadRetries < MaxCalls
        BY <4>2 DEF OutcomeHolds
      <4> QED BY <4>9, <4>10, <4>11, <4>12, <4>13
    <3> QED BY <3>2, <3>3
  <2>2. OutcomeIsTrue
    BY <2>1 DEF OutcomeIsTrue
  <2>3. NoCallStarves
    <3>1. SUFFICES ASSUME ThreadRetries >= MaxCalls, NEW c \in Callers
                   PROVE  outcome[c].kind # "conflict"
      BY DEF NoCallStarves
    <3>2. outcome[c].kind = "conflict" => ThreadRetries < MaxCalls
      BY <2>1
    <3> QED BY <3>1, <3>2, Bounds
  <2> QED BY <2>2, <2>3 DEF CallsTellTruth
<1> QED BY <1>1, Invariance, PTL

(* listByReplay misses no thread that was there, unarchived, for the whole *)
(* of the call, and EnsureFresh no index record that was there before it.  *)
THEOREM ReadsMissNothing == Spec => []ReadsAreComplete
<1>1. Inv => ReadsAreComplete
  <2> SUFFICES ASSUME Inv PROVE ReadsAreComplete
    OBVIOUS
  <2>1. ASSUME NEW c \in Callers, outcome[c].kind = "listed"
        PROVE  outcome[c].due \subseteq outcome[c].threads
    BY <2>1 DEF Inv, CallerOK, OutcomeOK, OutcomeHolds, NoOutcome
  <2>2. ListIsComplete
    BY <2>1 DEF ListIsComplete
  <2>3. ViewIsFresh
    BY DEF Inv, ViewOK, ViewIsFresh, Absent
  <2> QED BY <2>2, <2>3 DEF ReadsAreComplete
<1> QED BY <1>1, Invariance, PTL

-----------------------------------------------------------------------------
(* What a step does to the rows: nothing, or one COMMIT.                   *)

LEMMA StepRows ==
    ASSUME Inv, [Next]_vars
    PROVE  \/ rows' = rows
           \/ \E c \in Callers : pc[c] \in Waiting /\ \E t, x, y : Lands(c, t, x, y)
<1>1. ASSUME NEW c \in Callers, Begin(c) PROVE rows' = rows
  BY <1>1 DEF Begin, BeginCreate, BeginAppend, RepeatAppend, BeginFork, BeginArchive, BeginList,
              Start, sqlVars
<1>2. ASSUME NEW c \in Callers, Continue(c) PROVE rows' = rows
  <2>1. ASSUME NEW b, Submit(c, b) PROVE rows' = rows
    BY <2>1 DEF Submit
  <2>2. Take(c) => rows' = rows
    BY DEF Take
  <2>3. createOnce(c) => rows' = rows
    BY <2>1 DEF createOnce, sqlVars
  <2>4. AppendLoad(c) => rows' = rows
    BY <2>1 DEF AppendLoad, sqlVars
  <2>5. ForkLoad(c) => rows' = rows
    BY <2>1 DEF ForkLoad, sqlVars
  <2>6. ArchiveLoad(c) => rows' = rows
    BY DEF ArchiveLoad, sqlVars
  <2>7. ArchiveAppend(c) => rows' = rows
    BY <2>1 DEF ArchiveAppend
  <2>8. (ListIndex(c) \/ ListThread(c) \/ ListReturns(c)) => rows' = rows
    BY DEF ListIndex, ListThread, ListReturns, sqlVars
  <2>9. CreateAnswered(c) => rows' = rows
    BY <2>2 DEF CreateAnswered
  <2>10. AppendAnswered(c) => rows' = rows
    BY <2>2 DEF AppendAnswered
  <2>11. ForkAnswered(c) => rows' = rows
    BY <2>2 DEF ForkAnswered
  <2>12. ArchiveAnswered(c) => rows' = rows
    BY <2>2 DEF ArchiveAnswered
  <2> QED BY <1>2, <2>3, <2>4, <2>5, <2>6, <2>7, <2>8, <2>9, <2>10, <2>11, <2>12 DEF Continue
<1>3. ASSUME NEW c \in Callers, StoreStep(c)
      PROVE  rows' = rows \/ (pc[c] \in Waiting /\ \E t, x, y : Lands(c, t, x, y))
  <2>1. CASE \E a : CommitAs(c, a)
    <3>1. at[c] = "insert" /\ batch[c] = << >> /\ rows' = staged
      BY <2>1 DEF CommitAs
    <3>2. pc[c] \in Waiting
      BY <3>1 DEF Inv, CallerOK, CallOK
    <3> QED BY <3>1, <3>2, CommitLands
  <2>2. CASE ~\E a : CommitAs(c, a)
    <3>1. ~Commit(c) /\ ~CommitUnanswered(c)
      BY <2>2 DEF Commit, CommitUnanswered
    <3>2. BeginImmediate(c) => rows' = rows
      BY DEF BeginImmediate
    <3>3. BeginBusy(c) => rows' = rows
      BY DEF BeginBusy
    <3>4. InsertRequest(c) => rows' = rows
      BY DEF InsertRequest, Rollback
    <3>5. StatementFails(c) => rows' = rows
      BY DEF StatementFails, Rollback
    <3> QED BY <1>3, <3>1, <3>2, <3>3, <3>4, <3>5 DEF StoreStep, AppendBatchStep
  <2> QED BY <2>1, <2>2
<1>4. (BeginEnsureFresh \/ RunOnce \/ UNCHANGED vars) => rows' = rows
  BY DEF BeginEnsureFresh, RunOnce, vars, sqlVars
<1> QED BY <1>1, <1>2, <1>3, <1>4 DEF Next

-----------------------------------------------------------------------------
(* The history of a branch.                                                *)

Windows(b, from, fork) ==
    [z \in {b, from} \ {NoBranch} |-> IF z = b THEN [after |-> fork, until |-> 0]
                                               ELSE [after |-> 0, until |-> fork]]

LEMMA WindowsOf ==
    ASSUME NEW recs, NEW b
    PROVE  /\ ForksOf(recs, b) = {} => Parent(recs, b) = NoBranch
           /\ branchWindows(recs, b) = Windows(b, Parent(recs, b), ForkSequence(recs, b))
BY DEF Parent, branchWindows, Windows, NoBranch

LEMMA ForksByLast ==
    ASSUME NEW recs \in Seq(RecordType), NEW b, ForksOf(recs, b) # {}
    PROVE  \E i \in ForksOf(recs, b) :
              Parent(recs, b) = recs[i].from /\ ForkSequence(recs, b) = recs[i].fork
              /\ \A j \in ForksOf(recs, b) : j <= i
<1>1. PICK S : S = ForksOf(recs, b)
  OBVIOUS
<1>2. PICK i : i = CHOOSE z \in S : \A j \in S : j <= z
  OBVIOUS
<1>3. S \in SUBSET (1 .. Len(recs)) /\ Len(recs) \in Nat /\ S # {}
  BY <1>1 DEF ForksOf
<1>4. i \in S /\ \A j \in S : j <= i
  BY <1>2, <1>3, ChosenLast
<1>5. Parent(recs, b) = recs[i].from
  BY <1>1, <1>2 DEF Parent
<1>6. ForkSequence(recs, b) = recs[i].fork
  BY <1>1, <1>2 DEF ForkSequence
<1> QED BY <1>1, <1>4, <1>5, <1>6

(* A record that is no fork of b leaves the history of b as it was.        *)
LEMMA HistoryGrows ==
    ASSUME NEW q \in Seq(RecordType), NEW x \in RecordType, NEW p, p = q \o <<x>>, NEW b,
           x.kind = "forked" => x.branch # b
    PROVE  \A i \in DOMAIN q : i \in EventsForBranch(p, b) <=> i \in EventsForBranch(q, b)
<1>1. /\ p \in Seq(RecordType) /\ Len(q) \in Nat /\ Len(p) = Len(q) + 1
      /\ DOMAIN q = 1 .. Len(q) /\ DOMAIN p = 1 .. Len(q) + 1
      /\ \A i \in DOMAIN q : p[i] = q[i]
      /\ p[Len(q) + 1] = x
  BY Extended
<1>2. DOMAIN p = DOMAIN q \union {Len(q) + 1} /\ Len(q) + 1 \notin DOMAIN q
  BY <1>1
<1>3. ForksOf(p, b) = ForksOf(q, b)
  BY <1>1, <1>2 DEF ForksOf
<1>4. Parent(p, b) = Parent(q, b) /\ ForkSequence(p, b) = ForkSequence(q, b)
  <2>1. CASE ForksOf(q, b) = {}
    BY <2>1, <1>3, WindowsOf DEF ForkSequence
  <2>2. CASE ForksOf(q, b) # {}
    <3>1. PICK i \in ForksOf(q, b) :
              Parent(q, b) = q[i].from /\ ForkSequence(q, b) = q[i].fork
              /\ \A j \in ForksOf(q, b) : j <= i
      BY <2>2, ForksByLast
    <3>2. PICK k \in ForksOf(p, b) :
              Parent(p, b) = p[k].from /\ ForkSequence(p, b) = p[k].fork
              /\ \A j \in ForksOf(p, b) : j <= k
      BY <2>2, <1>1, <1>3, ForksByLast
    <3>3. i \in DOMAIN q /\ k \in DOMAIN q /\ i <= k /\ k <= i
      BY <3>1, <3>2, <1>3 DEF ForksOf
    <3>4. i = k
      BY <3>3, <1>1
    <3> QED BY <3>1, <3>2, <3>3, <3>4, <1>1
  <2> QED BY <2>1, <2>2
<1>5. branchWindows(p, b) = branchWindows(q, b)
  BY <1>4, WindowsOf
<1>6. PICK w : w = branchWindows(q, b)
  OBVIOUS
<1>7. EventsForBranch(q, b) = {i \in DOMAIN q :
          /\ q[i].branch \in DOMAIN w
          /\ i > w[q[i].branch].after
          /\ w[q[i].branch].until > 0 => i <= w[q[i].branch].until}
  BY <1>6 DEF EventsForBranch
<1>8. EventsForBranch(p, b) = {i \in DOMAIN p :
          /\ p[i].branch \in DOMAIN w
          /\ i > w[p[i].branch].after
          /\ w[p[i].branch].until > 0 => i <= w[p[i].branch].until}
  BY <1>5, <1>6 DEF EventsForBranch
<1> QED BY <1>1, <1>2, <1>7, <1>8

(* A new branch starts with the history of the main branch.                *)
LEMMA BranchStarts ==
    ASSUME NEW q \in Seq(RecordType), NEW x \in RecordType, NEW p, p = q \o <<x>>, q # << >>,
           x.kind = "forked", x.branch = Alt, x.from = Main, x.fork = Len(q),
           Alt \notin BranchesOf(q), ForksOf(q, Main) = {}
    PROVE  /\ Parent(p, Alt) = Main
           /\ EventsForBranch(p, Alt) = EventsForBranch(q, Main) \union {Len(p)}
<1>1. /\ p \in Seq(RecordType) /\ Len(q) \in Nat /\ Len(p) = Len(q) + 1
      /\ DOMAIN q = 1 .. Len(q) /\ DOMAIN p = 1 .. Len(q) + 1
      /\ \A i \in DOMAIN q : p[i] = q[i]
      /\ p[Len(q) + 1] = x
  BY Extended
<1>2. DOMAIN p = DOMAIN q \union {Len(q) + 1} /\ Len(q) + 1 \notin DOMAIN q
  BY <1>1
<1>3. Len(q) > 0
  BY <1>1
<1>4. ForksOf(p, Alt) = {Len(q) + 1}
  <2>1. \A i \in DOMAIN q : ~(q[i].kind = "forked" /\ q[i].branch = Alt)
    BY DEF BranchesOf
  <2> QED BY <2>1, <1>1, <1>2 DEF ForksOf
<1>5. Parent(p, Alt) = Main /\ ForkSequence(p, Alt) = Len(q)
  <2>0. ForksOf(p, Alt) # {} /\ p \in Seq(RecordType)
    BY <1>1, <1>4
  <2>1. PICK k \in ForksOf(p, Alt) :
            /\ Parent(p, Alt) = p[k].from /\ ForkSequence(p, Alt) = p[k].fork
            /\ \A j \in ForksOf(p, Alt) : j <= k
    BY <2>0, ForksByLast
  <2> QED BY <2>1, <1>1, <1>4
<1>6. Main # Alt /\ Main # NoBranch /\ Alt # NoBranch
  BY Names
<1>7. PICK w : w = branchWindows(p, Alt)
  OBVIOUS
<1>8. w = Windows(Alt, Main, Len(q))
  BY <1>5, <1>7, WindowsOf
<1>9. /\ DOMAIN w = {Alt, Main} /\ w[Alt].after = Len(q) /\ w[Alt].until = 0
      /\ w[Main].after = 0 /\ w[Main].until = Len(q)
  <2>1. Alt # Main
    BY <1>6
  <2>2. /\ DOMAIN w = {Alt, Main} \ {NoBranch} /\ w[Alt].after = Len(q) /\ w[Alt].until = 0
        /\ Main # NoBranch => w[Main].after = 0 /\ w[Main].until = Len(q)
    BY <2>1, <1>6, <1>8 DEF Windows
  <2>3. {Alt, Main} \ {NoBranch} = {Alt, Main}
    BY <1>6
  <2> QED BY <2>2, <2>3, <1>6
<1>10. EventsForBranch(p, Alt) = {i \in DOMAIN p :
          /\ p[i].branch \in DOMAIN w
          /\ i > w[p[i].branch].after
          /\ w[p[i].branch].until > 0 => i <= w[p[i].branch].until}
  BY <1>7 DEF EventsForBranch
<1>11. PICK v : v = branchWindows(q, Main)
  OBVIOUS
<1>12. DOMAIN v = {Main} /\ v[Main].after = 0 /\ v[Main].until = 0
  <2>1. Parent(q, Main) = NoBranch /\ ForkSequence(q, Main) = 0
    BY WindowsOf DEF ForkSequence
  <2>2. v = Windows(Main, NoBranch, 0)
    BY <2>1, <1>11, WindowsOf
  <2>3. DOMAIN v = {Main, NoBranch} \ {NoBranch} /\ v[Main].after = 0 /\ v[Main].until = 0
    BY <2>2, <1>6 DEF Windows
  <2>4. {Main, NoBranch} \ {NoBranch} = {Main}
    BY <1>6
  <2> QED BY <2>3, <2>4
<1>13. EventsForBranch(q, Main) = {i \in DOMAIN q :
          /\ q[i].branch \in DOMAIN v
          /\ i > v[q[i].branch].after
          /\ v[q[i].branch].until > 0 => i <= v[q[i].branch].until}
  BY <1>11 DEF EventsForBranch
<1>14. ASSUME NEW i \in DOMAIN q
       PROVE  /\ i \in EventsForBranch(p, Alt) <=> q[i].branch = Main
              /\ i \in EventsForBranch(q, Main) <=> q[i].branch = Main
  <2>1. i \in Nat /\ i >= 1 /\ i <= Len(q) /\ p[i] = q[i] /\ i \in DOMAIN p
    BY <1>1, <1>2
  <2>2. i \in EventsForBranch(q, Main) <=> q[i].branch = Main
    BY <2>1, <1>12, <1>13
  <2>3. CASE q[i].branch = Main
    BY <2>1, <2>2, <2>3, <1>1, <1>9, <1>10
  <2>4. CASE q[i].branch = Alt
    BY <2>1, <2>2, <2>4, <1>1, <1>6, <1>9, <1>10
  <2>5. CASE q[i].branch \notin {Main, Alt}
    BY <2>1, <2>2, <2>5, <1>9, <1>10
  <2> QED BY <2>3, <2>4, <2>5
<1>15. Len(q) + 1 \in EventsForBranch(p, Alt)
  <2>1. p[Len(q) + 1].branch = Alt /\ Len(q) + 1 \in DOMAIN p
    BY <1>1, <1>2
  <2>2. Len(q) + 1 > Len(q)
    BY <1>1
  <2> QED BY <2>1, <2>2, <1>9, <1>10
<1>16. EventsForBranch(p, Alt) \subseteq DOMAIN p /\ EventsForBranch(q, Main) \subseteq DOMAIN q
  BY <1>10, <1>13
<1>17. EventsForBranch(p, Alt) = EventsForBranch(q, Main) \union {Len(q) + 1}
  BY <1>2, <1>14, <1>15, <1>16
<1> QED BY <1>1, <1>5, <1>17

(* EventsForBranch: the history of a branch only grows at its end, and a   *)
(* branch that Fork creates starts with what its parent shows then,        *)
(* whatever is appended to either of them afterwards.                      *)
THEOREM BranchHistory == Spec => HistoryIsStable
<1> DEFINE Grows(t) ==
        /\ \A b \in BranchesOf(rows[t]) :
              rows[t] # << >> =>
              EventsForBranch(rows'[t], b) \intersect (1 .. Len(rows[t]))
                  = EventsForBranch(rows[t], b)
        /\ \A b \in BranchesOf(rows'[t]) \ BranchesOf(rows[t]) :
              Parent(rows'[t], b) # "" =>
              EventsForBranch(rows'[t], b)
                  = EventsForBranch(rows[t], Parent(rows'[t], b)) \union {Len(rows'[t])}
<1>1. Inv /\ [Next]_vars => [\A t \in Threads : Grows(t)]_rows
  <2> SUFFICES ASSUME Inv, [Next]_vars, rows' # rows, NEW s \in Threads PROVE Grows(s)
    OBVIOUS
  <2>1. PICK c \in Callers : pc[c] \in Waiting /\ \E t, x, y : Lands(c, t, x, y)
    BY StepRows
  <2>2. PICK t, x, y : Lands(c, t, x, y)
    BY <2>1
  <2>3. PICK q : q = rows[s]
    OBVIOUS
  <2>4. PICK p : p = rows'[s]
    OBVIOUS
  <2>5. q \in Seq(RecordType) /\ s \in Streams
    <3>1. s \in Streams
      BY Names
    <3> QED BY <3>1, <2>3, StreamType DEF Inv
  <2>6. CASE s # t
    <3>1. p = q
      BY <2>2, <2>3, <2>4, <2>6, LandedStreams
    <3>2. \A b : EventsForBranch(q, b) \intersect (1 .. Len(q)) = EventsForBranch(q, b)
      <4>1. \A b : EventsForBranch(q, b) \subseteq DOMAIN q
        BY DEF EventsForBranch
      <4>2. DOMAIN q = 1 .. Len(q)
        BY <2>5
      <4> QED BY <4>1, <4>2
    <3> QED BY <3>1, <3>2, <2>3, <2>4
  <2>7. CASE s = t
    <3>1. /\ p = q \o <<x>> /\ x \in RecordType
          /\ x.kind = "created" <=> q = << >>
          /\ x.kind = "forked" => /\ x.branch = Alt /\ x.from = Main /\ x.fork = Len(q)
                                  /\ Alt \notin BranchesOf(q)
      <4>1. p = q \o <<x>>
        BY <2>2, <2>3, <2>4, <2>7, LandedStreams
      <4> QED BY <4>1, <2>2, <2>3, <2>7 DEF Lands
    <3>2. /\ DOMAIN q = 1 .. Len(q) /\ DOMAIN p = 1 .. Len(q) + 1 /\ Len(q) \in Nat
          /\ \A i \in DOMAIN q : p[i] = q[i]
          /\ p[Len(q) + 1] = x
      BY <3>1, <2>5, Extended
    <3>3. DOMAIN p = DOMAIN q \union {Len(q) + 1}
      BY <3>2
    <3>4. ASSUME NEW b \in BranchesOf(q)
          PROVE  EventsForBranch(p, b) \intersect (1 .. Len(q)) = EventsForBranch(q, b)
      <4>1. x.kind = "forked" => x.branch # b
        BY <3>1
      <4>2. p = q \o <<x>> /\ x \in RecordType /\ q \in Seq(RecordType)
        BY <3>1, <2>5
      <4>3. \A i \in DOMAIN q : i \in EventsForBranch(p, b) <=> i \in EventsForBranch(q, b)
        BY <4>1, <4>2, HistoryGrows
      <4>4. EventsForBranch(q, b) \subseteq DOMAIN q
        BY DEF EventsForBranch
      <4> QED BY <4>3, <4>4, <3>2
    <3>5. ASSUME NEW b \in BranchesOf(p) \ BranchesOf(q), Parent(p, b) # NoBranch
          PROVE  EventsForBranch(p, b) = EventsForBranch(q, Parent(p, b)) \union {Len(p)}
      <4>1. x.branch = b /\ x.kind \in {"created", "forked"}
        BY <3>2, <3>3 DEF BranchesOf
      <4>2. x.kind # "created"
        <5>1. SUFFICES ASSUME x.kind = "created" PROVE FALSE
          OBVIOUS
        <5>2. DOMAIN q = {}
          BY <5>1, <3>1, <2>5
        <5>3. ForksOf(p, b) = {}
          BY <5>1, <5>2, <3>2, <3>3 DEF ForksOf
        <5> QED BY <5>3, <3>5, WindowsOf
      <4>3. x.kind = "forked" /\ b = Alt /\ q # << >>
        BY <4>1, <4>2, <3>1
      <4>4. ForksOf(q, Main) = {}
        <5>1. \A i \in DOMAIN q : q[i].kind = "forked" => q[i].branch = Alt
          BY <2>3 DEF Inv, RowsOK
        <5> QED BY <5>1, Names DEF ForksOf
      <4>5. /\ Parent(p, Alt) = Main
            /\ EventsForBranch(p, Alt) = EventsForBranch(q, Main) \union {Len(p)}
        BY <4>3, <4>4, <3>1, <2>5, BranchStarts
      <4> QED BY <4>3, <4>5
    <3>6. ASSUME NEW b \in BranchesOf(p) \ BranchesOf(q), Parent(p, b) # ""
          PROVE  EventsForBranch(p, b) = EventsForBranch(q, Parent(p, b)) \union {Len(p)}
      <4>1. Parent(p, b) # NoBranch
        BY <3>6 DEF NoBranch
      <4> QED BY <4>1, <3>5
    <3> QED BY <3>4, <3>6, <2>3, <2>4
  <2> QED BY <2>6, <2>7
<1>2. Spec => [][\A t \in Threads : Grows(t)]_rows
  BY <1>1, Invariance, PTL DEF Spec
<1> QED BY <1>2 DEF HistoryIsStable

-----------------------------------------------------------------------------
(* The rows are an event log.                                              *)

Log(recs) == [i \in DOMAIN recs |-> [sequence |-> i, id |-> recs[i].id]]
Logs == [s \in Streams |-> Log(rows[s])]

LEMMA LogExtended ==
    ASSUME NEW q \in Seq(RecordType), NEW x \in RecordType
    PROVE  /\ Len(Log(q)) = Len(q)
           /\ Log(q \o <<x>>) = Log(q) \o EL!Numbered(Len(q), <<x.id>>)
<1>1. PICK p : p = q \o <<x>>
  OBVIOUS
<1>2. /\ p \in Seq(RecordType) /\ Len(q) \in Nat /\ Len(p) = Len(q) + 1
      /\ DOMAIN q = 1 .. Len(q) /\ DOMAIN p = 1 .. Len(q) + 1
      /\ \A i \in DOMAIN q : p[i] = q[i]
      /\ p[Len(q) + 1] = x
  BY <1>1, Extended
<1>3. PICK E : E = [sequence : Nat, id : (1 .. MaxCalls) \X Roles]
  OBVIOUS
<1>4. Log(q) = [i \in 1 .. Len(q) |-> [sequence |-> i, id |-> q[i].id]]
  BY <1>2 DEF Log
<1>5. Log(p) = [i \in 1 .. Len(q) + 1 |-> [sequence |-> i, id |-> p[i].id]]
  BY <1>2 DEF Log
<1>6. ASSUME NEW i \in 1 .. Len(q) PROVE [sequence |-> i, id |-> q[i].id] \in E
  <2>1. q[i] \in RecordType
    BY <1>2
  <2>2. q[i].id \in (1 .. MaxCalls) \X Roles
    BY <2>1 DEF RecordType
  <2> QED BY <2>2, <1>3
<1>7. Log(q) \in Seq(E) /\ Len(Log(q)) = Len(q)
  BY <1>2, <1>4, <1>6
<1>8. PICK u : u = EL!Numbered(Len(q), <<x.id>>)
  OBVIOUS
<1>9. u = [i \in 1 .. 1 |-> [sequence |-> Len(q) + i, id |-> <<x.id>>[i]]]
  BY <1>8 DEF EL!Numbered
<1>10. u = <<[sequence |-> Len(q) + 1, id |-> x.id]>>
  BY <1>9
<1>11. [sequence |-> Len(q) + 1, id |-> x.id] \in E
  BY <1>2, <1>3 DEF RecordType
<1>12. PICK e : e = [sequence |-> Len(q) + 1, id |-> x.id]
  OBVIOUS
<1>13. PICK l : l = Log(q)
  OBVIOUS
<1>14. l \o <<e>> = Log(p)
  <2>1. l \in Seq(E) /\ Len(l) = Len(q) /\ e \in E
    BY <1>7, <1>11, <1>12, <1>13
  <2>2. /\ l \o <<e>> \in Seq(E) /\ Len(l \o <<e>>) = Len(q) + 1
        /\ \A i \in 1 .. Len(q) : (l \o <<e>>)[i] = l[i]
        /\ (l \o <<e>>)[Len(q) + 1] = e
    BY <2>1
  <2>3. l \o <<e>> = [i \in 1 .. Len(q) + 1 |-> (l \o <<e>>)[i]]
    BY <2>2
  <2>4. ASSUME NEW i \in 1 .. Len(q) + 1
        PROVE  (l \o <<e>>)[i] = [sequence |-> i, id |-> p[i].id]
    <3>1. CASE i \in 1 .. Len(q)
      <4>1. l[i] = [sequence |-> i, id |-> q[i].id]
        BY <3>1, <1>4, <1>13
      <4>2. (l \o <<e>>)[i] = l[i] /\ p[i] = q[i]
        BY <3>1, <2>2, <1>2
      <4> QED BY <4>1, <4>2
    <3>2. CASE i = Len(q) + 1
      BY <3>2, <2>2, <1>2, <1>12
    <3>3. i \in 1 .. Len(q) \/ i = Len(q) + 1
      BY <1>2
    <3> QED BY <3>1, <3>2, <3>3
  <2> QED BY <2>3, <2>4, <1>5
<1> QED BY <1>1, <1>7, <1>8, <1>10, <1>12, <1>13, <1>14

LEMMA LogIds ==
    ASSUME Inv
    PROVE  EL!UsedIds(Logs) = IdsIn(rows)
<1>1. ASSUME NEW s \in Streams PROVE EL!IdsOf(Logs[s]) = {rows[s][i].id : i \in DOMAIN rows[s]}
  <2>1. Logs[s] = [i \in DOMAIN rows[s] |-> [sequence |-> i, id |-> rows[s][i].id]]
    BY DEF Logs, Log
  <2>2. DOMAIN Logs[s] = DOMAIN rows[s]
    BY <2>1
  <2>3. \A i \in DOMAIN rows[s] : Logs[s][i].id = rows[s][i].id
    BY <2>1
  <2> QED BY <2>2, <2>3 DEF EL!IdsOf
<1>2. ASSUME NEW z PROVE z \in EL!UsedIds(Logs) <=> z \in IdsIn(rows)
  <2>1. z \in EL!UsedIds(Logs) <=> \E s \in Streams : z \in EL!IdsOf(Logs[s])
    BY DEF EL!UsedIds
  <2>2. z \in IdsIn(rows) <=> \E s \in Streams : z \in {rows[s][i].id : i \in DOMAIN rows[s]}
    BY DEF IdsIn
  <2> QED BY <2>1, <2>2, <1>1
<1> QED BY <1>2

(* The records of a stream come from different calls, and the call that    *)
(* commits is none of them.                                                *)
LEMMA RoomLeft ==
    ASSUME Inv, NEW k \in 1 .. MaxCalls, k \notin Committed, NEW s \in Streams
    PROVE  Len(rows[s]) \in 0 .. MaxCalls - 1
<1>1. Types /\ RowsOK
  BY DEF Inv
<1>2. /\ rows[s] \in Seq(RecordType) /\ Len(rows[s]) \in Nat
      /\ DOMAIN rows[s] = 1 .. Len(rows[s])
  BY <1>1, StreamType
<1>3. PICK D : D = 1 .. Len(rows[s])
  OBVIOUS
<1>4. PICK f : f = [i \in D |-> rows[s][i].id[1]]
  OBVIOUS
<1>5. f \in [D -> Committed]
  BY <1>1, <1>2, <1>3, <1>4 DEF RowsOK
<1>6. ASSUME NEW i \in D, NEW j \in D, f[i] = f[j] PROVE i = j
  <2>1. i \in DOMAIN rows[s] /\ j \in DOMAIN rows[s]
    BY <1>2, <1>3
  <2>2. rows[s][i].id[1] = rows[s][j].id[1]
    BY <1>4, <1>6
  <2>3. rows[s][i].id[2] = rows[s][j].id[2]
    BY <2>1, <1>1 DEF RowsOK
  <2>4. rows[s][i] \in RecordType /\ rows[s][j] \in RecordType
    BY <2>1, <1>1, StoredRecord
  <2>5. /\ rows[s][i].id = <<rows[s][i].id[1], rows[s][i].id[2]>>
        /\ rows[s][j].id = <<rows[s][j].id[1], rows[s][j].id[2]>>
    BY <2>4, RecordIds
  <2>6. rows[s][i].id = rows[s][j].id
    BY <2>2, <2>3, <2>5
  <2> QED BY <2>1, <2>6, <1>1 DEF RowsOK
<1>7. f \in Injection(D, Committed)
  BY <1>5, <1>6 DEF Injection, IsInjective
<1>8. IsFiniteSet(Committed) /\ Cardinality(Committed) \in Nat /\ Committed \subseteq 1 .. MaxCalls
  BY CommittedFinite
<1>9. Cardinality(D) <= Cardinality(Committed)
  BY <1>7, <1>8, FS_Injection
<1>10. Cardinality(D) = Len(rows[s])
  BY <1>2, <1>3, FS_Interval
<1>11. PICK C : C = Committed \union {k}
  OBVIOUS
<1>12. Cardinality(C) = Cardinality(Committed) + 1
  BY <1>8, <1>11, FS_AddElement
<1>13. Cardinality(C) <= MaxCalls
  <2>1. C \in SUBSET (1 .. MaxCalls)
    BY <1>8, <1>11
  <2>2. IsFiniteSet(1 .. MaxCalls) /\ Cardinality(1 .. MaxCalls) = MaxCalls
    BY FS_Interval, Bounds
  <2>3. Cardinality(C) <= Cardinality(1 .. MaxCalls)
    BY <2>1, <2>2, FS_Subset
  <2> QED BY <2>2, <2>3
<1> QED BY <1>2, <1>8, <1>9, <1>10, <1>12, <1>13, Bounds

(* COMMIT is one batch of the event log.                                   *)
LEMMA CommitAppends ==
    ASSUME Inv, NEW c \in Callers, pc[c] \in Waiting, NEW t, NEW x, NEW y, Lands(c, t, x, y)
    PROVE  \E b \in Batches : /\ EL!ExpectedHolds(Logs, b) /\ EL!DistinctIds(b)
                              /\ EL!FreshIds(Logs, b) /\ Logs' = EL!Extend(Logs, b)
<1>1. /\ t \in Threads /\ t \in Streams /\ Index \in Streams /\ t # Index
      /\ x \in RecordType /\ y \in RecordType /\ op[c].n \notin Committed
      /\ x.id = <<op[c].n, "thread">> /\ y.id = <<op[c].n, "index">>
  <2>1. t \in Streams /\ Index \in Streams /\ t # Index
    BY LandedStreams
  <2> QED BY <2>1 DEF Lands
<1>2. op[c].n \in 1 .. MaxCalls
  BY WaitingOp
<1>3. PICK k, n, m : k = op[c].n /\ n = Len(rows[t]) /\ m = Len(rows[Index])
  OBVIOUS
<1>4. n \in 0 .. MaxCalls - 1 /\ m \in 0 .. MaxCalls - 1 /\ k \in 1 .. MaxCalls
  BY <1>1, <1>2, <1>3, RoomLeft
<1>5. ThreadBatch(t, k, n) \in Batches /\ IndexedBatch(t, k, n, m) \in Batches
  BY <1>1, <1>4, BatchAssumption
<1>6. <<k, "thread">> \notin IdsIn(rows) /\ <<k, "index">> \notin IdsIn(rows)
  BY <1>1, <1>3, <1>4, IdsInRows DEF Inv
<1>7. <<k, "thread">> \notin EL!UsedIds(Logs) /\ <<k, "index">> \notin EL!UsedIds(Logs)
  BY <1>6, LogIds
<1>8. ASSUME NEW s \in Streams
      PROVE  rows[s] \in Seq(RecordType) /\ Logs[s] = Log(rows[s]) /\ Logs'[s] = Log(rows'[s])
             /\ Len(Logs[s]) = Len(rows[s])
  <2>1. rows[s] \in Seq(RecordType)
    BY StreamType DEF Inv
  <2>2. Logs[s] = Log(rows[s]) /\ Logs'[s] = Log(rows'[s])
    BY DEF Logs, Log
  <2>3. Len(Log(rows[s])) = Len(rows[s])
    BY <2>1, <1>1, LogExtended
  <2> QED BY <2>1, <2>2, <2>3
<1>9. PICK u, v : u = <<k, "thread">> /\ v = <<k, "index">> /\ u # v
  <2>1. <<k, "thread">> # <<k, "index">>
    OBVIOUS
  <2> QED BY <2>1
<1>10. ASSUME NEW q, NEW r, q = IdRequest(r, n) \/ q = IdRequest(r, m)
       PROVE  q.check /\ q.ids = <<r>> /\ DOMAIN q.ids = {1} /\ q.ids[1] = r
  <2>1. q.check /\ q.ids = <<r>>
    BY <1>10 DEF IdRequest
  <2> QED BY <2>1
<1>11. CASE ~Two(c)
  <2>1. PICK b : b = ThreadBatch(t, k, n)
    OBVIOUS
  <2>2. DOMAIN b = {t} /\ b[t] = IdRequest(u, n)
    BY <2>1, <1>9 DEF ThreadBatch
  <2>3. b[t].check /\ b[t].ids = <<u>> /\ DOMAIN b[t].ids = {1} /\ b[t].ids[1] = u
    BY <2>2, <1>10
  <2>4. b[t].expected = n
    BY <2>2 DEF IdRequest
  <2>5. EL!ExpectedHolds(Logs, b)
    BY <2>2, <2>4, <1>1, <1>3, <1>8 DEF EL!ExpectedHolds
  <2>6. EL!DistinctIds(b)
    BY <2>2, <2>3 DEF EL!DistinctIds
  <2>7. EL!FreshIds(Logs, b)
    BY <2>2, <2>3, <1>7, <1>9 DEF EL!FreshIds
  <2>8. ASSUME NEW s \in Streams
        PROVE  Logs'[s] = IF s \in DOMAIN b
                          THEN Logs[s] \o EL!Numbered(Len(Logs[s]), b[s].ids) ELSE Logs[s]
    <3>1. CASE s = t
      <4>1. rows'[t] = rows[t] \o <<x>>
        BY LandedStreams
      <4>2. Log(rows'[t]) = Log(rows[t]) \o EL!Numbered(Len(rows[t]), <<x.id>>)
        BY <4>1, <1>1, <1>8, LogExtended
      <4>3. x.id = u
        BY <1>1, <1>3, <1>9
      <4> QED BY <4>2, <4>3, <3>1, <2>2, <2>3, <1>8
    <3>2. CASE s # t
      <4>1. rows'[s] = rows[s]
        BY <3>2, <1>11, LandedStreams, Names
      <4> QED BY <4>1, <3>2, <2>2, <1>8
    <3> QED BY <3>1, <3>2
  <2>9. Logs' = EL!Extend(Logs, b)
    BY <2>8 DEF EL!Extend, Logs
  <2> QED BY <2>1, <2>5, <2>6, <2>7, <2>9, <1>5
<1>12. CASE Two(c)
  <2>1. PICK b : b = IndexedBatch(t, k, n, m)
    OBVIOUS
  <2>2. DOMAIN b = {t, Index} /\ b[t] = IdRequest(u, n) /\ b[Index] = IdRequest(v, m)
    BY <2>1, <1>1, <1>9 DEF IndexedBatch
  <2>3. /\ b[t].check /\ b[t].ids = <<u>> /\ DOMAIN b[t].ids = {1} /\ b[t].ids[1] = u
        /\ b[Index].check /\ b[Index].ids = <<v>> /\ DOMAIN b[Index].ids = {1}
        /\ b[Index].ids[1] = v
    BY <2>2, <1>10
  <2>4. b[t].expected = n /\ b[Index].expected = m
    BY <2>2 DEF IdRequest
  <2>5. EL!ExpectedHolds(Logs, b)
    BY <2>2, <2>4, <1>1, <1>3, <1>8 DEF EL!ExpectedHolds
  <2>6. EL!DistinctIds(b)
    BY <2>2, <2>3, <1>9 DEF EL!DistinctIds
  <2>7. EL!FreshIds(Logs, b)
    BY <2>2, <2>3, <1>7, <1>9 DEF EL!FreshIds
  <2>8. ASSUME NEW s \in Streams
        PROVE  Logs'[s] = IF s \in DOMAIN b
                          THEN Logs[s] \o EL!Numbered(Len(Logs[s]), b[s].ids) ELSE Logs[s]
    <3>1. CASE s = t
      <4>1. rows'[t] = rows[t] \o <<x>>
        BY LandedStreams
      <4>2. Log(rows'[t]) = Log(rows[t]) \o EL!Numbered(Len(rows[t]), <<x.id>>)
        BY <4>1, <1>1, <1>8, LogExtended
      <4>3. x.id = u
        BY <1>1, <1>3, <1>9
      <4> QED BY <4>2, <4>3, <3>1, <2>2, <2>3, <1>8
    <3>2. CASE s = Index
      <4>1. rows'[Index] = rows[Index] \o <<y>>
        BY <1>12, LandedStreams
      <4>2. Log(rows'[Index]) = Log(rows[Index]) \o EL!Numbered(Len(rows[Index]), <<y.id>>)
        BY <4>1, <1>1, <1>8, LogExtended
      <4>3. y.id = v
        BY <1>1, <1>3, <1>9
      <4> QED BY <4>2, <4>3, <3>2, <2>2, <2>3, <1>8
    <3>3. CASE s # t /\ s # Index
      <4>1. rows'[s] = rows[s]
        BY <3>3, LandedStreams, Names
      <4> QED BY <4>1, <3>3, <2>2, <1>8
    <3> QED BY <3>1, <3>2, <3>3
  <2>9. Logs' = EL!Extend(Logs, b)
    BY <2>8 DEF EL!Extend, Logs
  <2> QED BY <2>1, <2>5, <2>6, <2>7, <2>9, <1>5
<1> QED BY <1>11, <1>12

(* Whatever statements fail and whichever answers of COMMIT are lost, the  *)
(* rows of the SQLite store change only by whole batches, each at its      *)
(* expected sequences and with identifiers no record had before.           *)
THEOREM StoreImplementsEventLog == Spec => ImplementsEventLog
<1>1. Init => EL!Init
  <2> SUFFICES ASSUME Init PROVE EL!Init
    OBVIOUS
  <2>1. rows = [s \in Streams |-> << >>]
    BY DEF Init, SqlInit
  <2>2. ASSUME NEW s \in Streams
        PROVE  [i \in DOMAIN rows[s] |-> [sequence |-> i, id |-> rows[s][i].id]] = << >>
    BY <2>1
  <2> QED BY <2>2 DEF EL!Init, EL!EmptyStreams
<1>2. Inv /\ [Next]_vars => [EL!Next]_Logs
  <2> SUFFICES ASSUME Inv, [Next]_vars PROVE EL!Next \/ Logs' = Logs
    OBVIOUS
  <2>1. CASE rows' = rows
    BY <2>1 DEF Logs, Log
  <2>2. CASE rows' # rows
    <3>1. PICK c \in Callers : pc[c] \in Waiting /\ \E t, x, y : Lands(c, t, x, y)
      BY <2>2, StepRows
    <3>2. PICK b \in Batches : /\ EL!ExpectedHolds(Logs, b) /\ EL!DistinctIds(b)
                               /\ EL!FreshIds(Logs, b) /\ Logs' = EL!Extend(Logs, b)
      BY <3>1, CommitAppends
    <3>3. EL!AppendBatch(b)
      BY <3>2 DEF EL!AppendBatch, Logs, Log
    <3> QED BY <3>3 DEF EL!Next
  <2> QED BY <2>1, <2>2
<1>3. Inv /\ [Next]_vars => [EL!Next]_[s \in Streams |-> [i \in DOMAIN rows[s] |->
                                           [sequence |-> i, id |-> rows[s][i].id]]]
  BY <1>2 DEF Logs, Log
<1> QED BY <1>1, <1>3, Invariance, PTL DEF Spec, ImplementsEventLog, EL!Spec
=============================================================================
