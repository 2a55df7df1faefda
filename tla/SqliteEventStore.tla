-------------------------- MODULE SqliteEventStore --------------------------
(***************************************************************************)
(* adapters/storage/event/sqlite: an event store in one SQLite table.      *)
(* AppendBatch runs a write transaction that BEGIN IMMEDIATE opens, checks *)
(* and inserts the requests of the batch one after the other, and commits. *)
(* Callers are goroutines of any number of processes that opened the same  *)
(* file.  Readers see committed rows only.                                 *)
(*                                                                         *)
(* A statement may fail, a context may be cancelled and a process may stop *)
(* at any point: the open transaction is then rolled back.  The error of a *)
(* COMMIT may also reach the caller although the rows were committed.      *)
(***************************************************************************)
EXTENDS Naturals, Sequences, TLC

CONSTANTS
    Callers,        \* goroutines that append and load
    Streams,        \* stream identifiers
    Ids,            \* record identifiers
    Batches,        \* the batches of the abstract store, see EventLog
    SqliteAttempts, \* sqliteWriteAttempts
    MaxFaults       \* bound: failing statements and commits

NoWriter == "none"

ASSUME SqliteAssumption ==
    /\ SqliteAttempts \in Nat \ {0} /\ MaxFaults \in Nat
    /\ NoWriter \notin Callers

VARIABLES
    rows,       \* rows[s]: the committed records of stream s, by stream_seq
    writer,     \* the caller whose write transaction is open, if any
    staged,     \* what that transaction sees: rows with its own inserts
    batch,      \* batch[c]: the requests of c that are left to insert
    at,         \* at[c]: where the AppendBatch call of c stands
    tries,      \* tries[c]: attempts of that call so far
    answer,     \* answer[c]: what it returned
    faults      \* number of faults so far

sqlVars == <<rows, writer, staged, batch, at, tries, answer, faults>>

NoAnswer == [kind |-> "none", stream |-> ""]
Answer(k, s) == [kind |-> k, stream |-> s]

(* The abstract store sees identifiers and sequence numbers.               *)
EL == INSTANCE EventLog WITH
          streams <- [s \in Streams |-> [i \in DOMAIN rows[s] |->
                                            [sequence |-> i, id |-> rows[s][i].id]]]

IdsIn(st) == UNION {{st[s][i].id : i \in DOMAIN st[s]} : s \in Streams}

SqlInit ==
    /\ rows = [s \in Streams |-> << >>]
    /\ writer = NoWriter
    /\ staged = [s \in Streams |-> << >>]
    /\ batch = [c \in Callers |-> << >>]
    /\ at = [c \in Callers |-> "idle"]
    /\ tries = [c \in Callers |-> 0]
    /\ answer = [c \in Callers |-> NoAnswer]
    /\ faults = 0

(* One request of a batch: a stream, its expected sequence, its records.   *)
Request(s, n, recs) == [stream |-> s, expected |-> n, records |-> recs]

(* A caller enters AppendBatch with the requests b.                        *)
Submit(c, b) ==
    /\ batch' = [batch EXCEPT ![c] = b]
    /\ at' = [at EXCEPT ![c] = "begin"]
    /\ tries' = [tries EXCEPT ![c] = 1]
    /\ answer' = [answer EXCEPT ![c] = NoAnswer]
    /\ UNCHANGED <<rows, writer, staged, faults>>

Answered(c, a) ==
    /\ at' = [at EXCEPT ![c] = "answered"]
    /\ answer' = [answer EXCEPT ![c] = a]

(* The deferred ROLLBACK: the transaction of c leaves no row.              *)
Rollback(c) ==
    /\ writer' = IF writer = c THEN NoWriter ELSE writer
    /\ staged' = IF writer = c THEN rows ELSE staged
    /\ UNCHANGED rows

BeginImmediate(c) ==
    /\ at[c] = "begin" /\ writer = NoWriter
    /\ writer' = c
    /\ staged' = rows
    /\ at' = [at EXCEPT ![c] = "insert"]
    /\ UNCHANGED <<rows, batch, tries, answer, faults>>

(* busy_timeout passed while another writer held the lock: the attempt is  *)
(* repeated, up to sqliteWriteAttempts times.                              *)
BeginBusy(c) ==
    /\ at[c] = "begin" /\ writer \notin {NoWriter, c}
    /\ IF tries[c] < SqliteAttempts
       THEN tries' = [tries EXCEPT ![c] = @ + 1] /\ UNCHANGED <<at, answer>>
       ELSE Answered(c, Answer("error", "")) /\ UNCHANGED tries
    /\ UNCHANGED <<rows, writer, staged, batch, faults>>

(* Mutant: record_id is not UNIQUE.                                        *)
appendRequest_NoUnique(st, r) ==
    IF r.expected # Len(st[r.stream]) THEN Answer("conflict", r.stream) ELSE NoAnswer

(* What appendRequest answers for request r when the transaction sees st:  *)
(* the expected sequence first, then the UNIQUE constraint on identifiers. *)
appendRequest(st, r) ==
    IF r.expected # Len(st[r.stream])
    THEN Answer("conflict", r.stream)
    ELSE IF \E i \in DOMAIN r.records : r.records[i].id \in IdsIn(st)
    THEN Answer("duplicate", r.stream)
    ELSE NoAnswer

(* Mutant: every request is committed as soon as it is inserted.           *)
InsertRequest_AutoCommit(c) ==
    /\ at[c] = "insert" /\ batch[c] # << >>
    /\ LET r == Head(batch[c])
           a == appendRequest(staged, r)
       IN IF a = NoAnswer
          THEN /\ rows' = [rows EXCEPT ![r.stream] = @ \o r.records]
               /\ staged' = rows'
               /\ batch' = [batch EXCEPT ![c] = Tail(@)]
               /\ UNCHANGED <<writer, at, answer>>
          ELSE Answered(c, a) /\ Rollback(c) /\ UNCHANGED batch
    /\ UNCHANGED <<tries, faults>>

(* One round of the loop of appendBatchOnce.                               *)
InsertRequest(c) ==
    /\ at[c] = "insert" /\ batch[c] # << >>
    /\ LET r == Head(batch[c])
           a == appendRequest(staged, r)
       IN IF a = NoAnswer
          THEN /\ staged' = [staged EXCEPT ![r.stream] = @ \o r.records]
               /\ batch' = [batch EXCEPT ![c] = Tail(@)]
               /\ UNCHANGED <<rows, writer, at, answer>>
          ELSE Answered(c, a) /\ Rollback(c) /\ UNCHANGED batch
    /\ UNCHANGED <<tries, faults>>

CommitAs(c, a) ==
    /\ at[c] = "insert" /\ batch[c] = << >>
    /\ rows' = staged
    /\ writer' = NoWriter
    /\ Answered(c, a)
    /\ UNCHANGED <<staged, batch, tries>>

Commit(c) == CommitAs(c, Answer("ok", "")) /\ UNCHANGED faults

(* COMMIT took effect and an error came back, for instance because the     *)
(* context ended meanwhile; the deferred ROLLBACK then finds nothing.      *)
CommitUnanswered(c) ==
    /\ faults < MaxFaults
    /\ CommitAs(c, Answer("error", ""))
    /\ faults' = faults + 1

(* Any statement of the transaction fails for another reason than a busy   *)
(* lock, or the process stops.                                             *)
StatementFails(c) ==
    /\ at[c] \in {"begin", "insert"} /\ faults < MaxFaults
    /\ faults' = faults + 1
    /\ Answered(c, Answer("error", ""))
    /\ Rollback(c)
    /\ UNCHANGED <<batch, tries>>

(* One step of the AppendBatch call of c.                                  *)
AppendBatchStep(c) ==
    \/ BeginImmediate(c)
    \/ BeginBusy(c)
    \/ InsertRequest(c)
    \/ Commit(c)
    \/ CommitUnanswered(c)
    \/ StatementFails(c)

(* Load reads the committed rows.                                          *)
Load(s) == rows[s]

(* The caller takes the answer.                                            *)
Take(c) == /\ at[c] = "answered"
           /\ at' = [at EXCEPT ![c] = "idle"]
           /\ batch' = [batch EXCEPT ![c] = << >>]
           /\ tries' = [tries EXCEPT ![c] = 0]
           /\ answer' = [answer EXCEPT ![c] = NoAnswer]
           /\ UNCHANGED <<rows, writer, staged, faults>>

(* Every change of the committed rows is one batch of the abstract store:  *)
(* whole, at the expected sequences, with identifiers never used before.   *)
ImplementsEventLog == EL!Spec
=============================================================================
