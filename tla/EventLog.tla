------------------------------ MODULE EventLog ------------------------------
(***************************************************************************)
(* What every event.Store of the repository promises to the code above it: *)
(* a set of append-only streams of records, written by atomic batches that *)
(* carry optional expected sequences.  The concrete stores (in-memory,     *)
(* SQLite, NATS JetStream) are shown to implement this specification.      *)
(***************************************************************************)
EXTENDS Naturals, Sequences

CONSTANTS
    Streams,    \* stream identifiers
    Ids,        \* record identifiers
    Batches     \* the append batches callers submit

VARIABLE streams    \* streams[s]: the stored records of stream s, in order

(* A stored record.  Everything but its identifier and the sequence number *)
(* the store assigned is payload, which no store looks at.                 *)
Record == [sequence : Nat \ {0}, id : Ids]

(* One stream's part of an append batch: the optional expected sequence    *)
(* (check, expected) and the identifiers of the records.                   *)
Request == [check : BOOLEAN, expected : Nat, ids : Seq(Ids)]

(* A batch names every stream at most once, so it is a function from the   *)
(* streams it writes to their requests.                                    *)
IsBatch(b) == /\ DOMAIN b \subseteq Streams
              /\ \A s \in DOMAIN b : b[s] \in Request

EmptyStreams == [s \in Streams |-> << >>]

IdsOf(recs) == {recs[i].id : i \in DOMAIN recs}

UsedIds(st) == UNION {IdsOf(st[s]) : s \in Streams}

(* Every record of the batch has an identifier of its own.                 *)
DistinctIds(b) ==
    \A s1, s2 \in DOMAIN b : \A i \in DOMAIN b[s1].ids, j \in DOMAIN b[s2].ids :
        b[s1].ids[i] = b[s2].ids[j] => s1 = s2 /\ i = j

(* The expected sequences of b hold in the streams st.                     *)
ExpectedHolds(st, b) ==
    \A s \in DOMAIN b : b[s].check => b[s].expected = Len(st[s])

FreshIds(st, b) == \A s \in DOMAIN b : \A i \in DOMAIN b[s].ids :
                        b[s].ids[i] \notin UsedIds(st)

(* The records stored for one request, numbered after the n stored ones.   *)
Numbered(n, ids) == [i \in 1 .. Len(ids) |-> [sequence |-> n + i, id |-> ids[i]]]

Extend(st, b) == [s \in Streams |-> IF s \in DOMAIN b
                                    THEN st[s] \o Numbered(Len(st[s]), b[s].ids)
                                    ELSE st[s]]

Init == streams = EmptyStreams

AppendBatch(b) ==
    /\ ExpectedHolds(streams, b)
    /\ DistinctIds(b)
    /\ FreshIds(streams, b)
    /\ streams' = Extend(streams, b)

Next == \E b \in Batches : AppendBatch(b)

Spec == Init /\ [][Next]_streams
=============================================================================
