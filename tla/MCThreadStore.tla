---------------------------- MODULE MCThreadStore ----------------------------
(***************************************************************************)
(* ThreadStore on two threads and the index.                               *)
(***************************************************************************)
EXTENDS ThreadStore

MCStreams == Threads \union {Index}

(* Identifiers callers can build: one per call and role.                   *)
MCIds == (1 .. MaxCalls) \X {"thread", "index"}

MCBatches ==
    LET seen == 0 .. MaxCalls - 1
    IN {ThreadBatch(t, k, n) : t \in Threads, k \in 1 .. MaxCalls, n \in seen}
       \union {IndexedBatch(t, k, n, m) :
                   t \in Threads, k \in 1 .. MaxCalls, n \in seen, m \in seen}

MCSymmetry == Permutations(Callers) \union Permutations(Threads)
=============================================================================
