-------------------------- MODULE MCNatsEventStore --------------------------
(* Instances of NatsEventStore for TLC.                                    *)
EXTENDS NatsEventStore, TLC

CONSTANTS s1, s2, r1, r2, r3

Checked(n, ids) == [check |-> TRUE, expected |-> n, ids |-> ids]
Unchecked(ids) == [check |-> FALSE, expected |-> 0, ids |-> ids]

(* A claim of an empty stream, a competing one, a batch over two streams   *)
(* that stores a record of the second claim again, and a batch that        *)
(* repeats an identifier.                                                  *)
SomeBatches ==
    { [s \in {s1} |-> Checked(0, <<r1>>)],
      [s \in {s1} |-> Checked(0, <<r2>>)],
      [s \in {s1, s2} |-> IF s = s1 THEN Checked(1, <<r3>>) ELSE Unchecked(<<r2>>)],
      [s \in {s1, s2} |-> Unchecked(<<r3>>)] }

StoreSymmetry == Permutations(Stores)
=============================================================================
