------------------------- MODULE MCDatasourceIndex -------------------------
(* An instance of the datasource index: an entity with fields and          *)
(* embeddings and one with fields only.                                    *)
EXTENDS DatasourceIndex, TLC

CONSTANTS d1, d2, d3

MCEntityOf == [d \in Docs |-> IF d = d3 THEN "group" ELSE "issue"]
MCRequest(full, force, p, e) == [full |-> full, force |-> force, phase |-> p, entity |-> e]
MCRequests == {MCRequest(TRUE, p # "all", p, "any") : p \in Phases}

(* Bound: a build of one phase meets an edit or a fault, not both.         *)
MCBound == edits + faults > 1 =>
    \A e \in Entities, p \in Phases \ {"all"} : dataRun[e][p] = "none" /\ indexRun[e][p] = "none"

MCSymmetry == Permutations({d1, d2})
=============================================================================
