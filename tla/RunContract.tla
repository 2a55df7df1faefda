---------------------------- MODULE RunContract ----------------------------
(***************************************************************************)
(* What clientapi.RunHandle promises to whoever submitted a run: a result  *)
(* that is set once, a Done channel that is closed once and only when the  *)
(* result is there, and an Events channel that is closed once, when the    *)
(* run is over.  A client may wait for either channel first.               *)
(***************************************************************************)
CONSTANT Runs

VARIABLES
    result,         \* result[r]: "none" until it is set, then "ok" or "failed"
    doneClosed,     \* doneClosed[r]: Done() is closed
    eventsClosed    \* eventsClosed[r]: Events() is closed

contractVars == <<result, doneClosed, eventsClosed>>

Init ==
    /\ result = [r \in Runs |-> "none"]
    /\ doneClosed = [r \in Runs |-> FALSE]
    /\ eventsClosed = [r \in Runs |-> FALSE]

SetResult(r, k) ==
    /\ result[r] = "none"
    /\ result' = [result EXCEPT ![r] = k]
    /\ UNCHANGED <<doneClosed, eventsClosed>>

CloseDone(r) ==
    /\ result[r] # "none" /\ ~doneClosed[r]
    /\ doneClosed' = [doneClosed EXCEPT ![r] = TRUE]
    /\ UNCHANGED <<result, eventsClosed>>

CloseEvents(r) ==
    /\ result[r] # "none" /\ ~eventsClosed[r]
    /\ eventsClosed' = [eventsClosed EXCEPT ![r] = TRUE]
    /\ UNCHANGED <<result, doneClosed>>

Next == \E r \in Runs : \/ \E k \in {"ok", "failed"} : SetResult(r, k)
                        \/ CloseDone(r)
                        \/ CloseEvents(r)

Spec == Init /\ [][Next]_contractVars
=============================================================================
