--------------------------- MODULE MCSessionLoop ---------------------------
(* Instances of SessionLoop for TLC. *)
EXTENDS SessionLoop

message == [kind |-> "message", outputs |-> <<<<>>>>, requests |-> <<>>]
wait    == [kind |-> "wait",    outputs |-> <<>>,     requests |-> <<>>]

\* Two calls in outputs of their own, answered in the other order.
operations == [kind |-> "operations", outputs |-> <<<<"c1">>, <<"c2">>>>,
               requests |-> <<"c2", "c1">>]

\* Malformed: a call nobody requests, one requested twice, one followed by a
\* message, and one without an identifier.
malformed ==
    {[kind |-> "message",    outputs |-> <<<<"c1">>>>,       requests |-> <<>>],
     [kind |-> "operations", outputs |-> <<<<"c1">>>>,       requests |-> <<"c1", "c1">>],
     [kind |-> "operations", outputs |-> <<<<"c1">>, <<>>>>, requests |-> <<"c1">>],
     [kind |-> "message",    outputs |-> <<<<"none">>>>,     requests |-> <<>>]}

\* One run meets every answer, the run beside it a message.
MCReplies ==
    [r \in Runs |-> IF r = "r1" THEN {message, wait, operations} \cup malformed
                    ELSE {message}]

\* A context that compaction leaves alone, one that is merged into a message and
\* one that is large.
MCPlaced == <<"developer", "user", "developer">>
MCDiffSize == <<1, 1, 2>>

\* The fact is found in the message, when the turn begins.
MCObserved == [phase \in {"open", "turn", "followup"} |-> IF phase = "turn" THEN Facts ELSE {}]
=============================================================================
