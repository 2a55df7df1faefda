--------------------------- MODULE MCSessionRuns ---------------------------
(***************************************************************************)
(* SessionRuns for TLC: one registered profile and its agent; a request    *)
(* that leaves the choice to a policy with a single profile and has a      *)
(* timeout, one that names an unknown profile, one that brings its agent   *)
(* and has no timeout, and one whose policy has no operation in common     *)
(* with the profile.                                                       *)
(***************************************************************************)
EXTENDS SessionRuns

MCRegistry == [helper |-> [name |-> "helper", agent |-> "coder", operations |-> {"read", "write"},
                          limited |-> TRUE]]

MCAgents == [coder |-> {"read", "write"}]

policy == [profiles |-> <<"helper">>, agents |-> <<"coder">>, operations |-> {"read", "grep"},
           maxParallel |-> 1]

MCInputs == {
    [session |-> NoName, profile |-> NoSpec, agent |-> NoName, enforce |-> TRUE,
     policy |-> policy, timed |-> TRUE],
    [session |-> "other", profile |-> NoSpec, agent |-> NoName, enforce |-> TRUE,
     policy |-> policy, timed |-> TRUE],
    [session |-> NoName, profile |-> NoSpec, agent |-> "coder", enforce |-> TRUE,
     policy |-> [policy EXCEPT !.maxParallel = 5], timed |-> FALSE],
    [session |-> "helper", profile |-> NoSpec, agent |-> NoName, enforce |-> TRUE,
     policy |-> [policy EXCEPT !.operations = {"grep"}], timed |-> TRUE]}

\* One child is silent and may never end, the others say two things
MCMaxEvents == [q \in Requests |-> IF q \in Endless THEN 0 ELSE 2]
=============================================================================
