-------------------------- MODULE MCTaskScheduler ---------------------------
(* Instances of TaskScheduler for TLC.                                     *)
EXTENDS TaskScheduler, TLC

(* Each step depends on the one before it.                                 *)
Chain == [i \in Steps |-> {j \in Steps : j = i - 1}]
WholeOrAll == {{}, Steps}
TwoSteps == {{1, 2}}
WholeOrSteps == {{}, {1}}
None == {{}}
All == {Outputs}
OneRole == [t \in Tasks |-> "developer"]
Unlimited == [r \in {"developer"} |-> 0]
OneAtATime == [r \in {"developer"} |-> 1]

(* The processes are interchangeable.                                      *)
Symmetry == Permutations(Workers)
=============================================================================
