-------------------------- MODULE MCTaskCommission --------------------------
(* Instances of TaskCommission for TLC. *)
EXTENDS TaskCommission, TLC

CONSTANTS t1, t2, b1

(* A booking with one task. *)
OneTask == t1 :> b1
PaidTasks == [t \in Tasks |-> 1]

Symmetry == Permutations(Users) \cup Permutations(Sessions)
=============================================================================
