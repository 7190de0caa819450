---------------------------- MODULE MCTaskWorker ----------------------------
(* Model values for TLC: tasks are numbered in created_at order; the older *)
(* one may be retried once (the default), the younger one never.           *)
EXTENDS TaskWorker, TLC

OneTask   == {1}
TwoTasks  == {1, 2}
RetryOnce == [t \in Tasks |-> IF t = 1 THEN 1 ELSE 0]

(* Attempts up to which the operator may ask for one more. *)
TwoEach    == [t \in Tasks |-> 2]
TwoThenOne == [t \in Tasks |-> IF t = 1 THEN 2 ELSE 1]

AgentOutcomes   == {"ok", "error"}
RuntimeOutcomes == {"ok", "error", "denied"}

ThreadSymmetry == Permutations(Loops) \cup Permutations(Manuals)
=============================================================================
