------------------------------- MODULE MCTask -------------------------------
(* A thread owns t1, whose body owns t2 and t3. *)
EXTENDS Task

CONSTANTS t1, t2, t3

MCTasks == {t1, t2, t3}
MCParent == [t \in MCTasks |-> IF t = t1 THEN Main ELSE t1]

(* Once the owner has detached or begun to join a task its frame is        *)
(* eventually destroyed: the task of the thread, and one of the two that   *)
(* t1 owns, between which the specification makes no difference.           *)
Reclaimed == \A t \in {t1, t2} : ReclaimedTask(t)
=============================================================================
