------------------------------ MODULE MCTaskBoard ------------------------------
(* A small instance of TaskBoard: one task, the owner and one other user.  *)
EXTENDS TaskBoard, TLC

TwoFields == {{"title", "status"}}
Symmetric == Permutations(Handlers) \cup Permutations(Values)
=============================================================================
