-------------------------------- MODULE MCEdits --------------------------------
(* A small instance of Edits in two slices, which have no more to do with   *)
(* each other than that owners, who never change, may edit: pages over any  *)
(* history of admissions while no row is edited, and edits of the rows      *)
(* while nobody waits for an answer or looks at a page.                     *)
EXTENDS Edits, TLC

NoEditYet ==
  edits = 0

NobodyWaits ==
  /\ page = Nothing
  /\ \A p \in Projects, u \in Users : request[p][u] \in {"None", "Accepted"}

MCNext ==
  \/ NoEditYet /\ PagesNext /\ UNCHANGED editVars
  \/ NobodyWaits /\ \E h \in Editors : EditStep(h)

MCSpec == EditsInit /\ [][MCNext]_allVars

Symmetric ==
  Permutations(Users) \cup Permutations(Editors) \cup Permutations(Values)
    \cup Permutations(Types)
=============================================================================
