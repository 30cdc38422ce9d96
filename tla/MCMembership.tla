----------------------------- MODULE MCMembership -----------------------------
(* Small instances of Membership.  Handlers, users and projects are         *)
(* interchangeable, so safety runs use their permutations as a symmetry.    *)
EXTENDS Membership, TLC

Symmetric ==
  Permutations(Handlers) \cup Permutations(Users) \cup Permutations(Projects)
=============================================================================
