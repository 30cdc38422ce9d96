---------------------------- MODULE MCManualAccount ----------------------------
(* Small instances of ManualAccount: links, passwords and handlers are     *)
(* interchangeable.                                                        *)
EXTENDS ManualAccount, TLC

Symmetric ==
  Permutations(Links) \cup Permutations(Passwords) \cup Permutations(Handlers)
=============================================================================
