---------------------------- MODULE MCRefreshTokens ----------------------------
(* Small instances of RefreshTokens: tokens and handlers are               *)
(* interchangeable.                                                        *)
EXTENDS RefreshTokens, TLC

Symmetric == Permutations(Tokens) \cup Permutations(Handlers)
=============================================================================
