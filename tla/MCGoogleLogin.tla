----------------------------- MODULE MCGoogleLogin -----------------------------
(* A small instance of GoogleLogin: two people and two addresses, where      *)
(* Google reports either address for one of them.                            *)
EXTENDS GoogleLogin, TLC

CONSTANTS ann, ben, annMail, benMail

TwoAddresses == (ann :> {annMail}) @@ (ben :> {annMail, benMail})
OwnNames     == (annMail :> "ann") @@ (benMail :> "ben")

Symmetric == Permutations(Handlers) \cup Permutations(States)
=============================================================================
