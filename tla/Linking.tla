-------------------------------- MODULE Linking --------------------------------
(***************************************************************************)
(* What signing in with Google promises, told without browsers, callbacks, *)
(* codes, Redis or overlapping requests: users and Google accounts are     *)
(* linked one to one, for good, by an address Google reported, and only    *)
(* who is linked can begin a session, for a user there is.  For which user *)
(* is not promised: the client says so.  Each of the four things that can  *)
(* happen is one step.                                                     *)
(***************************************************************************)
CONSTANTS
  Subjects,  (* people, as Google identifies them                            *)
  Emails,    (* one user per address                                         *)
  EmailsOf,  (* the addresses Google reports for a subject                   *)
  Names,     (* user names                                                   *)
  None

VARIABLES
  user,      (* how the user of an address came about, and their name        *)
  account,   (* the user each subject is linked to                           *)
  sessions   (* history: for which user who began a session                  *)

vars == <<user, account, sessions>>

Init ==
  /\ user = [e \in Emails |-> None]
  /\ account = [s \in Subjects |-> None]
  /\ sessions = {}

NameIsFree(n) == \A e \in Emails : user[e] # None => user[e].name # n

(* Neither has been linked.                                                *)
AreFree(s, e) == account[s] = None /\ \A t \in Subjects : account[t] # e

(* A user with a password, linked to nobody yet.                           *)
Register(e, n) ==
  /\ user[e] = None /\ NameIsFree(n)
  /\ user' = [user EXCEPT ![e] = [via |-> "password", name |-> n]]
  /\ UNCHANGED <<account, sessions>>

(* The first sign-in makes the user and links them at once.                *)
SignUp(s, e, n) ==
  /\ e \in EmailsOf[s]
  /\ user[e] = None /\ NameIsFree(n) /\ AreFree(s, e)
  /\ user' = [user EXCEPT ![e] = [via |-> "google", name |-> n]]
  /\ account' = [account EXCEPT ![s] = e]
  /\ UNCHANGED sessions

(* A user there already is linked.                                         *)
Link(s, e) ==
  /\ e \in EmailsOf[s]
  /\ user[e] # None /\ AreFree(s, e)
  /\ account' = [account EXCEPT ![s] = e]
  /\ UNCHANGED <<user, sessions>>

SignIn(s, u) ==
  /\ account[s] # None /\ user[u] # None
  /\ sessions' = sessions \cup {[subject |-> s, user |-> u]}
  /\ UNCHANGED <<user, account>>

Next ==
  \/ \E e \in Emails, n \in Names : Register(e, n)
  \/ \E s \in Subjects :
       \/ \E e \in Emails :
            \/ SignIn(s, e)
            \/ Link(s, e)
            \/ \E n \in Names : SignUp(s, e, n)

Spec == Init /\ [][Next]_vars

(* No user has two Google accounts, nobody is linked to a user who does    *)
(* not exist or by an address that is not theirs, and no two users share a *)
(* name.                                                                   *)
OneToOne ==
  /\ \A s, t \in Subjects : account[s] # None /\ account[s] = account[t] => s = t
  /\ \A s \in Subjects : account[s] # None
       => user[account[s]] # None /\ account[s] \in EmailsOf[s]
  /\ \A d, e \in Emails :
       user[d] # None /\ user[e] # None /\ user[d].name = user[e].name => d = e
=============================================================================
