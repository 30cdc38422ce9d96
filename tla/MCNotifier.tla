------------------------------ MODULE MCNotifier ------------------------------
(* Small instances of Notifier: one connection, or two of the same user.    *)
EXTENDS Notifier, TLC

CONSTANTS c1, c2, alice, bob

OneConnection == c1 :> alice
SameUser      == (c1 :> alice) @@ (c2 :> alice)

(* Two instances in one run.  In the first, c2 has come and gone without a  *)
(* token, and every event is still to be sent to c1; in the second, every   *)
(* event has found no client, c1 has shown its token, and the same user     *)
(* connects again with c2.                                                  *)
ComeAndGone ==
  /\ events = 0 /\ clients = <<>>
  /\ open = [c \in Conns |-> c # c2]
  /\ done = [c \in Conns |-> c = c2]
  /\ reader = [c \in Conns |-> IF c = c2 THEN "exited" ELSE "register"]
  /\ pump = [c \in Conns |-> IF c = c2 THEN "exited" ELSE "off"]
  /\ userID = [c \in Conns |-> NoUser]
  /\ auth = [c \in Conns |-> FALSE]
  /\ authTimer = [c \in Conns |-> IF c = c2 THEN "off" ELSE "armed"]
  /\ timer = authTimer

ConnectsAgain ==
  /\ events = MaxEvents /\ clients = <<c1>>
  /\ open = [c \in Conns |-> TRUE]
  /\ done = [c \in Conns |-> FALSE]
  /\ reader = [c \in Conns |-> IF c = c1 THEN "reading" ELSE "register"]
  /\ pump = [c \in Conns |-> IF c = c1 THEN "load" ELSE "off"]
  /\ userID = [c \in Conns |-> IF c = c1 THEN Identity[c1] ELSE NoUser]
  /\ auth = [c \in Conns |-> c = c1]
  /\ authTimer = [c \in Conns |-> IF c = c1 THEN "off" ELSE "armed"]
  /\ timer = [c \in Conns |-> "armed"]

MCInit ==
  /\ ComeAndGone \/ ConnectsAgain
  /\ calling = NoEvent /\ down = FALSE
  /\ send = [c \in Conns |-> <<>>]
  /\ snap = [c \in Conns |-> FALSE]
  /\ taken = [c \in Conns |-> NoEvent]
  /\ got = [c \in Conns |-> <<>>]
  /\ acked = [c \in Conns |-> MaxEvents]
  /\ lost = [c \in Conns |-> 0]
  /\ told = [c \in Conns |-> ~auth[c]]

MCFairSpec == MCInit /\ [][Next]_vars /\ Fairness
=============================================================================
