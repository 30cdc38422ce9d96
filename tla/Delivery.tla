------------------------------- MODULE Delivery -------------------------------
(***************************************************************************)
(* What realtime delivery promises, told without hub, goroutines, timers   *)
(* or channels: every connection has a queue that loses what it likes but  *)
(* never reorders, never repeats and never hands over an event meant for   *)
(* somebody else.                                                          *)
(***************************************************************************)
EXTENDS Naturals, Sequences

CONSTANTS
  Conns,     (* connections                                                  *)
  Users,
  NoUser,    (* the receiver of an event that is for nobody in particular    *)
  Identity   (* the user of each connection                                  *)

VARIABLES
  calling,   (* the event a caller is handing over, or NoEvent               *)
  last,      (* the number of the latest call; numbering may start anywhere  *)
  waiting,   (* per connection: accepted, and neither delivered nor lost     *)
  got        (* per connection: delivered                                    *)

vars == <<calling, last, waiting, got>>

NoEvent == [id |-> 0, to |-> NoUser]

Init ==
  /\ calling = NoEvent /\ last \in Nat
  /\ waiting = [c \in Conns |-> <<>>]
  /\ got = [c \in Conns |-> <<>>]

Call(u) ==
  /\ calling = NoEvent
  /\ calling' = [id |-> last + 1, to |-> u]
  /\ last' = last + 1
  /\ UNCHANGED <<waiting, got>>

(* The event joins the queue of one connection of its receiver.            *)
Accept(c) ==
  /\ calling # NoEvent
  /\ calling.to \in {Identity[c], NoUser}
  /\ calling' = NoEvent
  /\ waiting' = [waiting EXCEPT ![c] = Append(@, calling)]
  /\ UNCHANGED <<last, got>>

(* Nobody is there to take it, or there is no room.                        *)
Drop ==
  /\ calling # NoEvent
  /\ calling' = NoEvent
  /\ UNCHANGED <<last, waiting, got>>

Discard(c) ==
  /\ waiting[c] # <<>>
  /\ waiting' = [waiting EXCEPT ![c] = Tail(@)]
  /\ UNCHANGED <<calling, last, got>>

Deliver(c) ==
  /\ waiting[c] # <<>>
  /\ got' = [got EXCEPT ![c] = Append(@, Head(waiting[c]))]
  /\ waiting' = [waiting EXCEPT ![c] = Tail(@)]
  /\ UNCHANGED <<calling, last>>

Next ==
  \/ \E u \in Users \cup {NoUser} : Call(u)
  \/ Drop
  \/ \E c \in Conns : Accept(c) \/ Discard(c) \/ Deliver(c)

Spec == Init /\ [][Next]_vars
=============================================================================
