------------------------------- MODULE Notifier -------------------------------
(***************************************************************************)
(* The WebSocket side of realtime delivery: the hub goroutine              *)
(* (WebSocketNotifier.Run), and for every connection the read loop of      *)
(* WebSocketConnector and the write loop WritePump, with the mutex, the    *)
(* timers and the channels they share.                                     *)
(*                                                                         *)
(* Timers follow Go 1.23 and later: Stop and Reset drop an expiry nobody   *)
(* has received.  A connection slot is used once; every token sent over it *)
(* names the same user, Identity[c].                                       *)
(***************************************************************************)
EXTENDS Naturals, Sequences, FiniteSets

CONSTANTS
  Conns,      (* connections                                                 *)
  Users,      (* users with valid access tokens                              *)
  NoUser,     (* the empty user id: a client before its first token, and the *)
              (* receiver a failed notification service call leaves          *)
  Torn,       (* a user id of which one of the two words is stored           *)
  Identity,   (* the user of each connection                                 *)
  Capacity,   (* size of the send channel; 10 in the code                    *)
  MaxEvents   (* bound: Notify calls made in an instance                     *)

ASSUME NotifierAssumption ==
  /\ NoUser \notin Users /\ Torn \notin Users \cup {NoUser}
  /\ Identity \in [Conns -> Users]
  /\ Capacity \in Nat \ {0}
  /\ MaxEvents \in Nat

VARIABLES
  clients,    (* the hub's list                                              *)
  calling,    (* the API handler at a Notify call: its event, or NoEvent     *)
  events,     (* number of Notify calls so far                               *)
  down,       (* the server has crashed                                      *)
  userID, auth,           (* fields of WebSocketClient                       *)
  authTimer, timer,       (* "armed", "expired" (not yet received) or "off"  *)
  send,       (* the buffered channel                                        *)
  open,       (* the connection has not been closed                          *)
  done,       (* the channel that stops the pump is closed                   *)
  reader,     (* where the read loop stands                                  *)
  pump, snap, (* where the write loop stands, and its copy of auth           *)
  taken,      (* the event the write loop holds                              *)
  got,        (* the events written to the connection                        *)
  acked,      (* history: Notify calls made when the last ack was written,   *)
              (* MaxEvents before the first                                  *)
  lost,       (* history: events discarded while the flag was set, since the *)
              (* last token                                                  *)
  told        (* history: while the flag is not set, the client has been     *)
              (* asked for a token; the first it has to send unasked         *)

hubVars    == <<clients, calling, events, down>>
clientVars == <<userID, auth, authTimer, timer, send>>
connVars   == <<open, done, reader, pump, snap, taken, got>>
history    == <<acked, lost, told>>
vars       == <<hubVars, clientVars, connVars, history>>

NoEvent == [id |-> 0, to |-> NoUser]
Event   == [id : 0..MaxEvents, to : Users \cup {NoUser}]

Init ==
  /\ clients = <<>> /\ calling = NoEvent /\ events = 0 /\ down = FALSE
  /\ userID = [c \in Conns |-> NoUser]
  /\ auth = [c \in Conns |-> FALSE]
  /\ authTimer = [c \in Conns |-> "armed"]
  /\ timer = [c \in Conns |-> "armed"]
  /\ send = [c \in Conns |-> <<>>]
  /\ open = [c \in Conns |-> TRUE]
  /\ done = [c \in Conns |-> FALSE]
  /\ reader = [c \in Conns |-> "register"]
  /\ pump = [c \in Conns |-> "off"]
  /\ snap = [c \in Conns |-> FALSE]
  /\ taken = [c \in Conns |-> NoEvent]
  /\ got = [c \in Conns |-> <<>>]
  /\ acked = [c \in Conns |-> MaxEvents]
  /\ lost = [c \in Conns |-> 0]
  /\ told = [c \in Conns |-> TRUE]

Read(c, from, to) == reader[c] = from /\ reader' = [reader EXCEPT ![c] = to]
Pump(c, from, to) == pump[c] = from /\ pump' = [pump EXCEPT ![c] = to]

(* A pump that has left its select has no use for the copy of auth.        *)
PumpSelects(c, to) ==
  Pump(c, "select", to) /\ snap' = [snap EXCEPT ![c] = FALSE]

-----------------------------------------------------------------------------
(* The hub: one operation per iteration of Run.  The register, unregister  *)
(* and notify channels are unbuffered, so a sender's step and the hub's    *)
(* are one.                                                                *)

(* WebSocketConnector registers the client, then starts its pump.          *)
HubRegister(c) ==
  /\ Read(c, "register", "reading")
  /\ clients' = Append(clients, c)
  /\ Pump(c, "off", "load")
  /\ UNCHANGED <<calling, events, down, clientVars, open, done, snap, taken,
                 got, history>>

Listed(c) == \E i \in DOMAIN clients : clients[i] = c

(* Fault: the entry stays in the list.                                     *)
HubUnregister_KeepsEntry(c) ==
  /\ Read(c, "unregister", "closeDone")
  /\ timer' = [timer EXCEPT ![c] = "off"]
  /\ authTimer' = [authTimer EXCEPT ![c] = "off"]
  /\ open' = [open EXCEPT ![c] = FALSE]
  /\ UNCHANGED <<hubVars, userID, auth, send, done, pump, snap, taken, got,
                 history>>

HubUnregister(c) ==
  /\ Read(c, "unregister", "closeDone")
  /\ IF Listed(c)
     THEN /\ timer' = [timer EXCEPT ![c] = "off"]
          /\ authTimer' = [authTimer EXCEPT ![c] = "off"]
          /\ open' = [open EXCEPT ![c] = FALSE]
          /\ LET ind == CHOOSE i \in DOMAIN clients : clients[i] = c
             IN clients' = SubSeq(clients, 1, ind - 1)
                             \o SubSeq(clients, ind + 1, Len(clients))
     ELSE UNCHANGED <<timer, authTimer, open, clients>>
  /\ UNCHANGED <<calling, events, down, userID, auth, send, done, pump, snap,
                 taken, got, history>>

(* An API handler reaches Notify (or the next receiver of BatchNotify)     *)
(* with the receiver the notification service gave it, which is empty when *)
(* that service failed.                                                    *)
CallNotify(u) ==
  /\ calling = NoEvent
  /\ events < MaxEvents
  /\ events' = events + 1
  /\ calling' = [id |-> events + 1, to |-> u]
  /\ UNCHANGED <<clients, down, clientVars, connVars, history>>

(* The hub compares user ids without the mutex of Authenticate.  An id is  *)
(* a pointer and a length, stored one after the other: with the pointer    *)
(* alone it equals the empty id, and with the length alone a comparison    *)
(* with an id of that length follows a nil pointer.                        *)
MayMiss(c)  == userID[c] # calling.to
MayMatch(c) ==
  userID[c] = calling.to \/ (userID[c] = Torn /\ calling.to = NoUser)
MayCrash(c) == userID[c] = Torn /\ calling.to # NoUser

(* slices.IndexFunc comes to the i-th client.                              *)
ScanReaches(i) == \A j \in 1..(i - 1) : MayMiss(clients[j])

(* Fault: the send has no default case and waits for room.                 *)
QueueOrDrop_Blocking(c) ==
  /\ Len(send[c]) < Capacity
  /\ send' = [send EXCEPT ![c] = Append(@, calling)]

(* Fault: the channel grows with every event.                              *)
QueueOrDrop_Unbounded(c) ==
  send' = [send EXCEPT ![c] = Append(@, calling)]

(* Fault: the newest event overtakes the ones that wait.                   *)
QueueOrDrop_Lifo(c) ==
  send' = [send EXCEPT ![c] = IF Len(@) < Capacity THEN <<calling>> \o @
                              ELSE @]

(* The hub does not wait for room in the channel.                          *)
QueueOrDrop(c) ==
  send' = [send EXCEPT ![c] = IF Len(@) < Capacity THEN Append(@, calling)
                              ELSE @]

(* One notification: no client matches, or the first that does gets it.    *)
HubNotify ==
  /\ calling # NoEvent
  /\ calling' = NoEvent
  /\ \/ ScanReaches(Len(clients) + 1) /\ UNCHANGED send
     \/ \E i \in DOMAIN clients :
          ScanReaches(i) /\ MayMatch(clients[i]) /\ QueueOrDrop(clients[i])
  /\ UNCHANGED <<clients, events, down, userID, auth, authTimer, timer,
                 connVars, history>>

(* The panic of a goroutine nobody recovers ends the program.              *)
HubCrash ==
  /\ calling # NoEvent
  /\ \E i \in DOMAIN clients : ScanReaches(i) /\ MayCrash(clients[i])
  /\ down' = TRUE
  /\ UNCHANGED <<clients, calling, events, clientVars, connVars, history>>

-----------------------------------------------------------------------------
(* The read loop of WebSocketConnector.  Messages that are not a valid     *)
(* token are answered and change nothing.                                  *)

(* Authenticate stores the user id before it takes the mutex, in two       *)
(* words; storing the same id again tears nothing.                         *)
ReadToken(c) ==
  /\ open[c]
  /\ Read(c, "reading", "storeID")
  /\ userID' = [userID EXCEPT ![c] = IF @ = NoUser THEN Torn ELSE @]
  /\ UNCHANGED <<hubVars, auth, authTimer, timer, send, open, done, pump, snap,
                 taken, got, history>>

StoreID(c) ==
  /\ Read(c, "storeID", "setAuth")
  /\ userID' = [userID EXCEPT ![c] = Identity[c]]
  /\ UNCHANGED <<hubVars, auth, authTimer, timer, send, open, done, pump, snap,
                 taken, got, history>>

SetAuth(c) ==
  /\ Read(c, "setAuth", "stopAuthTimer")
  /\ auth' = [auth EXCEPT ![c] = TRUE]
  /\ timer' = [timer EXCEPT ![c] = "armed"]
  /\ lost' = [lost EXCEPT ![c] = 0]
  /\ told' = [told EXCEPT ![c] = FALSE]
  /\ UNCHANGED <<hubVars, userID, authTimer, send, open, done, pump, snap,
                 taken, got, acked>>

StopAuthTimer(c) ==
  /\ Read(c, "stopAuthTimer", "ack")
  /\ authTimer' = [authTimer EXCEPT ![c] = "off"]
  /\ UNCHANGED <<hubVars, userID, auth, timer, send, open, done, pump, snap,
                 taken, got, history>>

(* The ack is written; an error of this write is ignored.                  *)
Ack(c) ==
  /\ Read(c, "ack", "reading")
  /\ acked' = [acked EXCEPT ![c] = events]
  /\ UNCHANGED <<hubVars, clientVars, open, done, pump, snap, taken, got, lost,
                 told>>

(* The peer leaves, or the connection breaks.                              *)
Disconnect(c) ==
  /\ open[c]
  /\ reader[c] # "register"
  /\ open' = [open EXCEPT ![c] = FALSE]
  /\ UNCHANGED <<hubVars, clientVars, done, reader, pump, snap, taken, got,
                 history>>

ReadError(c) ==
  /\ ~open[c]
  /\ Read(c, "reading", "unregister")
  /\ UNCHANGED <<hubVars, clientVars, open, done, pump, snap, taken, got,
                 history>>

CloseDone(c) ==
  /\ Read(c, "closeDone", "exited")
  /\ done' = [done EXCEPT ![c] = TRUE]
  /\ UNCHANGED <<hubVars, clientVars, open, pump, snap, taken, got, history>>

-----------------------------------------------------------------------------
(* Time.  The access window (15 minutes) cannot end while the 10 seconds   *)
(* for the first token are still running.                                  *)
AuthTimerExpires(c) ==
  /\ authTimer[c] = "armed"
  /\ authTimer' = [authTimer EXCEPT ![c] = "expired"]
  /\ UNCHANGED <<hubVars, userID, auth, timer, send, connVars, history>>

TimerExpires(c) ==
  /\ timer[c] = "armed" /\ authTimer[c] = "off"
  /\ timer' = [timer EXCEPT ![c] = "expired"]
  /\ UNCHANGED <<hubVars, userID, auth, authTimer, send, connVars, history>>

-----------------------------------------------------------------------------
(* WritePump.  The copy of isAuthenticated is taken before the select, and *)
(* the select may wait with it for any time.                               *)

(* Fault: the copy is taken once, when the pump starts.                    *)
PumpLoad_Once(c) ==
  /\ Pump(c, "load", "select")
  /\ UNCHANGED <<hubVars, clientVars, open, done, reader, snap, taken, got,
                 history>>

PumpLoad(c) ==
  /\ Pump(c, "load", "select")
  /\ snap' = [snap EXCEPT ![c] = auth[c]]
  /\ UNCHANGED <<hubVars, clientVars, open, done, reader, taken, got, history>>

PumpAuthTimeout(c) ==
  /\ authTimer[c] = "expired"
  /\ PumpSelects(c, "closing")
  /\ authTimer' = [authTimer EXCEPT ![c] = "off"]
  /\ UNCHANGED <<hubVars, userID, auth, timer, send, open, done, reader,
                 taken, got, history>>

(* Fault: the pump gives up without closing the connection.                *)
PumpClose_LeavesOpen(c) ==
  /\ Pump(c, "closing", "exited")
  /\ UNCHANGED <<hubVars, clientVars, open, done, reader, snap, taken, got,
                 history>>

PumpClose(c) ==
  /\ Pump(c, "closing", "exited")
  /\ open' = [open EXCEPT ![c] = FALSE]
  /\ UNCHANGED <<hubVars, clientVars, done, reader, snap, taken, got, history>>

(* The event at the head of the channel is written if the copy says the    *)
(* client is authenticated, else discarded.                                *)
PumpTake(c) ==
  /\ send[c] # <<>>
  /\ PumpSelects(c, IF snap[c] THEN "write" ELSE "load")
  /\ taken' = [taken EXCEPT ![c] = IF snap[c] THEN Head(send[c]) ELSE NoEvent]
  /\ send' = [send EXCEPT ![c] = Tail(@)]
  /\ lost' = [lost EXCEPT ![c] = IF auth[c] /\ ~snap[c] THEN @ + 1 ELSE @]
  /\ UNCHANGED <<hubVars, userID, auth, authTimer, timer, open, done, reader,
                 got, acked, told>>

PumpWrite(c) ==
  /\ open[c]
  /\ Pump(c, "write", "load")
  /\ got' = [got EXCEPT ![c] = Append(@, taken[c])]
  /\ taken' = [taken EXCEPT ![c] = NoEvent]
  /\ UNCHANGED <<hubVars, clientVars, open, done, reader, snap, history>>

(* Fault: an event that could not be written goes back to the channel.     *)
PumpWriteError_Requeues(c) ==
  /\ pump[c] = "write" /\ Len(send[c]) < Capacity
  /\ pump' = [pump EXCEPT ![c] = "load"]
  /\ send' = [send EXCEPT ![c] = Append(@, taken[c])]
  /\ taken' = [taken EXCEPT ![c] = NoEvent]
  /\ UNCHANGED <<hubVars, userID, auth, authTimer, timer, open, done, reader,
                 snap, got, history>>

(* A failed write ends the pump; a write that times out also closes the    *)
(* connection (coder/websocket does so when the context of a write ends).  *)
PumpWriteError(c) ==
  /\ pump[c] \in {"write", "refresh"}
  /\ pump' = [pump EXCEPT ![c] = "exited"]
  /\ open' = [open EXCEPT ![c] = FALSE]
  /\ taken' = [taken EXCEPT ![c] = NoEvent]
  /\ UNCHANGED <<hubVars, clientVars, done, reader, snap, got, history>>

PumpTimer(c) ==
  /\ timer[c] = "expired"
  /\ PumpSelects(c, "clearAuth")
  /\ timer' = [timer EXCEPT ![c] = "off"]
  /\ UNCHANGED <<hubVars, userID, auth, authTimer, send, open, done, reader,
                 taken, got, history>>

PumpClearAuth(c) ==
  /\ Pump(c, "clearAuth", "refresh")
  /\ auth' = [auth EXCEPT ![c] = FALSE]
  /\ UNCHANGED <<hubVars, userID, authTimer, timer, send, open, done, reader,
                 snap, taken, got, history>>

(* Fault: the pump goes on though the refresh could not be written.        *)
PumpRefresh_IgnoreError(c) ==
  /\ Pump(c, "refresh", "load")
  /\ told' = [told EXCEPT ![c] = ~auth[c] /\ open[c]]
  /\ UNCHANGED <<hubVars, clientVars, open, done, reader, snap, taken, got,
                 acked, lost>>

(* The client is asked for a new token, also if one has come meanwhile.    *)
PumpRefresh(c) ==
  /\ open[c]
  /\ Pump(c, "refresh", "load")
  /\ told' = [told EXCEPT ![c] = ~auth[c]]
  /\ UNCHANGED <<hubVars, clientVars, open, done, reader, snap, taken, got,
                 acked, lost>>

PumpDone(c) ==
  /\ done[c]
  /\ PumpSelects(c, "exited")
  /\ UNCHANGED <<hubVars, clientVars, open, done, reader, taken, got, history>>

-----------------------------------------------------------------------------
HubStep(c) == HubRegister(c) \/ HubUnregister(c)

ReaderStep(c) ==
  \/ StoreID(c) \/ SetAuth(c) \/ StopAuthTimer(c) \/ Ack(c)
  \/ ReadError(c) \/ CloseDone(c)

PumpStep(c) ==
  \/ PumpLoad(c) \/ PumpAuthTimeout(c) \/ PumpClose(c) \/ PumpTake(c)
  \/ PumpWrite(c) \/ PumpWriteError(c) \/ PumpTimer(c) \/ PumpClearAuth(c)
  \/ PumpRefresh(c) \/ PumpDone(c)

Next ==
  /\ ~down
  /\ \/ \E u \in Users \cup {NoUser} : CallNotify(u)
     \/ HubNotify \/ HubCrash
     \/ \E c \in Conns :
          \/ HubStep(c) \/ ReaderStep(c) \/ PumpStep(c)
          \/ ReadToken(c) \/ Disconnect(c)
          \/ AuthTimerExpires(c) \/ TimerExpires(c)

Spec == Init /\ [][Next]_vars

(* While the server is up its goroutines are scheduled and the hub's       *)
(* select serves every channel that stays ready; clients owe nothing:      *)
(* tokens and disconnects are free.                                        *)
Fairness ==
  /\ WF_vars(~down /\ HubNotify)
  /\ \A c \in Conns :
       /\ WF_vars(~down /\ HubStep(c))
       /\ WF_vars(~down /\ ReaderStep(c))
       /\ WF_vars(~down /\ PumpStep(c))

FairSpec == Spec /\ Fairness

-----------------------------------------------------------------------------
TypeOK ==
  /\ clients \in Seq(Conns)
  /\ \A i, j \in DOMAIN clients : clients[i] = clients[j] => i = j
  /\ calling \in Event /\ events \in 0..MaxEvents /\ down \in BOOLEAN
  /\ userID \in [Conns -> Users \cup {NoUser, Torn}]
  /\ auth \in [Conns -> BOOLEAN]
  /\ authTimer \in [Conns -> {"armed", "expired", "off"}]
  /\ timer \in [Conns -> {"armed", "expired", "off"}]
  /\ send \in [Conns -> Seq(Event)]
  /\ \A c \in Conns : Len(send[c]) <= Capacity
  /\ open \in [Conns -> BOOLEAN] /\ done \in [Conns -> BOOLEAN]
  /\ reader \in [Conns -> {"register", "reading", "storeID", "setAuth",
                           "stopAuthTimer", "ack", "unregister", "closeDone",
                           "exited"}]
  /\ pump \in [Conns -> {"off", "load", "select", "closing", "write",
                         "clearAuth", "refresh", "exited"}]
  /\ snap \in [Conns -> BOOLEAN]
  /\ taken \in [Conns -> Event]
  /\ got \in [Conns -> Seq(Event)]
  /\ acked \in [Conns -> 0..MaxEvents] /\ lost \in [Conns -> Nat]
  /\ told \in [Conns -> BOOLEAN]

(* The pump works with a copy of isAuthenticated that may be old, and      *)
(* still every event it is writing goes to a client whose flag is set: it  *)
(* is the only one to clear it.  (When the timer runs out the flag stays   *)
(* set, and events go out, until the pump takes that case of its select.)  *)
(* And a client is not cut off without a word, though the cut races the    *)
(* tokens it sends (a new one is accepted while the old runs out): since   *)
(* its flag was cleared it has been asked for another (README.md:174), or  *)
(* the pump is about to ask, or has ended.                                 *)
AccessWindow ==
  \A c \in Conns :
    /\ pump[c] = "write" => auth[c]
    /\ ~auth[c] => told[c] \/ pump[c] \in {"refresh", "exited"}

(* What reaches a client are events addressed to its user (or to nobody,   *)
(* when the notification service gave no receiver), each at most once and  *)
(* in the order of the Notify calls, whatever was dropped in between.      *)
InOrderToReceiver ==
  \A c \in Conns :
    LET stream == got[c] \o (IF pump[c] = "write" THEN <<taken[c]>> ELSE <<>>)
                         \o send[c]
    IN /\ \A i \in DOMAIN stream : stream[i].to \in {Identity[c], NoUser}
       /\ \A i, j \in DOMAIN stream : i < j => stream[i].id < stream[j].id

(* A connection whose handler is past Unregister has left nothing behind:  *)
(* not listed, closed, both timers stopped.                                *)
UnregisteredIsGone ==
  \A c \in Conns :
    reader[c] \in {"closeDone", "exited"} =>
      /\ ~Listed(c) /\ ~open[c]
      /\ authTimer[c] = "off" /\ timer[c] = "off"

(* The pump may hold a copy of isAuthenticated from before the token and   *)
(* throw an event away that it should write; it rereads the flag after     *)
(* every event, so one token costs at most one event.                      *)
LosesAtMostOne == \A c \in Conns : lost[c] <= 1

(* The expectation of api/websocket_test.go:246-283: once the ack is read, *)
(* an event sent to the user arrives.  No event whose Notify call came     *)
(* after the ack is thrown away while the client is authenticated.         *)
AckedClientIsServed ==
  [][\A c \in Conns :
       send'[c] # send[c] /\ pump[c] = "select" /\ pump'[c] = "load" /\ auth[c]
         => Head(send[c]).id <= acked[c]]_vars

(* For whoever calls Notify, the hub, the pumps and the timers are together *)
(* a queue per connection that loses events but neither reorders, repeats   *)
(* nor misdirects them.  A dead pump loses what is in its channel.          *)
D == INSTANCE Delivery
       WITH last    <- events,
            waiting <- [c \in Conns |->
                          (IF pump[c] = "write" THEN <<taken[c]>> ELSE <<>>)
                            \o send[c]]

ImplementsDelivery == D!Spec

(* An API handler never hangs in Notify, even when the receiver's pump is  *)
(* dead and its channel full, unless the hub itself has crashed.           *)
NotifyReturns == calling # NoEvent ~> calling = NoEvent \/ down

(* Events go to the first connection of a user in the hub's list, dead or  *)
(* alive, so a client that reconnects before its old connection is cleared *)
(* is not reached at once, but it is in the end.                           *)
ReconnectTakesOver ==
  \A c \in Conns :
    /\ Listed(c) /\ open[c] /\ userID[c] = Identity[c]
    /\ \A d \in Conns \ {c} : ~open[d]
    ~> \/ ~open[c] \/ down
       \/ \E i \in DOMAIN clients :
            /\ clients[i] = c
            /\ \A j \in 1..(i - 1) : userID[clients[j]] # userID[c]

(* The end of a connection ends both of its goroutines and its entry in    *)
(* the hub, whichever of them notices first.                               *)
ConnectionsAreReleased ==
  \A c \in Conns :
    (pump[c] = "exited" \/ ~open[c])
      ~> (pump[c] = "exited" /\ reader[c] = "exited" /\ ~Listed(c)) \/ down
=============================================================================
