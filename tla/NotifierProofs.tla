---------------------------- MODULE NotifierProofs ----------------------------
(***************************************************************************)
(* Proofs about Notifier, for any number of connections, any capacity and  *)
(* any number of events.                                                   *)
(***************************************************************************)
EXTENDS Notifier, SequenceTheorems, TLAPS

Gone == {"closeDone", "exited"}

(* What the hub's list, the read loop and the pump know of one connection. *)
Hub ==
  /\ clients \in Seq(Conns)
  /\ \A i, j \in DOMAIN clients : clients[i] = clients[j] => i = j
  /\ calling \in Event /\ events \in 0..MaxEvents /\ down \in BOOLEAN
  /\ calling # NoEvent => calling.id = events
  /\ acked \in [Conns -> 0..MaxEvents]

Reading ==
  /\ userID \in [Conns -> Users \cup {NoUser, Torn}]
  /\ \A c \in Conns : userID[c] \in {NoUser, Torn, Identity[c]}
  /\ authTimer \in [Conns -> {"armed", "expired", "off"}]
  /\ timer \in [Conns -> {"armed", "expired", "off"}]
  /\ open \in [Conns -> BOOLEAN] /\ done \in [Conns -> BOOLEAN]
  /\ reader \in [Conns -> {"register", "reading", "storeID", "setAuth",
                           "stopAuthTimer", "ack", "unregister", "closeDone",
                           "exited"}]
  /\ \A c \in Conns : Listed(c) <=> reader[c] \notin {"register"} \cup Gone
  /\ UnregisteredIsGone

Pumping ==
  /\ pump \in [Conns -> {"off", "load", "select", "closing", "write",
                         "clearAuth", "refresh", "exited"}]
  /\ snap \in [Conns -> BOOLEAN] /\ auth \in [Conns -> BOOLEAN]
  /\ lost \in [Conns -> Nat] /\ told \in [Conns -> BOOLEAN]
  /\ \A c \in Conns :
       /\ snap[c] => auth[c] /\ pump[c] = "select"
       /\ pump[c] = "write" => auth[c]
       /\ ~auth[c] => told[c] \/ pump[c] \in {"refresh", "exited"}
       /\ lost[c] <= 1
       /\ pump[c] = "select" /\ ~snap[c] /\ auth[c] => lost[c] = 0

(* The stream of one connection: what it got, what the pump holds in a     *)
(* write, and what waits; no event in it is later than top.                *)
Mine(c, e) == e.to \in {Identity[c], NoUser}
Sorted(s)  == \A i, j \in 1..Len(s) : i < j => s[i].id < s[j].id

Stream(c, top, writing, t, waits, g) ==
  /\ waits \in Seq(Event) /\ g \in Seq(Event) /\ t \in Event
  /\ Len(waits) <= Capacity
  /\ Sorted(waits) /\ Sorted(g)
  /\ \A j \in 1..Len(waits) : waits[j].id <= top /\ Mine(c, waits[j])
  /\ \A i \in 1..Len(g) : g[i].id <= top /\ Mine(c, g[i])
  /\ \A i \in 1..Len(g), j \in 1..Len(waits) : g[i].id < waits[j].id
  /\ writing =>
       /\ t.id <= top /\ Mine(c, t)
       /\ \A i \in 1..Len(g) : g[i].id < t.id
       /\ \A j \in 1..Len(waits) : t.id < waits[j].id

(* The event of a call in progress is not yet in any stream.               *)
Top == IF calling = NoEvent THEN events ELSE events - 1

Streams ==
  /\ send \in [Conns -> Seq(Event)]
  /\ got \in [Conns -> Seq(Event)]
  /\ taken \in [Conns -> Event]
  /\ \A c \in Conns :
       Stream(c, Top, pump[c] = "write", taken[c], send[c], got[c])

NInv == Hub /\ Reading /\ Pumping /\ Streams

-----------------------------------------------------------------------------
LEMMA InitNInv == Init => NInv
<1> SUFFICES ASSUME Init PROVE NInv
  OBVIOUS
<1> USE NotifierAssumption
<1>1. Hub
  <2>1. NoEvent \in Event
    BY DEF NoEvent, Event
  <2>2. clients \in Seq(Conns) /\ Len(clients) = 0 /\ DOMAIN clients = 1..0
    BY EmptySeq, LenProperties DEF Init
  <2>3. \A i, j \in DOMAIN clients : clients[i] = clients[j] => i = j
    BY <2>2
  <2>4. events \in 0..MaxEvents /\ acked \in [Conns -> 0..MaxEvents]
    BY DEF Init
  <2>5. QED
    BY <2>1, <2>2, <2>3, <2>4 DEF Init, Hub
<1>2. Reading
  BY DEF Init, Reading, Listed, UnregisteredIsGone, Gone
<1>3. Pumping
  BY DEF Init, Pumping
<1>4. Streams
  <2>1. \A c \in Conns : /\ send[c] = <<>> /\ got[c] = <<>> /\ taken[c] = NoEvent
                         /\ pump[c] = "off"
    BY DEF Init
  <2>2. <<>> \in Seq(Event) /\ Len(<<>>) = 0 /\ NoEvent \in Event
    BY EmptySeq DEF NoEvent, Event
  <2>3. \A c \in Conns : Stream(c, Top, FALSE, NoEvent, <<>>, <<>>)
    BY <2>2 DEF Stream, Sorted
  <2>4. QED
    BY <2>1, <2>2, <2>3 DEF Init, Streams
<1> QED
  BY <1>1, <1>2, <1>3, <1>4 DEF NInv

-----------------------------------------------------------------------------
(* Hub.                                                                    *)
RemoveAt(s, i) == SubSeq(s, 1, i - 1) \o SubSeq(s, i + 1, Len(s))

(* The list without its i-th entry, element by element.                    *)
LEMMA RemovedEntry ==
  ASSUME NEW S, NEW s \in Seq(S), NEW i \in 1..Len(s)
  PROVE  /\ RemoveAt(s, i) \in Seq(S) /\ Len(RemoveAt(s, i)) = Len(s) - 1
         /\ \A j \in 1..(Len(s) - 1) :
              RemoveAt(s, i)[j] = IF j < i THEN s[j] ELSE s[j + 1]
<1> DEFINE r == RemoveAt(s, i)
           a == SubSeq(s, 1, i - 1)
           b == SubSeq(s, i + 1, Len(s))
<1>1. Len(s) \in Nat /\ i \in Int /\ \A j \in 1..Len(s) : s[j] \in S
  BY LenProperties
<1>2. /\ a \in Seq(S) /\ Len(a) = i - 1
      /\ \A j \in 1..(i - 1) : a[j] = s[j]
  <2>1. /\ a \in Seq(S)
        /\ Len(a) = IF 1 <= i - 1 THEN (i - 1) - 1 + 1 ELSE 0
        /\ \A j \in 1..((i - 1) - 1 + 1) : a[j] = s[1 + j - 1]
    BY <1>1, SubSeqProperties
  <2>2. QED
    BY <2>1, <1>1
<1>3. /\ b \in Seq(S) /\ Len(b) = Len(s) - i
      /\ \A j \in 1..(Len(s) - i) : b[j] = s[i + j]
  <2>1. /\ b \in Seq(S)
        /\ Len(b) = IF i + 1 <= Len(s) THEN Len(s) - (i + 1) + 1 ELSE 0
        /\ \A j \in 1..(Len(s) - (i + 1) + 1) : b[j] = s[(i + 1) + j - 1]
    BY <1>1, SubSeqProperties
  <2>2. QED
    BY <2>1, <1>1
<1>4. r = a \o b
  BY DEF RemoveAt
<1> HIDE DEF r, a, b
<1>5. /\ r \in Seq(S) /\ Len(r) = Len(a) + Len(b)
      /\ \A j \in 1..(Len(a) + Len(b)) :
           r[j] = IF j <= Len(a) THEN a[j] ELSE b[j - Len(a)]
  <2>1. a \in Seq(S) /\ b \in Seq(S)
    BY <1>2, <1>3
  <2>2. QED
    BY <2>1, <1>4, ConcatProperties
<1>6. Len(r) = Len(s) - 1
  BY <1>5, <1>1, <1>2, <1>3
<1>7. ASSUME NEW j \in 1..(Len(s) - 1)
      PROVE  r[j] = IF j < i THEN s[j] ELSE s[j + 1]
  <2> j \in 1..(Len(a) + Len(b))
    BY <1>1, <1>2, <1>3
  <2>1. CASE j < i
    <3>1. j \in 1..(i - 1) /\ j <= Len(a)
      BY <2>1, <1>1, <1>2
    <3>2. r[j] = a[j]
      BY <3>1, <1>5
    <3>3. QED
      BY <3>1, <3>2, <2>1, <1>2
  <2>2. CASE j >= i
    <3>1. j - Len(a) \in 1..(Len(s) - i) /\ i + (j - Len(a)) = j + 1
      BY <2>2, <1>1, <1>2
    <3>2. r[j] = b[j - Len(a)]
      <4>1. ~(j <= Len(a))
        BY <2>2, <1>1, <1>2
      <4>2. QED
        BY <4>1, <1>5
    <3>3. b[j - Len(a)] = s[i + (j - Len(a))]
      BY <3>1, <1>3
    <3>4. QED
      BY <3>1, <3>2, <3>3, <2>2, <1>1
  <2>3. QED
    BY <2>1, <2>2, <1>1
<1>8. QED
  BY <1>5, <1>6, <1>7 DEF r

(* Removing an entry from a list without repetitions.                      *)
LEMMA Removal ==
  ASSUME NEW S, NEW s \in Seq(S), NEW i \in 1..Len(s),
         \A j, k \in 1..Len(s) : s[j] = s[k] => j = k
  PROVE  /\ RemoveAt(s, i) \in Seq(S)
         /\ \A j, k \in 1..Len(RemoveAt(s, i)) :
              RemoveAt(s, i)[j] = RemoveAt(s, i)[k] => j = k
         /\ \A x : (\E j \in 1..Len(RemoveAt(s, i)) : RemoveAt(s, i)[j] = x)
                     <=> x # s[i] /\ \E j \in 1..Len(s) : s[j] = x
<1> DEFINE r == RemoveAt(s, i)
<1>1. Len(s) \in Nat /\ i \in Int /\ \A j \in 1..Len(s) : s[j] \in S
  BY LenProperties
<1>2. /\ r \in Seq(S) /\ Len(r) = Len(s) - 1
      /\ \A j \in 1..(Len(s) - 1) : r[j] = IF j < i THEN s[j] ELSE s[j + 1]
  BY RemovedEntry, Zenon
<1> HIDE DEF r
<1>3. \A j, k \in 1..Len(r) : r[j] = r[k] => j = k
  BY <1>1, <1>2
<1>4. ASSUME NEW x
      PROVE  (\E j \in 1..Len(r) : r[j] = x)
               <=> x # s[i] /\ \E j \in 1..Len(s) : s[j] = x
  <2>1. ASSUME NEW j \in 1..Len(r), r[j] = x
        PROVE  x # s[i] /\ \E k \in 1..Len(s) : s[k] = x
    <3>0. j \in Int
      BY <1>1, <1>2
    <3>1. CASE j < i
      BY <3>1, <2>1, <1>1, <1>2
    <3>2. CASE j >= i
      <4>1. j + 1 \in 1..Len(s) /\ s[j + 1] = x /\ j + 1 # i
        BY <3>2, <2>1, <1>1, <1>2
      <4>2. QED
        BY <4>1
    <3>3. QED
      BY <3>0, <3>1, <3>2, <1>1
  <2>2. ASSUME NEW j \in 1..Len(s), s[j] = x, x # s[i]
        PROVE  \E k \in 1..Len(r) : r[k] = x
    <3>1. CASE j < i
      BY <3>1, <2>2, <1>1, <1>2
    <3>2. CASE j > i
      <4>1. j - 1 \in 1..Len(r) /\ r[j - 1] = x
        BY <3>2, <2>2, <1>1, <1>2
      <4>2. QED
        BY <4>1
    <3>3. QED
      BY <3>1, <3>2, <2>2, <1>1
  <2>3. QED
    BY <2>1, <2>2
<1> QED
  BY <1>2, <1>3, <1>4 DEF r

LEMMA Unlisting ==
  ASSUME NInv, NEW c \in Conns, HubUnregister(c)
  PROVE  /\ clients' \in Seq(Conns)
         /\ \A i, j \in DOMAIN clients' : clients'[i] = clients'[j] => i = j
         /\ \A d \in Conns : Listed(d)' <=> Listed(d) /\ d # c
<1>1. Listed(c)
  BY DEF NInv, Reading, HubUnregister, Read, Gone
<1> DEFINE ind == CHOOSE i \in DOMAIN clients : clients[i] = c
<1>2. ind \in DOMAIN clients /\ clients[ind] = c
  BY <1>1 DEF Listed
<1>3. clients' = RemoveAt(clients, ind)
  BY <1>1 DEF HubUnregister, RemoveAt
<1> HIDE DEF ind
<1>4. PICK k0 \in 1..Len(clients) :
       clients[k0] = c /\ clients' = RemoveAt(clients, k0)
  BY <1>2, <1>3, LenProperties DEF NInv, Hub
<1>5. /\ clients \in Seq(Conns) /\ DOMAIN clients = 1..Len(clients)
      /\ \A j, k \in 1..Len(clients) : clients[j] = clients[k] => j = k
  BY LenProperties DEF NInv, Hub
<1>6. /\ clients' \in Seq(Conns)
      /\ \A j, k \in 1..Len(clients') : clients'[j] = clients'[k] => j = k
      /\ \A x : (\E j \in 1..Len(clients') : clients'[j] = x)
                  <=> x # c /\ \E j \in 1..Len(clients) : clients[j] = x
  <2> DEFINE r == RemoveAt(clients, k0)
  <2>1. /\ r \in Seq(Conns)
        /\ \A j, k \in 1..Len(r) : r[j] = r[k] => j = k
        /\ \A x : (\E j \in 1..Len(r) : r[j] = x)
                    <=> x # clients[k0] /\ \E j \in 1..Len(clients) : clients[j] = x
    BY <1>5, Removal
  <2> HIDE DEF r
  <2>2. clients' = r /\ clients[k0] = c
    BY <1>4 DEF r
  <2>3. QED
    BY <2>1, <2>2
<1>7. DOMAIN clients' = 1..Len(clients')
  BY <1>6, LenProperties
<1>8. \A i, j \in DOMAIN clients' : clients'[i] = clients'[j] => i = j
  BY <1>6, <1>7
<1>9. ASSUME NEW d \in Conns PROVE Listed(d)' <=> Listed(d) /\ d # c
  <2>1. Listed(d) <=> \E j \in 1..Len(clients) : clients[j] = d
    BY <1>5 DEF Listed
  <2>2. Listed(d)' <=> \E j \in 1..Len(clients') : clients'[j] = d
    BY <1>7 DEF Listed
  <2>3. QED
    BY <1>6, <2>1, <2>2
<1> QED
  BY <1>6, <1>8, <1>9

LEMMA Listing ==
  ASSUME NInv, NEW c \in Conns, HubRegister(c)
  PROVE  /\ clients' \in Seq(Conns)
         /\ \A i, j \in DOMAIN clients' : clients'[i] = clients'[j] => i = j
         /\ \A d \in Conns : Listed(d)' <=> Listed(d) \/ d = c
<1>1. ~Listed(c)
  BY DEF NInv, Reading, HubRegister, Read, Gone
<1>2. /\ clients \in Seq(Conns) /\ DOMAIN clients = 1..Len(clients)
      /\ Len(clients) \in Nat
      /\ \A j, k \in 1..Len(clients) : clients[j] = clients[k] => j = k
  BY LenProperties DEF NInv, Hub
<1>3. /\ clients' \in Seq(Conns)
      /\ Len(clients') = Len(clients) + 1
      /\ \A i \in 1..Len(clients) : clients'[i] = clients[i]
      /\ clients'[Len(clients) + 1] = c
  BY <1>2, AppendProperties DEF HubRegister
<1>4. DOMAIN clients' = 1..(Len(clients) + 1)
  BY <1>3, LenProperties
<1>5. \A i, j \in DOMAIN clients' : clients'[i] = clients'[j] => i = j
  BY <1>1, <1>2, <1>3, <1>4 DEF Listed
<1>6. ASSUME NEW d \in Conns PROVE Listed(d)' <=> Listed(d) \/ d = c
  <2>1. Listed(d) => Listed(d)'
    BY <1>2, <1>3, <1>4 DEF Listed
  <2>2. Listed(c)'
    BY <1>2, <1>3, <1>4 DEF Listed
  <2>3. Listed(d)' => Listed(d) \/ d = c
    BY <1>2, <1>3, <1>4 DEF Listed
  <2>4. QED
    BY <2>1, <2>2, <2>3
<1> QED
  BY <1>3, <1>5, <1>6

LEMMA HubKept == NInv /\ Next => Hub'
<1> SUFFICES ASSUME NInv, Next PROVE Hub'
  OBVIOUS
<1> USE NotifierAssumption
<1>0. Hub
  BY DEF NInv
<1>1. ASSUME NEW c \in Conns, HubRegister(c) PROVE Hub'
  <2>1. UNCHANGED <<calling, events, down, acked>>
    BY <1>1 DEF HubRegister, history
  <2>2. QED
    BY <1>0, <1>1, <2>1, Listing DEF Hub
<1>2. ASSUME NEW c \in Conns, HubUnregister(c) PROVE Hub'
  <2>1. UNCHANGED <<calling, events, down, acked>>
    BY <1>2 DEF HubUnregister, history
  <2>2. QED
    BY <1>0, <1>2, <2>1, Unlisting DEF Hub
<1>3. ASSUME NEW u \in Users \cup {NoUser}, CallNotify(u) PROVE Hub'
  <2>1. calling' \in Event /\ events' \in 0..MaxEvents /\ calling'.id = events'
    BY <1>0, <1>3 DEF CallNotify, Hub, Event
  <2>2. QED
    BY <1>0, <1>3, <2>1 DEF CallNotify, Hub, history
<1>4. CASE HubNotify
  <2>1. NoEvent \in Event
    BY DEF NoEvent, Event
  <2>2. QED
    BY <1>0, <1>4, <2>1 DEF HubNotify, Hub, history
<1>5. CASE HubCrash
  BY <1>0, <1>5 DEF HubCrash, Hub, history
<1>6. ASSUME NEW c \in Conns, Ack(c) PROVE Hub'
  BY <1>0, <1>6 DEF Ack, Hub, hubVars
<1>7. CASE UNCHANGED <<hubVars, acked>>
  BY <1>0, <1>7 DEF Hub, hubVars
<1>8. ASSUME NEW c \in Conns,
             \/ ReadToken(c) \/ StoreID(c) \/ SetAuth(c) \/ StopAuthTimer(c)
             \/ Disconnect(c) \/ ReadError(c) \/ CloseDone(c)
             \/ AuthTimerExpires(c) \/ TimerExpires(c) \/ PumpStep(c)
      PROVE  Hub'
  <2>1. UNCHANGED <<hubVars, acked>>
    BY <1>8 DEF ReadToken, StoreID, SetAuth, StopAuthTimer, Disconnect,
       ReadError, CloseDone, AuthTimerExpires, TimerExpires, PumpStep, PumpLoad,
       PumpAuthTimeout, PumpClose, PumpTake, PumpWrite, PumpWriteError,
       PumpTimer, PumpClearAuth, PumpRefresh, PumpDone, history
  <2>2. QED
    BY <2>1, <1>7
<1> QED
  BY <1>1, <1>2, <1>3, <1>4, <1>5, <1>6, <1>8 DEF Next, HubStep, ReaderStep

-----------------------------------------------------------------------------
LEMMA ReadingKept == NInv /\ Next => Reading'
<1> SUFFICES ASSUME NInv, Next PROVE Reading'
  OBVIOUS
<1> USE NotifierAssumption
<1>0. Reading
  BY DEF NInv
<1>1. ASSUME NEW c \in Conns, HubRegister(c) PROVE Reading'
  BY <1>0, <1>1, Listing
     DEF HubRegister, Read, Reading, clientVars, UnregisteredIsGone, Gone
<1>2. ASSUME NEW c \in Conns, HubUnregister(c) PROVE Reading'
  <2>1. Listed(c)
    BY <1>0, <1>2 DEF Reading, HubUnregister, Read, Gone
  <2>2. /\ timer' = [timer EXCEPT ![c] = "off"]
        /\ authTimer' = [authTimer EXCEPT ![c] = "off"]
        /\ open' = [open EXCEPT ![c] = FALSE]
        /\ reader[c] = "unregister"
        /\ reader' = [reader EXCEPT ![c] = "closeDone"]
        /\ UNCHANGED <<userID, done>>
    BY <1>2, <2>1 DEF HubUnregister, Read
  <2>3. \A d \in Conns : Listed(d)' <=> Listed(d) /\ d # c
    BY <1>2, Unlisting
  <2>4. QED
    BY <1>0, <2>2, <2>3 DEF Reading, UnregisteredIsGone, Gone
<1>3. CASE UNCHANGED <<clients, userID, authTimer, timer, open, done, reader>>
  BY <1>0, <1>3 DEF Reading, Listed, UnregisteredIsGone
<1>4. ASSUME NEW c \in Conns, ReadToken(c) PROVE Reading'
  BY <1>0, <1>4 DEF ReadToken, Read, Reading, Listed, UnregisteredIsGone, Gone,
     hubVars
<1>5. ASSUME NEW c \in Conns, StoreID(c) PROVE Reading'
  BY <1>0, <1>5 DEF StoreID, Read, Reading, Listed, UnregisteredIsGone, Gone,
     hubVars
<1>6. ASSUME NEW c \in Conns, SetAuth(c) PROVE Reading'
  BY <1>0, <1>6 DEF SetAuth, Read, Reading, Listed, UnregisteredIsGone, Gone,
     hubVars
<1>7. ASSUME NEW c \in Conns, StopAuthTimer(c) PROVE Reading'
  BY <1>0, <1>7 DEF StopAuthTimer, Read, Reading, Listed, UnregisteredIsGone,
     Gone, hubVars
<1>8. ASSUME NEW c \in Conns, Ack(c) PROVE Reading'
  BY <1>0, <1>8 DEF Ack, Read, Reading, Listed, UnregisteredIsGone, Gone,
     hubVars, clientVars
<1>9. ASSUME NEW c \in Conns, Disconnect(c) PROVE Reading'
  BY <1>0, <1>9 DEF Disconnect, Reading, Listed, UnregisteredIsGone, Gone,
     hubVars, clientVars
<1>10. ASSUME NEW c \in Conns, ReadError(c) PROVE Reading'
  BY <1>0, <1>10 DEF ReadError, Read, Reading, Listed, UnregisteredIsGone, Gone,
     hubVars, clientVars
<1>11. ASSUME NEW c \in Conns, CloseDone(c) PROVE Reading'
  BY <1>0, <1>11 DEF CloseDone, Read, Reading, Listed, UnregisteredIsGone, Gone,
     hubVars, clientVars
<1>12. ASSUME NEW c \in Conns, AuthTimerExpires(c) PROVE Reading'
  BY <1>0, <1>12 DEF AuthTimerExpires, Reading, Listed, UnregisteredIsGone, Gone,
     hubVars, connVars
<1>13. ASSUME NEW c \in Conns, TimerExpires(c) PROVE Reading'
  BY <1>0, <1>13 DEF TimerExpires, Reading, Listed, UnregisteredIsGone, Gone,
     hubVars, connVars
<1>14. ASSUME NEW c \in Conns, PumpAuthTimeout(c) PROVE Reading'
  BY <1>0, <1>14 DEF PumpAuthTimeout, Reading, Listed, UnregisteredIsGone, Gone,
     hubVars
<1>15. ASSUME NEW c \in Conns, PumpClose(c) \/ PumpWriteError(c) PROVE Reading'
  <2>1. /\ open' = [open EXCEPT ![c] = FALSE]
        /\ UNCHANGED <<clients, userID, authTimer, timer, done, reader>>
    BY <1>15 DEF PumpClose, PumpWriteError, hubVars, clientVars
  <2>2. QED
    BY <1>0, <2>1 DEF Reading, Listed, UnregisteredIsGone, Gone
<1>16. ASSUME NEW c \in Conns, PumpTimer(c) PROVE Reading'
  BY <1>0, <1>16 DEF PumpTimer, Reading, Listed, UnregisteredIsGone, Gone,
     hubVars
<1>17. ASSUME NEW c \in Conns,
              \/ PumpLoad(c) \/ PumpTake(c) \/ PumpWrite(c)
              \/ PumpClearAuth(c) \/ PumpRefresh(c) \/ PumpDone(c)
       PROVE  Reading'
  BY <1>3, <1>17 DEF PumpLoad, PumpTake, PumpWrite, PumpClearAuth, PumpRefresh,
     PumpDone, hubVars, clientVars
<1>18. ASSUME \/ \E u \in Users \cup {NoUser} : CallNotify(u)
              \/ HubNotify \/ HubCrash
       PROVE  Reading'
  BY <1>3, <1>18 DEF CallNotify, HubNotify, HubCrash, clientVars, connVars
<1> QED
  BY <1>1, <1>2, <1>4, <1>5, <1>6, <1>7, <1>8, <1>9, <1>10, <1>11, <1>12,
     <1>13, <1>14, <1>15, <1>16, <1>17, <1>18
     DEF Next, HubStep, ReaderStep, PumpStep

-----------------------------------------------------------------------------
LEMMA PumpingKept == NInv /\ Next => Pumping'
<1> SUFFICES ASSUME NInv, Next PROVE Pumping'
  OBVIOUS
<1>0. Pumping
  BY DEF NInv
<1>1. CASE UNCHANGED <<pump, snap, auth, lost, told>>
  BY <1>0, <1>1 DEF Pumping
<1>2. ASSUME NEW c \in Conns, HubRegister(c) PROVE Pumping'
  BY <1>0, <1>2 DEF HubRegister, Pump, Pumping, clientVars, history
<1>3. ASSUME NEW c \in Conns, SetAuth(c) PROVE Pumping'
  BY <1>0, <1>3 DEF SetAuth, Pumping
<1>4. ASSUME NEW c \in Conns, PumpLoad(c) PROVE Pumping'
  BY <1>0, <1>4 DEF PumpLoad, Pump, Pumping, clientVars, history
<1>5. ASSUME NEW c \in Conns, PumpAuthTimeout(c) \/ PumpTimer(c) \/ PumpDone(c)
      PROVE  Pumping'
  <2>1. PICK to \in {"closing", "clearAuth", "exited"} :
          /\ pump[c] = "select"
          /\ pump' = [pump EXCEPT ![c] = to]
          /\ snap' = [snap EXCEPT ![c] = FALSE]
          /\ UNCHANGED <<auth, lost, told>>
    BY <1>5 DEF PumpAuthTimeout, PumpTimer, PumpDone, PumpSelects, Pump,
       clientVars, history
  <2>2. QED
    BY <1>0, <2>1 DEF Pumping
<1>6. ASSUME NEW c \in Conns, PumpTake(c) PROVE Pumping'
  <2>1. /\ pump[c] = "select"
        /\ pump' = [pump EXCEPT ![c] = IF snap[c] THEN "write" ELSE "load"]
        /\ snap' = [snap EXCEPT ![c] = FALSE]
        /\ lost' = [lost EXCEPT ![c] = IF auth[c] /\ ~snap[c] THEN @ + 1 ELSE @]
        /\ UNCHANGED <<auth, told>>
    BY <1>6 DEF PumpTake, PumpSelects, Pump
  <2>2. lost'[c] \in Nat /\ lost'[c] <= 1
    BY <1>0, <2>1 DEF Pumping
  <2>3. QED
    BY <1>0, <2>1, <2>2 DEF Pumping
<1>7. ASSUME NEW c \in Conns,
             PumpClose(c) \/ PumpWrite(c) \/ PumpWriteError(c)
      PROVE  Pumping'
  <2>1. PICK to \in {"load", "exited"} :
          /\ pump[c] # "select" /\ (to = "load" => pump[c] = "write")
          /\ pump' = [pump EXCEPT ![c] = to]
          /\ UNCHANGED <<snap, auth, lost, told>>
    BY <1>7 DEF PumpClose, PumpWrite, PumpWriteError, Pump, clientVars, history
  <2>2. QED
    BY <1>0, <2>1 DEF Pumping
<1>8. ASSUME NEW c \in Conns, PumpClearAuth(c) PROVE Pumping'
  BY <1>0, <1>8 DEF PumpClearAuth, Pump, Pumping, history
<1>11. ASSUME NEW c \in Conns, PumpRefresh(c) PROVE Pumping'
  BY <1>0, <1>11 DEF PumpRefresh, Pump, Pumping, clientVars
<1>9. ASSUME NEW c \in Conns,
             \/ HubUnregister(c) \/ ReadToken(c) \/ StoreID(c)
             \/ StopAuthTimer(c) \/ Ack(c) \/ Disconnect(c) \/ ReadError(c)
             \/ CloseDone(c) \/ AuthTimerExpires(c) \/ TimerExpires(c)
      PROVE  Pumping'
  BY <1>1, <1>9 DEF HubUnregister, ReadToken, StoreID, StopAuthTimer, Ack,
     Disconnect, ReadError, CloseDone, AuthTimerExpires, TimerExpires,
     clientVars, connVars, history
<1>10. ASSUME \/ \E u \in Users \cup {NoUser} : CallNotify(u)
              \/ HubNotify \/ HubCrash
       PROVE  Pumping'
  BY <1>1, <1>10 DEF CallNotify, HubNotify, HubCrash, clientVars, connVars,
     history
<1> QED
  BY <1>2, <1>3, <1>4, <1>5, <1>6, <1>7, <1>8, <1>9, <1>10, <1>11
     DEF Next, HubStep, ReaderStep, PumpStep

-----------------------------------------------------------------------------
(* The steps that move no event.                                           *)
StreamsStay ==
  /\ UNCHANGED <<send, got, taken>>
  /\ \A d \in Conns : pump'[d] = "write" <=> pump[d] = "write"

LEMMA QuietSteps ==
  ASSUME NInv, NEW c \in Conns,
         \/ HubStep(c) \/ ReaderStep(c) \/ ReadToken(c) \/ Disconnect(c)
         \/ AuthTimerExpires(c) \/ TimerExpires(c)
         \/ PumpLoad(c) \/ PumpAuthTimeout(c) \/ PumpClose(c) \/ PumpTimer(c)
         \/ PumpClearAuth(c) \/ PumpRefresh(c) \/ PumpDone(c)
  PROVE  StreamsStay /\ UNCHANGED <<calling, events>>
<1>1. pump \in [Conns -> {"off", "load", "select", "closing", "write",
                          "clearAuth", "refresh", "exited"}]
  BY DEF NInv, Pumping
<1>2. CASE \/ HubUnregister(c) \/ ReaderStep(c) \/ ReadToken(c) \/ Disconnect(c)
           \/ AuthTimerExpires(c) \/ TimerExpires(c)
  BY <1>2 DEF HubUnregister, ReaderStep, ReadToken, StoreID, SetAuth,
     StopAuthTimer, Ack, ReadError, CloseDone, Disconnect, AuthTimerExpires,
     TimerExpires, StreamsStay, hubVars, clientVars, connVars
<1>3. CASE HubRegister(c)
  BY <1>1, <1>3 DEF HubRegister, Pump, StreamsStay, clientVars
<1>4. CASE \/ PumpLoad(c) \/ PumpAuthTimeout(c) \/ PumpClose(c) \/ PumpTimer(c)
           \/ PumpClearAuth(c) \/ PumpRefresh(c) \/ PumpDone(c)
  <2>1. UNCHANGED <<send, got, taken, calling, events>>
    BY <1>4 DEF PumpLoad, PumpAuthTimeout, PumpClose, PumpTimer, PumpClearAuth,
       PumpRefresh, PumpDone, hubVars, clientVars
  <2>2. PICK from, to \in {"load", "select", "closing", "clearAuth", "refresh",
                           "exited"} :
          pump[c] = from /\ pump' = [pump EXCEPT ![c] = to]
    BY <1>4 DEF PumpLoad, PumpAuthTimeout, PumpClose, PumpTimer, PumpClearAuth,
       PumpRefresh, PumpDone, PumpSelects, Pump
  <2>3. QED
    BY <1>1, <2>1, <2>2 DEF StreamsStay
<1> QED
  BY <1>2, <1>3, <1>4 DEF HubStep

LEMMA HubQueues ==
  ASSUME NInv, HubNotify
  PROVE  UNCHANGED send \/ \E c \in Conns :
           /\ MayMatch(c) /\ Len(send[c]) < Capacity
           /\ send' = [send EXCEPT ![c] = Append(send[c], calling)]
<1>1. ASSUME NEW k \in DOMAIN clients, MayMatch(clients[k]), QueueOrDrop(clients[k])
      PROVE  UNCHANGED send \/ \E c \in Conns :
               /\ MayMatch(c) /\ Len(send[c]) < Capacity
               /\ send' = [send EXCEPT ![c] = Append(send[c], calling)]
  <2>1. clients[k] \in Conns
    BY ElementOfSeq, LenProperties DEF NInv, Hub
  <2>2. CASE Len(send[clients[k]]) < Capacity
    BY <1>1, <2>1, <2>2 DEF QueueOrDrop
  <2>3. CASE ~(Len(send[clients[k]]) < Capacity)
    BY <1>1, <2>1, <2>3 DEF QueueOrDrop, NInv, Streams
  <2>4. QED
    BY <2>2, <2>3
<1>2. QED
  BY <1>1 DEF HubNotify

-----------------------------------------------------------------------------
(* What the steps of a stream do to it.                                    *)
LEMMA StreamBound ==
  ASSUME NEW c \in Conns, NEW top \in Int, NEW top2 \in Int, top <= top2,
         NEW w, NEW t, NEW s, NEW g, Stream(c, top, w, t, s, g)
  PROVE  Stream(c, top2, w, t, s, g)
<1>1. \A e \in Event : e.id \in Int
  BY NotifierAssumption DEF Event
<1>2. /\ \A i \in 1..Len(s) : s[i] \in Event
      /\ \A i \in 1..Len(g) : g[i] \in Event
      /\ t \in Event
  BY ElementOfSeq DEF Stream
<1> QED
  BY <1>1, <1>2 DEF Stream

LEMMA StreamQueue ==
  ASSUME NEW c \in Conns, NEW top \in Int, NEW w, NEW t, NEW s, NEW g,
         Stream(c, top, w, t, s, g), Len(s) < Capacity,
         NEW e \in Event, e.id = top + 1, Mine(c, e)
  PROVE  Stream(c, top + 1, w, t, Append(s, e), g)
<1> DEFINE q == Append(s, e)
<1>1. /\ q \in Seq(Event) /\ Len(q) = Len(s) + 1 /\ Len(s) \in Nat
      /\ \A i \in 1..Len(s) : q[i] = s[i]
      /\ q[Len(s) + 1] = e
  BY AppendProperties, LenProperties DEF Stream
<1> HIDE DEF q
<1>2. /\ \A i \in 1..Len(s) : s[i] \in Event /\ s[i].id \in Int
      /\ \A i \in 1..Len(g) : g[i] \in Event /\ g[i].id \in Int
      /\ t.id \in Int
  <2>1. \A x \in Event : x.id \in Int
    BY NotifierAssumption DEF Event
  <2>2. s \in Seq(Event) /\ g \in Seq(Event) /\ t \in Event
    BY DEF Stream
  <2>3. QED
    BY <2>1, <2>2, ElementOfSeq
<1>3. ASSUME NEW i \in 1..Len(q)
      PROVE  (i \in 1..Len(s) /\ q[i] = s[i]) \/ (i = Len(s) + 1 /\ q[i] = e)
  BY <1>1
<1>4. Sorted(q)
  <2> SUFFICES ASSUME NEW i \in 1..Len(q), NEW j \in 1..Len(q), i < j
               PROVE  q[i].id < q[j].id
    BY DEF Sorted
  <2>1. i \in 1..Len(s) /\ q[i] = s[i]
    BY <1>1
  <2>2. CASE j \in 1..Len(s) /\ q[j] = s[j]
    BY <2>1, <2>2 DEF Stream, Sorted
  <2>3. CASE q[j] = e
    BY <2>1, <2>3, <1>2 DEF Stream
  <2>4. QED
    BY <1>3, <2>2, <2>3
<1>5. \A j \in 1..Len(q) : q[j].id <= top + 1 /\ Mine(c, q[j])
  BY <1>2, <1>3 DEF Stream
<1>6. \A i \in 1..Len(g), j \in 1..Len(q) : g[i].id < q[j].id
  BY <1>2, <1>3 DEF Stream
<1>7. w => \A j \in 1..Len(q) : t.id < q[j].id
  BY <1>2, <1>3 DEF Stream
<1>8. \A i \in 1..Len(g) : g[i].id <= top + 1
  BY <1>2 DEF Stream
<1>9. w => t.id <= top + 1
  BY <1>2 DEF Stream
<1>10. Len(q) <= Capacity
  BY <1>1, NotifierAssumption
<1>11. Stream(c, top + 1, w, t, q, g)
  BY <1>1, <1>4, <1>5, <1>6, <1>7, <1>8, <1>9, <1>10 DEF Stream
<1> QED
  BY <1>11 DEF q

LEMMA StreamTake ==
  ASSUME NEW c \in Conns, NEW top \in Int, NEW w, NEW t, NEW s, NEW g,
         Stream(c, top, w, t, s, g), s # <<>>
  PROVE  /\ Stream(c, top, TRUE, Head(s), Tail(s), g)
         /\ Stream(c, top, FALSE, NoEvent, Tail(s), g)
<1> DEFINE q == Tail(s)
<1>1. /\ q \in Seq(Event) /\ Len(q) = Len(s) - 1
      /\ \A i \in 1..Len(q) : q[i] = s[i + 1]
      /\ Head(s) = s[1] /\ Head(s) \in Event
      /\ Len(s) \in Nat \ {0}
  BY HeadTailProperties, LenProperties, EmptySeq DEF Stream
<1> HIDE DEF q
<1>2. 1 \in 1..Len(s)
  BY <1>1
<1>3. ASSUME NEW i \in 1..Len(q)
      PROVE  i + 1 \in 1..Len(s) /\ 1 < i + 1 /\ q[i] = s[i + 1]
  BY <1>1
<1>4. Sorted(q)
  <2> SUFFICES ASSUME NEW i \in 1..Len(q), NEW j \in 1..Len(q), i < j
               PROVE  q[i].id < q[j].id
    BY DEF Sorted
  <2>1. i + 1 < j + 1
    OBVIOUS
  <2>2. QED
    BY <1>3, <2>1 DEF Stream, Sorted
<1>5. /\ \A j \in 1..Len(q) : q[j].id <= top /\ Mine(c, q[j])
      /\ \A i \in 1..Len(g), j \in 1..Len(q) : g[i].id < q[j].id
  BY <1>3 DEF Stream
<1>6. /\ Head(s).id <= top /\ Mine(c, Head(s))
      /\ \A i \in 1..Len(g) : g[i].id < Head(s).id
  BY <1>1, <1>2 DEF Stream
<1>7. \A j \in 1..Len(q) : Head(s).id < q[j].id
  BY <1>1, <1>2, <1>3 DEF Stream, Sorted
<1>8. Len(q) <= Capacity
  BY <1>1, NotifierAssumption DEF Stream
<1>9. NoEvent \in Event
  BY NotifierAssumption DEF NoEvent, Event
<1>10. /\ g \in Seq(Event) /\ Sorted(g)
       /\ \A i \in 1..Len(g) : g[i].id <= top /\ Mine(c, g[i])
  BY DEF Stream
<1>11. Stream(c, top, TRUE, Head(s), q, g) /\ Stream(c, top, FALSE, NoEvent, q, g)
  BY <1>1, <1>4, <1>5, <1>6, <1>7, <1>8, <1>9, <1>10 DEF Stream
<1> QED
  BY <1>11 DEF q

LEMMA StreamWrite ==
  ASSUME NEW c \in Conns, NEW top \in Int, NEW t, NEW s, NEW g,
         Stream(c, top, TRUE, t, s, g)
  PROVE  /\ Stream(c, top, FALSE, NoEvent, s, Append(g, t))
         /\ Stream(c, top, FALSE, NoEvent, s, g)
<1> DEFINE q == Append(g, t)
<1>1. /\ q \in Seq(Event) /\ Len(q) = Len(g) + 1 /\ Len(g) \in Nat
      /\ \A i \in 1..Len(g) : q[i] = g[i]
      /\ q[Len(g) + 1] = t
  BY AppendProperties, LenProperties DEF Stream
<1> HIDE DEF q
<1>2. NoEvent \in Event
  BY NotifierAssumption DEF NoEvent, Event
<1>3. ASSUME NEW i \in 1..Len(q)
      PROVE  (i \in 1..Len(g) /\ q[i] = g[i]) \/ (i = Len(g) + 1 /\ q[i] = t)
  BY <1>1
<1>4. Sorted(q)
  <2> SUFFICES ASSUME NEW i \in 1..Len(q), NEW j \in 1..Len(q), i < j
               PROVE  q[i].id < q[j].id
    BY DEF Sorted
  <2>1. i \in 1..Len(g) /\ q[i] = g[i]
    BY <1>1
  <2>2. CASE j \in 1..Len(g) /\ q[j] = g[j]
    BY <2>1, <2>2 DEF Stream, Sorted
  <2>3. CASE q[j] = t
    BY <2>1, <2>3 DEF Stream
  <2>4. QED
    BY <1>3, <2>2, <2>3
<1>5. /\ \A i \in 1..Len(q) : q[i].id <= top /\ Mine(c, q[i])
      /\ \A i \in 1..Len(q), j \in 1..Len(s) : q[i].id < s[j].id
  BY <1>3 DEF Stream
<1>6. Stream(c, top, FALSE, NoEvent, s, q)
  BY <1>1, <1>2, <1>4, <1>5 DEF Stream
<1>7. Stream(c, top, FALSE, NoEvent, s, g)
  BY <1>2 DEF Stream
<1> QED
  BY <1>6, <1>7 DEF q

LEMMA StreamsKept == NInv /\ Next => Streams'
<1> SUFFICES ASSUME NInv, Next PROVE Streams'
  OBVIOUS
<1> USE NotifierAssumption
<1>0. Streams /\ Hub /\ Pumping /\ Top \in Int /\ events \in Int
  BY DEF NInv, Hub, Top
<1>1. NoEvent \in Event
  BY DEF NoEvent, Event
<1>2. CASE StreamsStay /\ UNCHANGED <<calling, events>>
  <2>1. ASSUME NEW d \in Conns
        PROVE  Stream(d, Top', pump'[d] = "write", taken'[d], send'[d], got'[d])
    <3>1. CASE pump[d] = "write"
      BY <1>0, <1>2, <3>1 DEF StreamsStay, Streams, Top
    <3>2. CASE pump[d] # "write"
      BY <1>0, <1>2, <3>2 DEF StreamsStay, Streams, Top, Stream
    <3>3. QED
      BY <3>1, <3>2
  <2>2. QED
    BY <1>0, <1>2, <2>1 DEF StreamsStay, Streams
<1>3. ASSUME NEW u \in Users \cup {NoUser}, CallNotify(u) PROVE Streams'
  <2>1. /\ UNCHANGED <<send, got, taken, pump>>
        /\ calling = NoEvent /\ events' = events + 1
        /\ calling' = [id |-> events + 1, to |-> u]
    BY <1>3 DEF CallNotify, clientVars, connVars
  <2>2. Top' = Top
    BY <1>0, <2>1 DEF Top, NoEvent, Hub
  <2>3. QED
    BY <1>0, <2>1, <2>2 DEF Streams
<1>4. CASE HubNotify
  <2>1. /\ UNCHANGED <<got, taken, pump, events>> /\ calling # NoEvent
        /\ calling' = NoEvent /\ calling.id = Top + 1 /\ Top' = Top + 1
        /\ calling \in Event
    BY <1>0, <1>4 DEF HubNotify, connVars, Top, Hub
  <2>2. ASSUME NEW d \in Conns
        PROVE  Stream(d, Top', pump[d] = "write", taken[d], send[d], got[d])
    BY <1>0, <2>1, StreamBound DEF Streams
  <2>3. CASE UNCHANGED send
    BY <1>0, <2>1, <2>2, <2>3 DEF Streams
  <2>4. ASSUME NEW c \in Conns, MayMatch(c), Len(send[c]) < Capacity,
               send' = [send EXCEPT ![c] = Append(send[c], calling)]
        PROVE  Streams'
    <3>1. Mine(c, calling)
      <4>1. userID[c] \in {NoUser, Torn, Identity[c]}
        BY DEF NInv, Reading
      <4>2. calling.to \in Users \cup {NoUser}
        BY <2>1 DEF Event
      <4>3. QED
        BY <4>1, <4>2, <2>4 DEF Mine, MayMatch
    <3>2. Stream(c, Top', pump[c] = "write", taken[c],
                 Append(send[c], calling), got[c])
      BY <1>0, <2>1, <2>4, <3>1, StreamQueue DEF Streams
    <3>3. Append(send[c], calling) \in Seq(Event)
      BY <3>2 DEF Stream
    <3>4. QED
      BY <1>0, <2>1, <2>2, <2>4, <3>2, <3>3 DEF Streams
  <2>5. UNCHANGED send \/ \E c \in Conns :
          /\ MayMatch(c) /\ Len(send[c]) < Capacity
          /\ send' = [send EXCEPT ![c] = Append(send[c], calling)]
    BY <1>0, <1>4, HubQueues
  <2>6. QED
    BY <2>3, <2>4, <2>5
<1>5. ASSUME NEW c \in Conns, PumpTake(c) PROVE Streams'
  <2>1. /\ send[c] # <<>>
        /\ pump' = [pump EXCEPT ![c] = IF snap[c] THEN "write" ELSE "load"]
        /\ taken' = [taken EXCEPT ![c] = IF snap[c] THEN Head(send[c]) ELSE NoEvent]
        /\ send' = [send EXCEPT ![c] = Tail(send[c])]
        /\ UNCHANGED <<got, calling, events>>
    BY <1>5 DEF PumpTake, PumpSelects, Pump, hubVars
  <2>2. /\ Stream(c, Top, TRUE, Head(send[c]), Tail(send[c]), got[c])
        /\ Stream(c, Top, FALSE, NoEvent, Tail(send[c]), got[c])
    BY <1>0, <2>1, StreamTake DEF Streams
  <2>3. Tail(send[c]) \in Seq(Event) /\ Head(send[c]) \in Event
    BY <2>2 DEF Stream
  <2>4. Top' = Top
    BY <2>1 DEF Top
  <2>5. CASE snap[c]
    <3>1. /\ pump'[c] = "write" /\ taken'[c] = Head(send[c])
          /\ send'[c] = Tail(send[c])
      BY <1>0, <2>1, <2>5 DEF Streams, Pumping
    <3>2. (pump'[c] = "write") = TRUE
      BY <3>1
    <3>3. QED
      BY <1>0, <1>1, <2>1, <2>2, <2>3, <2>4, <3>1, <3>2 DEF Streams, Pumping
  <2>6. CASE ~snap[c]
    <3>1. /\ pump'[c] = "load" /\ taken'[c] = NoEvent
          /\ send'[c] = Tail(send[c])
      BY <1>0, <2>1, <2>6 DEF Streams, Pumping
    <3>2. (pump'[c] = "write") = FALSE
      BY <3>1
    <3>3. QED
      BY <1>0, <1>1, <2>1, <2>2, <2>3, <2>4, <3>1, <3>2 DEF Streams, Pumping
  <2>7. QED
    BY <2>5, <2>6
<1>6. ASSUME NEW c \in Conns, PumpWrite(c) \/ PumpWriteError(c) PROVE Streams'
  <2>1. PICK to \in {"load", "exited"}, g \in {got[c], Append(got[c], taken[c])} :
          /\ pump[c] = "write" \/ g = got[c]
          /\ pump' = [pump EXCEPT ![c] = to]
          /\ taken' = [taken EXCEPT ![c] = NoEvent]
          /\ got' = [got EXCEPT ![c] = g]
          /\ UNCHANGED <<send, calling, events>>
    <3>1. CASE PumpWrite(c)
      BY <3>1 DEF PumpWrite, Pump, hubVars, clientVars
    <3>2. CASE PumpWriteError(c)
      BY <1>0, <3>2 DEF PumpWriteError, hubVars, clientVars, Streams
    <3>3. QED
      BY <1>6, <3>1, <3>2
  <2>2. Stream(c, Top, FALSE, NoEvent, send[c], g)
    <3>1. CASE pump[c] = "write"
      <4>1. (pump[c] = "write") = TRUE
        BY <3>1
      <4>2. Stream(c, Top, TRUE, taken[c], send[c], got[c])
        BY <1>0, <4>1 DEF Streams
      <4>3. QED
        BY <1>0, <4>2, StreamWrite
    <3>2. CASE pump[c] # "write"
      <4>1. g = got[c] /\ Stream(c, Top, pump[c] = "write", taken[c], send[c], got[c])
        BY <1>0, <2>1, <3>2 DEF Streams
      <4>2. QED
        BY <1>1, <4>1 DEF Stream
    <3>3. QED
      BY <3>1, <3>2
  <2>3. g \in Seq(Event)
    BY <2>2 DEF Stream
  <2>4. Top' = Top
    BY <2>1 DEF Top
  <2>5. /\ (pump'[c] = "write") = FALSE /\ taken'[c] = NoEvent /\ got'[c] = g
    BY <1>0, <2>1 DEF Streams, Pumping
  <2>6. QED
    BY <1>0, <1>1, <2>1, <2>2, <2>3, <2>4, <2>5 DEF Streams, Pumping
<1>7. ASSUME NEW c \in Conns,
             \/ HubStep(c) \/ ReaderStep(c) \/ ReadToken(c) \/ Disconnect(c)
             \/ AuthTimerExpires(c) \/ TimerExpires(c)
             \/ PumpLoad(c) \/ PumpAuthTimeout(c) \/ PumpClose(c) \/ PumpTimer(c)
             \/ PumpClearAuth(c) \/ PumpRefresh(c) \/ PumpDone(c)
      PROVE  Streams'
  BY <1>2, <1>7, QuietSteps
<1>8. CASE HubCrash
  BY <1>2, <1>8 DEF HubCrash, StreamsStay, clientVars, connVars
<1> QED
  BY <1>3, <1>4, <1>5, <1>6, <1>7, <1>8 DEF Next, PumpStep

-----------------------------------------------------------------------------
LEMMA NInvStep == NInv /\ [Next]_vars => NInv'
<1>1. NInv /\ Next => NInv'
  BY HubKept, ReadingKept, PumpingKept, StreamsKept DEF NInv
<1>2. NInv /\ UNCHANGED vars => NInv'
  <2> SUFFICES ASSUME NInv, UNCHANGED vars PROVE NInv'
    OBVIOUS
  <2>1. Hub' /\ Reading'
    BY DEF NInv, Hub, Reading, Listed, UnregisteredIsGone, vars, hubVars,
       clientVars, connVars, history
  <2>2. UNCHANGED <<pump, snap, auth, lost, told, send, got, taken, calling, events>>
    BY DEF vars, hubVars, clientVars, connVars, history
  <2>3. Pumping'
    BY <2>2 DEF NInv, Pumping
  <2>4. Top' = Top
    BY <2>2 DEF Top
  <2>5. Streams'
    BY <2>2, <2>4 DEF NInv, Streams
  <2>6. QED
    BY <2>1, <2>3, <2>5 DEF NInv
<1> QED
  BY <1>1, <1>2

(* NInv holds in every reachable state of the hub, its clients and pumps.  *)
THEOREM NotifierInvariant == Spec => []NInv
  BY InitNInv, NInvStep, PTL DEF Spec

(* Every variable keeps its type, a client is listed at most once, and no  *)
(* channel holds more than its capacity.                                   *)
THEOREM NotifierTyping == Spec => []TypeOK
<1>1. NInv => TypeOK
  <2> SUFFICES ASSUME NInv PROVE TypeOK
    OBVIOUS
  <2>1. \A c \in Conns : Len(send[c]) <= Capacity
    BY DEF NInv, Streams, Stream
  <2>2. QED
    BY <2>1 DEF NInv, Hub, Reading, Pumping, Streams, TypeOK
<1> QED
  BY <1>1, NotifierInvariant, PTL

(* However the timer, the tokens and the pump race: what WritePump writes   *)
(* goes to a client whose flag is set, and a client whose flag is not set   *)
(* was asked for a token since, is about to be, or has no pump any more.    *)
THEOREM AccessWindowHolds == Spec => []AccessWindow
<1>1. NInv => AccessWindow
  BY DEF NInv, Pumping, AccessWindow
<1> QED
  BY <1>1, NotifierInvariant, PTL

(* A handler past Unregister has left nothing behind.                      *)
THEOREM UnregisteredIsGoneHolds == Spec => []UnregisteredIsGone
<1>1. NInv => UnregisteredIsGone
  BY DEF NInv, Reading
<1> QED
  BY <1>1, NotifierInvariant, PTL

(* One token costs at most one event to an old copy of isAuthenticated.    *)
THEOREM LosesAtMostOneHolds == Spec => []LosesAtMostOne
<1>1. NInv => LosesAtMostOne
  BY DEF NInv, Pumping, LosesAtMostOne
<1> QED
  BY <1>1, NotifierInvariant, PTL

-----------------------------------------------------------------------------
(* The sequences of InOrderToReceiver and of the refinement mapping.       *)
Held(c) == IF pump[c] = "write" THEN <<taken[c]>> ELSE <<>>

LEMMA Singleton ==
  ASSUME NEW S, NEW e \in S
  PROVE  <<e>> \in Seq(S) /\ Len(<<e>>) = 1 /\ <<e>>[1] = e
  OBVIOUS

LEMMA ConsProperties ==
  ASSUME NEW S, NEW e \in S, NEW s \in Seq(S)
  PROVE  /\ <<e>> \o s \in Seq(S) /\ <<e>> \o s # <<>>
         /\ Head(<<e>> \o s) = e /\ Tail(<<e>> \o s) = s
<1> DEFINE q == <<e>> \o s
<1>1. /\ q \in Seq(S) /\ Len(q) = 1 + Len(s) /\ q[1] = e
      /\ \A i \in 1..Len(s) : q[i + 1] = s[i]
      /\ Len(s) \in Nat
  <2>1. Len(s) \in Nat
    BY LenProperties
  <2>2. /\ q \in Seq(S) /\ Len(q) = 1 + Len(s)
        /\ \A i \in 1..(1 + Len(s)) : q[i] = IF i <= 1 THEN <<e>>[i] ELSE s[i - 1]
    BY Singleton, ConcatProperties
  <2> HIDE DEF q
  <2>3. q[1] = e
    BY <2>1, <2>2, Singleton
  <2>4. ASSUME NEW i \in 1..Len(s) PROVE q[i + 1] = s[i]
    <3>1. i + 1 \in 1..(1 + Len(s)) /\ ~(i + 1 <= 1) /\ (i + 1) - 1 = i
      BY <2>1
    <3>2. QED
      BY <2>2, <3>1
  <2>5. QED
    BY <2>1, <2>2, <2>3, <2>4
<1> HIDE DEF q
<1>2. q # <<>>
  BY <1>1, EmptySeq
<1>3. Head(q) = e
  BY <1>1, <1>2, HeadTailProperties
<1>4. Tail(q) = s
  <2>1. /\ Tail(q) \in Seq(S) /\ Len(Tail(q)) = Len(s)
        /\ \A i \in 1..Len(s) : Tail(q)[i] = q[i + 1]
    BY <1>1, <1>2, HeadTailProperties
  <2>2. QED
    BY <1>1, <2>1, SeqEqual
<1>5. QED
  BY <1>1, <1>2, <1>3, <1>4 DEF q

LEMMA ConsHeadTail ==
  ASSUME NEW S, NEW s \in Seq(S), s # <<>>
  PROVE  <<Head(s)>> \o Tail(s) = s
<1> DEFINE q == <<Head(s)>> \o Tail(s)
<1>1. Head(s) \in S /\ Tail(s) \in Seq(S)
  BY HeadTailProperties
<1>2. /\ q \in Seq(S) /\ q # <<>>
      /\ Head(q) = Head(s) /\ Tail(q) = Tail(s)
  BY <1>1, ConsProperties
<1> HIDE DEF q
<1>3. /\ Len(q) = Len(s) /\ Len(s) \in Nat \ {0}
      /\ q[1] = s[1]
      /\ \A i \in 1..(Len(s) - 1) : q[i + 1] = s[i + 1]
  <2>1. /\ Len(Tail(s)) = Len(s) - 1 /\ Len(Tail(q)) = Len(q) - 1
        /\ \A i \in 1..Len(Tail(s)) : Tail(s)[i] = s[i + 1]
        /\ \A i \in 1..Len(Tail(q)) : Tail(q)[i] = q[i + 1]
    BY <1>2, HeadTailProperties
  <2>2. Len(s) \in Nat \ {0} /\ Len(q) \in Nat \ {0}
    BY <1>2, LenProperties, EmptySeq
  <2>3. Head(s) = s[1] /\ Head(q) = q[1]
    OBVIOUS
  <2>4. Len(q) = Len(s)
    <3>1. Len(Tail(q)) = Len(Tail(s))
      BY <1>2
    <3>2. QED
      BY <2>1, <2>2, <3>1
  <2>5. ASSUME NEW i \in 1..(Len(s) - 1) PROVE q[i + 1] = s[i + 1]
    <3>1. i \in 1..Len(Tail(s)) /\ i \in 1..Len(Tail(q))
      BY <1>2, <2>1
    <3>2. Tail(s)[i] = s[i + 1] /\ Tail(q)[i] = q[i + 1]
      BY <2>1, <3>1
    <3>3. QED
      BY <1>2, <3>2
  <2>6. QED
    BY <1>2, <2>2, <2>3, <2>4, <2>5
<1>4. ASSUME NEW i \in 1..Len(s) PROVE q[i] = s[i]
  <2>1. CASE i = 1
    BY <2>1, <1>3
  <2>2. CASE i # 1
    <3>1. i - 1 \in 1..(Len(s) - 1) /\ (i - 1) + 1 = i
      BY <2>2, <1>3
    <3>2. QED
      BY <1>3, <3>1
  <2>3. QED
    BY <2>1, <2>2
<1>5. q = s
  BY <1>2, <1>3, <1>4, SeqEqual
<1> QED
  BY <1>5 DEF q

LEMMA HeldProperties ==
  ASSUME NInv, NEW c \in Conns
  PROVE  Held(c) \in Seq(Event) /\ send[c] \in Seq(Event) /\ got[c] \in Seq(Event)
<1>1. <<>> \in Seq(Event) /\ <<taken[c]>> \in Seq(Event)
  BY EmptySeq, Singleton DEF NInv, Streams
<1> QED
  BY <1>1 DEF NInv, Streams, Held

(* What reaches a client is meant for its user, once and in order.         *)
THEOREM InOrderToReceiverHolds == Spec => []InOrderToReceiver
<1>1. ASSUME NInv PROVE InOrderToReceiver
  <2> SUFFICES ASSUME NEW c \in Conns
               PROVE  LET stream == got[c] \o Held(c) \o send[c]
                      IN /\ \A i \in DOMAIN stream :
                              stream[i].to \in {Identity[c], NoUser}
                         /\ \A i, j \in DOMAIN stream :
                              i < j => stream[i].id < stream[j].id
    BY DEF InOrderToReceiver, Held
  <2> DEFINE g == got[c]
             h == Held(c)
             w == send[c]
             gh == g \o h
             all == gh \o w
  <2>1. /\ g \in Seq(Event) /\ h \in Seq(Event) /\ w \in Seq(Event)
        /\ Len(g) \in Nat /\ Len(h) \in Nat /\ Len(w) \in Nat
    BY <1>1, HeldProperties, LenProperties
  <2>2. Stream(c, Top, pump[c] = "write", taken[c], w, g)
    BY <1>1 DEF NInv, Streams
  <2>3. /\ \A i \in 1..Len(h) : h[i].to \in {Identity[c], NoUser}
        /\ \A i \in 1..Len(h), j \in 1..Len(g) : g[j].id < h[i].id
        /\ \A i \in 1..Len(h), j \in 1..Len(w) : h[i].id < w[j].id
        /\ Len(h) <= 1
    <3>1. CASE pump[c] = "write"
      <4>1. h = <<taken[c]>> /\ Len(h) = 1 /\ h[1] = taken[c]
        BY <3>1 DEF Held
      <4>2. QED
        BY <2>2, <3>1, <4>1 DEF Stream, Mine
    <3>2. CASE pump[c] # "write"
      <4>1. Len(h) = 0
        BY <3>2, EmptySeq DEF Held
      <4>2. QED
        BY <4>1
    <3>3. QED
      BY <3>1, <3>2
  <2>4. /\ \A i \in 1..Len(g) : g[i].to \in {Identity[c], NoUser}
        /\ \A i \in 1..Len(w) : w[i].to \in {Identity[c], NoUser}
        /\ \A i, j \in 1..Len(g) : i < j => g[i].id < g[j].id
        /\ \A i, j \in 1..Len(w) : i < j => w[i].id < w[j].id
        /\ \A i \in 1..Len(g), j \in 1..Len(w) : g[i].id < w[j].id
    BY <2>2 DEF Stream, Sorted, Mine
  <2> HIDE DEF g, h, w
  <2>5. /\ gh \in Seq(Event) /\ Len(gh) = Len(g) + Len(h)
        /\ \A i \in 1..(Len(g) + Len(h)) :
             gh[i] = IF i <= Len(g) THEN g[i] ELSE h[i - Len(g)]
    BY <2>1, ConcatProperties
  <2> HIDE DEF gh
  <2> Len(gh) \in Nat
    BY <2>1, <2>5
  <2>6. /\ all \in Seq(Event) /\ Len(all) = Len(gh) + Len(w)
        /\ \A i \in 1..(Len(gh) + Len(w)) :
             all[i] = IF i <= Len(gh) THEN gh[i] ELSE w[i - Len(gh)]
    BY <2>1, <2>5, ConcatProperties
  <2>7. DOMAIN all = 1..Len(all) /\ Len(all) \in Nat
    BY <2>6, LenProperties
  <2> HIDE DEF all
  <2>8. ASSUME NEW i \in 1..Len(all)
        PROVE  \/ i \in 1..Len(g) /\ all[i] = g[i]
               \/ /\ i - Len(g) \in 1..Len(h) /\ all[i] = h[i - Len(g)]
                  /\ i > Len(g) /\ i <= Len(gh)
               \/ /\ i - Len(gh) \in 1..Len(w) /\ all[i] = w[i - Len(gh)]
                  /\ i > Len(gh)
    <3>1. CASE i <= Len(g)
      <4>1. i \in 1..Len(gh) /\ i \in 1..Len(g)
        BY <2>1, <2>5, <3>1
      <4>2. QED
        BY <2>1, <2>5, <2>6, <4>1, <3>1
    <3>2. CASE i > Len(g) /\ i <= Len(gh)
      <4>1. i - Len(g) \in 1..Len(h) /\ ~(i <= Len(g)) /\ i \in 1..(Len(g) + Len(h))
        BY <2>1, <2>5, <3>2
      <4>2. gh[i] = h[i - Len(g)]
        BY <2>5, <4>1
      <4>3. all[i] = gh[i]
        BY <2>6, <3>2
      <4>4. QED
        BY <3>2, <4>1, <4>2, <4>3
    <3>3. CASE i > Len(gh)
      <4>1. i - Len(gh) \in 1..Len(w) /\ ~(i <= Len(gh)) /\ i \in 1..(Len(gh) + Len(w))
        BY <2>1, <2>5, <2>6, <3>3
      <4>2. QED
        BY <2>6, <4>1, <3>3
    <3>4. QED
      BY <2>1, <2>5, <3>1, <3>2, <3>3
  <2>9. \A i \in 1..Len(all) : all[i].to \in {Identity[c], NoUser}
    BY <2>3, <2>4, <2>8
  <2>10. ASSUME NEW i \in 1..Len(all), NEW j \in 1..Len(all), i < j
         PROVE  all[i].id < all[j].id
    <3>1. CASE i \in 1..Len(g) /\ all[i] = g[i]
      <4>1. CASE j \in 1..Len(g) /\ all[j] = g[j]
        BY <2>4, <2>10, <3>1, <4>1
      <4>2. CASE j - Len(g) \in 1..Len(h) /\ all[j] = h[j - Len(g)]
        BY <2>3, <3>1, <4>2
      <4>3. CASE j - Len(gh) \in 1..Len(w) /\ all[j] = w[j - Len(gh)]
        BY <2>4, <3>1, <4>3
      <4>4. QED
        BY <2>8, <4>1, <4>2, <4>3
    <3>2. CASE /\ i - Len(g) \in 1..Len(h) /\ all[i] = h[i - Len(g)]
               /\ i > Len(g) /\ i <= Len(gh)
      <4>1. i = Len(g) + 1 /\ Len(h) <= 1 /\ Len(h) \in Nat /\ Len(gh) = i
        <5>1. Len(h) <= 1 /\ Len(gh) = Len(g) + Len(h) /\ Len(h) \in Nat
          BY <2>1, <2>3, <2>5
        <5>2. i > Len(g) /\ i <= Len(gh) /\ i \in Int /\ Len(g) \in Int
          BY <2>1, <2>7, <3>2
        <5>3. QED
          BY <5>1, <5>2
      <4>2. j > Len(gh) /\ j - Len(gh) \in 1..Len(w) /\ all[j] = w[j - Len(gh)]
        <5>1. ~(j \in 1..Len(g)) /\ ~(j - Len(g) \in 1..Len(h))
          BY <2>1, <2>7, <2>10, <4>1
        <5>2. /\ j - Len(gh) \in 1..Len(w) /\ all[j] = w[j - Len(gh)]
              /\ j > Len(gh)
          BY <2>8, <5>1
        <5>3. QED
          BY <5>2
      <4>3. QED
        BY <2>3, <3>2, <4>2
    <3>3. CASE i - Len(gh) \in 1..Len(w) /\ all[i] = w[i - Len(gh)] /\ i > Len(gh)
      <4>1. j > Len(gh) /\ j - Len(gh) \in 1..Len(w) /\ all[j] = w[j - Len(gh)]
        <5>1. j > Len(gh) /\ ~(j <= Len(gh)) /\ j \in 1..(Len(gh) + Len(w))
          BY <2>1, <2>5, <2>6, <2>10, <3>3
        <5>2. j - Len(gh) \in 1..Len(w)
          BY <2>1, <2>5, <2>6, <5>1
        <5>3. QED
          BY <2>6, <5>1, <5>2
      <4>2. i - Len(gh) < j - Len(gh)
        BY <2>1, <2>5, <2>10
      <4>3. QED
        BY <2>4, <3>3, <4>1, <4>2
    <3>4. QED
      BY <2>8, <3>1, <3>2, <3>3
  <2>11. all = got[c] \o Held(c) \o send[c]
    BY DEF all, gh, g, h, w
  <2>12. QED
    BY <2>7, <2>9, <2>10, <2>11
<1> QED
  BY <1>1, NotifierInvariant, PTL

-----------------------------------------------------------------------------
(* The refinement.                                                         *)
Waiting == [c \in Conns |-> Held(c) \o send[c]]

LEMMA WaitingProperties ==
  ASSUME NInv, NEW c \in Conns
  PROVE  /\ Waiting[c] \in Seq(Event)
         /\ pump[c] # "write" => Waiting[c] = send[c]
         /\ pump[c] = "write" => /\ Waiting[c] # <<>>
                                 /\ Head(Waiting[c]) = taken[c]
                                 /\ Tail(Waiting[c]) = send[c]
<1>1. Held(c) \in Seq(Event) /\ send[c] \in Seq(Event)
  BY HeldProperties
<1>2. Waiting[c] = Held(c) \o send[c]
  BY DEF Waiting
<1>3. Waiting[c] \in Seq(Event)
  BY <1>1, <1>2, ConcatProperties
<1>4. CASE pump[c] # "write"
  <2>1. Held(c) = <<>>
    BY <1>4 DEF Held
  <2>2. QED
    BY <1>1, <1>2, <1>3, <1>4, <2>1, ConcatEmptySeq
<1>5. CASE pump[c] = "write"
  <2>1. Held(c) = <<taken[c]>> /\ taken[c] \in Event
    BY <1>5 DEF Held, NInv, Streams
  <2>2. QED
    BY <1>1, <1>2, <1>3, <1>5, <2>1, ConsProperties
<1> QED
  BY <1>4, <1>5

LEMMA WaitingPrimed ==
  ASSUME NInv', NEW c \in Conns, pump'[c] # "write"
  PROVE  Waiting'[c] = send'[c]
<1>1. Waiting'[c] = <<>> \o send'[c] /\ send'[c] \in Seq(Event)
  BY DEF Waiting, Held, NInv, Streams
<1> QED
  BY <1>1, ConcatEmptySeq

LEMMA AppendRight ==
  ASSUME NEW S, NEW s \in Seq(S), NEW t \in Seq(S), NEW e \in S
  PROVE  s \o Append(t, e) = Append(s \o t, e)
<1>1. <<e>> \in Seq(S) /\ s \o t \in Seq(S)
  BY Singleton, ConcatProperties
<1>2. Append(t, e) = t \o <<e>> /\ Append(s \o t, e) = (s \o t) \o <<e>>
  BY <1>1, AppendIsConcat
<1> QED
  BY <1>1, <1>2, ConcatAssociative

LEMMA WaitingIsFunction ==
  /\ Waiting = [c \in Conns |->
                 (IF pump[c] = "write" THEN <<taken[c]>> ELSE <<>>) \o send[c]]
  /\ \A c \in Conns : \A q :
       /\ Waiting'[c] = q
       /\ \A d \in Conns \ {c} : Waiting'[d] = Waiting[d]
       => Waiting' = [Waiting EXCEPT ![c] = q]
  BY DEF Waiting, Held

(* Steps that move no event leave the queues of the abstraction alone.     *)
LEMMA StayWaiting == StreamsStay => Waiting' = Waiting
  BY DEF StreamsStay, Waiting, Held

LEMMA NotifierStepRefines ==
  ASSUME NInv, NInv', Next
  PROVE  D!Next \/ UNCHANGED <<calling, events, Waiting, got>>
<1> USE NotifierAssumption
<1>0. /\ Streams /\ Hub /\ Pumping
      /\ D!NoEvent = NoEvent
  BY DEF NInv, D!NoEvent, NoEvent
<1>1. ASSUME NEW u \in Users \cup {NoUser}, CallNotify(u) PROVE D!Next
  <2>1. /\ calling = NoEvent /\ calling' = [id |-> events + 1, to |-> u]
        /\ events' = events + 1 /\ UNCHANGED got /\ Waiting' = Waiting
    BY <1>1 DEF CallNotify, clientVars, connVars, Waiting, Held
  <2>2. D!Call(u)
    BY <1>0, <2>1, WaitingIsFunction DEF D!Call, Waiting, Held
  <2>3. QED
    BY <2>2 DEF D!Next
<1>2. CASE HubNotify
  <2>1. /\ UNCHANGED <<got, taken, pump, events>> /\ calling # NoEvent
        /\ calling' = NoEvent /\ calling \in Event
    BY <1>0, <1>2 DEF HubNotify, connVars, Hub
  <2>2. CASE UNCHANGED send
    <3>1. Waiting' = Waiting
      BY <2>1, <2>2 DEF Waiting, Held
    <3>2. D!Drop
      BY <1>0, <2>1, <3>1 DEF D!Drop, Waiting, Held
    <3>3. QED
      BY <3>2 DEF D!Next
  <2>3. ASSUME NEW c \in Conns, MayMatch(c),
               send' = [send EXCEPT ![c] = Append(send[c], calling)]
        PROVE  D!Next
    <3>1. calling.to \in {Identity[c], NoUser}
      <4>1. userID[c] \in {NoUser, Torn, Identity[c]}
        BY DEF NInv, Reading
      <4>2. calling.to \in Users \cup {NoUser}
        BY <2>1 DEF Event
      <4>3. QED
        BY <4>1, <4>2, <2>3 DEF MayMatch
    <3>2. Waiting'[c] = Append(Waiting[c], calling)
      <4>1. Waiting'[c] = Held(c) \o Append(send[c], calling)
        BY <1>0, <2>1, <2>3 DEF Waiting, Held, Streams
      <4>2. Waiting[c] = Held(c) \o send[c]
        BY DEF Waiting
      <4>3. QED
        BY <2>1, <4>1, <4>2, HeldProperties, AppendRight
    <3>3. \A d \in Conns \ {c} : Waiting'[d] = Waiting[d]
      BY <1>0, <2>1, <2>3 DEF Waiting, Held, Streams
    <3>4. Waiting' = [Waiting EXCEPT ![c] = Append(Waiting[c], calling)]
      BY <3>2, <3>3, WaitingIsFunction
    <3>5. D!Accept(c)
      BY <1>0, <2>1, <3>1, <3>4 DEF D!Accept, Waiting, Held
    <3>6. QED
      BY <3>5 DEF D!Next
  <2>4. QED
    BY <1>2, <2>2, <2>3, HubQueues
<1>3. ASSUME NEW c \in Conns, PumpTake(c)
      PROVE  D!Next \/ UNCHANGED <<calling, events, Waiting, got>>
  <2>1. /\ send[c] # <<>> /\ pump[c] = "select"
        /\ pump' = [pump EXCEPT ![c] = IF snap[c] THEN "write" ELSE "load"]
        /\ taken' = [taken EXCEPT ![c] = IF snap[c] THEN Head(send[c]) ELSE NoEvent]
        /\ send' = [send EXCEPT ![c] = Tail(send[c])]
        /\ UNCHANGED <<got, calling, events>>
    BY <1>3 DEF PumpTake, PumpSelects, Pump, hubVars
  <2>2. \A d \in Conns \ {c} : Waiting'[d] = Waiting[d]
    BY <1>0, <2>1 DEF Waiting, Held, Streams, Pumping
  <2>3. Waiting[c] = send[c] /\ send[c] \in Seq(Event)
    BY <2>1, WaitingProperties, HeldProperties
  <2>4. CASE snap[c]
    <3>1. Waiting'[c] = <<Head(send[c])>> \o Tail(send[c])
      BY <1>0, <2>1, <2>4 DEF Waiting, Held, Streams, Pumping
    <3>2. Waiting'[c] = Waiting[c]
      BY <2>1, <2>3, <3>1, ConsHeadTail
    <3>3. Waiting' = Waiting
      BY <2>2, <3>2 DEF Waiting
    <3>4. QED
      BY <2>1, <3>3
  <2>5. CASE ~snap[c]
    <3>1. /\ pump'[c] # "write" /\ send'[c] = Tail(send[c])
      BY <1>0, <2>1, <2>5 DEF Streams, Pumping
    <3>2. Waiting'[c] = Tail(Waiting[c])
      BY <2>3, <3>1, WaitingPrimed
    <3>3. Waiting' = [Waiting EXCEPT ![c] = Tail(Waiting[c])]
      BY <2>2, <3>2, WaitingIsFunction
    <3>4. D!Discard(c)
      BY <2>1, <2>3, <3>3 DEF D!Discard, Waiting, Held
    <3>5. QED
      BY <3>4 DEF D!Next
  <2>6. QED
    BY <2>4, <2>5
<1>4. ASSUME NEW c \in Conns, PumpWrite(c) PROVE D!Next
  <2>1. /\ pump[c] = "write"
        /\ pump' = [pump EXCEPT ![c] = "load"]
        /\ taken' = [taken EXCEPT ![c] = NoEvent]
        /\ got' = [got EXCEPT ![c] = Append(got[c], taken[c])]
        /\ UNCHANGED <<send, calling, events>>
    BY <1>4 DEF PumpWrite, Pump, hubVars, clientVars
  <2>2. \A d \in Conns \ {c} : Waiting'[d] = Waiting[d]
    BY <1>0, <2>1 DEF Waiting, Held, Streams, Pumping
  <2>3. /\ Waiting[c] # <<>> /\ Head(Waiting[c]) = taken[c]
        /\ Tail(Waiting[c]) = send[c]
    BY <2>1, WaitingProperties
  <2>4. pump'[c] # "write" /\ send'[c] = send[c]
    BY <1>0, <2>1 DEF Pumping
  <2>5. Waiting'[c] = Tail(Waiting[c])
    BY <2>3, <2>4, WaitingPrimed
  <2>6. Waiting' = [Waiting EXCEPT ![c] = Tail(Waiting[c])]
    BY <2>2, <2>5, WaitingIsFunction
  <2>7. D!Deliver(c)
    BY <2>1, <2>3, <2>6 DEF D!Deliver, Waiting, Held
  <2>8. QED
    BY <2>7 DEF D!Next
<1>5. ASSUME NEW c \in Conns, PumpWriteError(c)
      PROVE  D!Next \/ UNCHANGED <<calling, events, Waiting, got>>
  <2>1. /\ pump' = [pump EXCEPT ![c] = "exited"]
        /\ taken' = [taken EXCEPT ![c] = NoEvent]
        /\ UNCHANGED <<send, got, calling, events>>
    BY <1>5 DEF PumpWriteError, hubVars, clientVars
  <2>2. \A d \in Conns \ {c} : Waiting'[d] = Waiting[d]
    BY <1>0, <2>1 DEF Waiting, Held, Streams, Pumping
  <2>3. Waiting'[c] = send[c]
    <3>1. pump'[c] # "write" /\ send'[c] = send[c]
      BY <1>0, <2>1 DEF Pumping
    <3>2. QED
      BY <3>1, WaitingPrimed
  <2>4. CASE pump[c] = "write"
    <3>1. Waiting[c] # <<>> /\ Tail(Waiting[c]) = send[c]
      BY <2>4, WaitingProperties
    <3>2. Waiting' = [Waiting EXCEPT ![c] = Tail(Waiting[c])]
      BY <2>2, <2>3, <3>1, WaitingIsFunction
    <3>3. D!Discard(c)
      BY <2>1, <3>1, <3>2 DEF D!Discard, Waiting, Held
    <3>4. QED
      BY <3>3 DEF D!Next
  <2>5. CASE pump[c] # "write"
    <3>1. Waiting' = Waiting
      BY <2>2, <2>3, <2>5, WaitingProperties DEF Waiting
    <3>2. QED
      BY <2>1, <3>1
  <2>6. QED
    BY <2>4, <2>5
<1>6. ASSUME NEW c \in Conns,
             \/ HubStep(c) \/ ReaderStep(c) \/ ReadToken(c) \/ Disconnect(c)
             \/ AuthTimerExpires(c) \/ TimerExpires(c)
             \/ PumpLoad(c) \/ PumpAuthTimeout(c) \/ PumpClose(c) \/ PumpTimer(c)
             \/ PumpClearAuth(c) \/ PumpRefresh(c) \/ PumpDone(c)
      PROVE  UNCHANGED <<calling, events, Waiting, got>>
  BY <1>6, QuietSteps, StayWaiting DEF StreamsStay
<1>7. CASE HubCrash
  BY <1>7 DEF HubCrash, clientVars, connVars, Waiting, Held
<1> QED
  BY <1>1, <1>2, <1>3, <1>4, <1>5, <1>6, <1>7 DEF Next, PumpStep

(* Hub, pumps and timers implement a lossy ordered queue per connection.   *)
THEOREM NotifierRefinesDelivery == Spec => ImplementsDelivery
<1>1. Init => D!Init
  <2> SUFFICES ASSUME Init PROVE D!Init
    OBVIOUS
  <2>1. calling = D!NoEvent /\ events \in Nat /\ got = [c \in Conns |-> <<>>]
    BY DEF Init, NoEvent, D!NoEvent
  <2>2. Waiting = [c \in Conns |-> <<>>]
    <3>1. \A c \in Conns : Held(c) = <<>> /\ send[c] = <<>>
      BY DEF Init, Held
    <3>2. \A c \in Conns : Held(c) \o send[c] = <<>>
      BY <3>1, EmptySeq, ConcatEmptySeq
    <3>3. QED
      BY <3>2 DEF Waiting
  <2>3. QED
    BY <2>1, <2>2 DEF D!Init, Waiting, Held
<1>2. NInv /\ NInv' /\ [Next]_vars => [D!Next]_D!vars
  <2> SUFFICES ASSUME NInv, NInv', [Next]_vars PROVE [D!Next]_D!vars
    OBVIOUS
  <2>1. CASE Next
    BY <2>1, NotifierStepRefines DEF D!vars, Waiting, Held
  <2>2. CASE UNCHANGED vars
    BY <2>2 DEF vars, hubVars, clientVars, connVars, D!vars
  <2>3. QED
    BY <2>1, <2>2
<1> QED
  BY <1>1, <1>2, NotifierInvariant, PTL DEF Spec, ImplementsDelivery, D!Spec
=============================================================================
