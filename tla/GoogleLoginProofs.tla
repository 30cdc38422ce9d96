--------------------------- MODULE GoogleLoginProofs ---------------------------
(***************************************************************************)
(* Proofs about GoogleLogin, for any number of flows, people, addresses    *)
(* and overlapping requests.                                               *)
(***************************************************************************)
EXTENDS GoogleLogin, TLAPS

(* GInv falls into what concerns the requests in flight ...                *)
Fits(c) ==
  c # Idle =>
    /\ c.pc \in BeginPCs => begun[c.st] # None /\ url[c.st] = None
    /\ c.pc \notin BeginPCs =>
         /\ consent[c.st] # None
         /\ c.pc = "getNewAccount" => account[consent[c.st]] # None
         /\ c.pc = "storeToken" => account[consent[c.st]] = c.email

Requests ==
  /\ handler \in [Handlers -> Calls \cup {Idle}]
  /\ \A h \in Handlers : Fits(handler[h])
  /\ \A g, h \in Handlers : Beginning(g) /\ Beginning(h)
                              /\ handler[g].st = handler[h].st => g = h

(* ... and what does not.                                                  *)
TypeOfRest ==
  /\ user \in [Emails -> Users \cup {None}]
  /\ account \in [Subjects -> Emails \cup {None}]
  /\ redis \subseteq [use : KeyUses, st : States]
  /\ redirect \in [Words -> Kinds \cup {None}]
  /\ begun \in [States -> Kinds \cup {None}]
  /\ url \in [States -> URIs]
  /\ consent \in [States -> Subjects \cup {None}]
  /\ used \subseteq States
  /\ answer \in [States -> Emails \cup {None}]
  /\ sessions \subseteq [subject : Subjects, user : Emails]

Flows ==
  \A st \in States :
    /\ consent[st] # None => url[st] \in Kinds
    /\ url[st] # None => begun[st] # None
    /\ answer[st] # None => /\ consent[st] # None
                            /\ account[consent[st]] = answer[st]

Rest == TypeOfRest /\ Flows /\ OneKind /\ GoogleUserHasAccount

LEMMA Split == GInv <=> Requests /\ Rest
<1>1. ASSUME GInv PROVE Requests /\ Rest
  <2>1. Rest
    BY <1>1 DEF GInv, Rest, TypeOK, TypeOfRest, Agreed, AnsweredAsLinked, Flows
  <2>2. \A h \in Handlers : Fits(handler[h])
    BY <1>1 DEF GInv, FreshFlows, Agreed, Fits, Beginning, At, Subject
  <2>3. QED
    BY <1>1, <2>1, <2>2 DEF GInv, TypeOK, FreshFlows, Requests, Beginning
<1>2. ASSUME Requests, Rest PROVE GInv
  <2>1. FreshFlows
    BY <1>2 DEF Requests, FreshFlows, Fits, Beginning
  <2>2. Agreed
    BY <1>2 DEF Requests, Rest, Flows, Agreed, Fits, Beginning, At, Subject
  <2>3. AnsweredAsLinked
    BY <1>2 DEF Rest, Flows, AnsweredAsLinked
  <2>4. QED
    BY <1>2, <2>1, <2>2, <2>3 DEF GInv, TypeOK, Requests, Rest, TypeOfRest
<1> QED
  BY <1>1, <1>2

-----------------------------------------------------------------------------
LEMMA InitGInv == Init => GInv
<1> SUFFICES ASSUME Init PROVE Requests /\ Rest
  BY Split
<1>1. Requests
  BY DEF Init, Requests, Fits, Beginning
<1>2. TypeOfRest /\ Flows
  BY DEF Init, TypeOfRest, Flows, URIs
<1>3. OneKind /\ GoogleUserHasAccount
  BY DEF Init, OneKind, GoogleUserHasAccount
<1> QED
  BY <1>1, <1>2, <1>3 DEF Rest

-----------------------------------------------------------------------------
(* The calls that requests go on to are calls.                             *)
LEMMA Shapes ==
  /\ \A pc \in BeginPCs, st \in States, todo \in SUBSET Words :
       [pc |-> pc, st |-> st, todo |-> todo] \in Calls
  /\ \A pc \in CallbackPCs, st \in States : [pc |-> pc, st |-> st] \in Calls
  /\ \A pc \in EmailPCs, st \in States, e \in Emails :
       [pc |-> pc, st |-> st, email |-> e] \in Calls
  BY DEF Calls

LEMMA CallShape ==
  ASSUME NEW h \in Handlers, handler \in [Handlers -> Calls \cup {Idle}],
         handler[h] # Idle
  PROVE  /\ handler[h].st \in States
         /\ handler[h].pc \in BeginPCs => handler[h].todo \in SUBSET Words
         /\ handler[h].pc \in EmailPCs => handler[h].email \in Emails
         /\ \A pc \in BeginPCs : handler[h].pc \in BeginPCs
              => [handler[h] EXCEPT !.pc = pc] \in Calls
         /\ \A pc \in CallbackPCs : handler[h].pc \in CallbackPCs
              => [handler[h] EXCEPT !.pc = pc] \in Calls
         /\ \A pc \in EmailPCs : handler[h].pc \in EmailPCs
              => [handler[h] EXCEPT !.pc = pc] \in Calls
  BY DEF Calls, BeginPCs, CallbackPCs, EmailPCs

LEMMA GoToIsBecome ==
  ASSUME NEW h \in Handlers, NEW pc, handler \in [Handlers -> Calls \cup {Idle}],
         GoTo(h, pc)
  PROVE  Become(h, [handler[h] EXCEPT !.pc = pc])
  BY DEF GoTo, Become

(* What is established stays so when the tables and flows only grow, and   *)
(* nobody else's flow gets a URL.                                          *)
Grow ==
  /\ \A st \in States : begun[st] # None => begun'[st] = begun[st]
  /\ \A st \in States : consent[st] # None => consent'[st] = consent[st]
  /\ \A s \in Subjects : account[s] # None => account'[s] = account[s]

LEMMA Slots ==
  ASSUME GInv, Grow, NEW h \in Handlers, NEW c \in Calls \cup {Idle},
         Become(h, c), Fits(c)',
         c # Idle /\ c.pc \in BeginPCs
           => \A g \in Handlers \ {h} : Beginning(g) => handler[g].st # c.st,
         \A g \in Handlers \ {h} : Beginning(g) => url'[handler[g].st] = None
  PROVE  Requests'
<1>1. Requests /\ Rest
  BY Split
<1>2. /\ handler' \in [Handlers -> Calls \cup {Idle}]
      /\ handler'[h] = c
      /\ \A g \in Handlers \ {h} : handler'[g] = handler[g]
  BY <1>1 DEF Become, Requests
<1>3. ASSUME NEW g \in Handlers PROVE Fits(handler[g])'
  <2>1. CASE g = h
    BY <1>2, <2>1 DEF Fits
  <2>2. CASE g # h
    <3>1. Fits(handler[g]) /\ handler'[g] = handler[g]
      BY <1>1, <1>2, <2>2 DEF Requests
    <3>2. handler[g] # Idle => handler[g].st \in States
      BY <1>1, CallShape DEF Requests
    <3>3. handler[g] # Idle /\ consent[handler[g].st] # None
            => consent[handler[g].st] \in Subjects
      BY <1>1, <3>2 DEF Rest, TypeOfRest
    <3>4. handler[g] # Idle /\ handler[g].pc \in EmailPCs => handler[g].email \in Emails
      BY <1>1, CallShape DEF Requests
    <3>5. handler[g] # Idle /\ handler[g].pc = "storeToken" => handler[g].email # None
      BY <3>4, GoogleAssumption DEF EmailPCs
    <3>6. handler[g] # Idle /\ handler[g].pc \in BeginPCs => url'[handler[g].st] = None
      BY <2>2 DEF Beginning
    <3> QED
      BY <3>1, <3>2, <3>3, <3>5, <3>6 DEF Fits, Grow
  <2> QED
    BY <2>1, <2>2
<1>4. ASSUME NEW f \in Handlers, NEW g \in Handlers, Beginning(f)', Beginning(g)',
             handler'[f].st = handler'[g].st
      PROVE  f = g
  BY <1>1, <1>2, <1>4 DEF Requests, Beginning
<1> QED
  BY <1>2, <1>3, <1>4 DEF Requests

(* A request leaves the tables and flows alone.                            *)
LEMMA Quiet ==
  ASSUME GInv, UNCHANGED <<tables, consent, redirect, begun, url>>,
         redis' \subseteq [use : KeyUses, st : States], used' \subseteq States
  PROVE  Rest' /\ Grow
<1>1. Rest
  BY Split
<1>2. Grow
  BY DEF Grow, tables
<1>3. TypeOfRest'
  BY <1>1 DEF Rest, TypeOfRest, tables
<1>4. Flows'
  BY <1>1 DEF Rest, Flows, tables
<1>5. OneKind'
  BY <1>1 DEF Rest, OneKind
<1>6. GoogleUserHasAccount'
  BY <1>1 DEF Rest, GoogleUserHasAccount, tables
<1> QED
  BY <1>2, <1>3, <1>4, <1>5, <1>6 DEF Rest

(* Such a request goes on within its flow, or returns.                     *)
LEMMA QuietStep ==
  ASSUME GInv, NEW h \in Handlers, NEW c \in Calls \cup {Idle}, Become(h, c),
         UNCHANGED <<tables, consent, redirect, begun, url>>,
         redis' \subseteq [use : KeyUses, st : States], used' \subseteq States,
         Fits(c),
         c # Idle /\ c.pc \in BeginPCs
           => Beginning(h) /\ c.st = handler[h].st
  PROVE  GInv'
<1>1. Rest' /\ Grow
  BY Quiet
<1>2. Requests
  BY Split
<1>3. Fits(c)'
  BY DEF Fits, tables
<1>4. c # Idle /\ c.pc \in BeginPCs
        => \A g \in Handlers \ {h} : Beginning(g) => handler[g].st # c.st
  BY <1>2 DEF Requests
<1>5. \A g \in Handlers \ {h} : Beginning(g) => url'[handler[g].st] = None
  BY <1>2 DEF Requests, Fits, Beginning
<1>6. Requests'
  BY <1>1, <1>3, <1>4, <1>5, Slots
<1>7. (Requests /\ Rest)' => GInv'
  BY Split, PTL
<1> QED
  BY <1>1, <1>6, <1>7

-----------------------------------------------------------------------------
LEMMA Typed ==
  ASSUME GInv
  PROVE  /\ handler \in [Handlers -> Calls \cup {Idle}]
         /\ \A h \in Handlers : Fits(handler[h])
         /\ redis \subseteq [use : KeyUses, st : States] /\ used \subseteq States
         /\ account \in [Subjects -> Emails \cup {None}]
         /\ consent \in [States -> Subjects \cup {None}]
  BY Split DEF Requests, Rest, TypeOfRest

(* The subject of a callback that has passed the exchange.                 *)
LEMMA SubjectShape ==
  ASSUME GInv, NEW h \in Handlers, handler[h] # Idle, handler[h].pc \notin BeginPCs
  PROVE  Subject(h) \in Subjects
<1>1. handler[h].st \in States
  BY Typed, CallShape
<1> QED
  BY <1>1, Typed DEF Fits, Subject

LEMMA GoToStep ==
  ASSUME GInv, NEW h \in Handlers, NEW pc, GoTo(h, pc), handler[h] # Idle,
         UNCHANGED <<tables, consent, redirect, begun, url>>,
         redis' \subseteq [use : KeyUses, st : States], used' \subseteq States,
         \/ handler[h].pc \in BeginPCs /\ pc \in BeginPCs
         \/ handler[h].pc \in CallbackPCs /\ pc \in CallbackPCs
         \/ handler[h].pc \in EmailPCs /\ pc \in EmailPCs \ {"getNewAccount", "storeToken"}
  PROVE  GInv'
<1> DEFINE c == [handler[h] EXCEPT !.pc = pc]
<1>1. Become(h, c)
  BY Typed, GoToIsBecome
<1>2. c \in Calls
  BY Typed, CallShape
<1>3. handler[h] \in Calls
  BY Typed
<1>4. c.pc = pc /\ c.st = handler[h].st
  BY <1>3 DEF Calls
<1>5. Fits(c)
  BY <1>4, Typed DEF Fits, BeginPCs, CallbackPCs, EmailPCs
<1>6. c.pc \in BeginPCs => Beginning(h) /\ c.st = handler[h].st
  BY <1>4 DEF Beginning, BeginPCs, CallbackPCs, EmailPCs
<1> HIDE DEF c
<1> QED
  BY <1>1, <1>2, <1>5, <1>6, QuietStep

LEMMA ReturnStep ==
  ASSUME GInv, NEW h \in Handlers, Return(h),
         UNCHANGED <<tables, consent, redirect, begun, url>>,
         redis' \subseteq [use : KeyUses, st : States], used' \subseteq States
  PROVE  GInv'
<1>1. Become(h, Idle) /\ Fits(Idle)
  BY DEF Return, Fits
<1> QED
  BY <1>1, QuietStep

(* The requests that only look something up.                               *)
LEMMA LookupSteps ==
  ASSUME GInv, NEW h \in Handlers,
         \/ StoreVerifier(h) \/ GetVerifier(h) \/ GetByEmail(h) \/ Fail(h)
         \/ \E st \in States : GetState(h, st)
  PROVE  GInv'
<1>1. CASE StoreVerifier(h)
  <2>1. handler[h].st \in States
    BY <1>1, Typed, CallShape DEF StoreVerifier, At
  <2>2. redis' \subseteq [use : KeyUses, st : States]
    BY <1>1, <2>1, Typed DEF StoreVerifier, Key, KeyUses
  <2> QED
    BY <1>1, <2>2, Typed, GoToStep DEF StoreVerifier, At, BeginPCs, google
<1>2. CASE GetVerifier(h)
  BY <1>2, Typed, GoToStep, ReturnStep DEF GetVerifier, At, CallbackPCs, google
<1>3. CASE GetByEmail(h)
  BY <1>3, Typed, GoToStep, ReturnStep DEF GetByEmail, At, EmailPCs, google
<1>4. CASE Fail(h)
  BY <1>4, Typed, ReturnStep DEF Fail, google
<1>5. ASSUME NEW st \in States, GetState(h, st) PROVE GInv'
  <2> DEFINE c == [pc |-> "getVerifier", st |-> st]
  <2>1. c \in Calls
    BY Shapes DEF CallbackPCs
  <2>2. Fits(c) /\ c.pc \notin BeginPCs
    BY <1>5 DEF GetState, Fits, BeginPCs
  <2>3. Become(h, c)
    BY <1>5 DEF GetState
  <2> HIDE DEF c
  <2> QED
    BY <1>5, <2>1, <2>2, <2>3, Typed, QuietStep DEF GetState, google
<1> QED
  BY <1>1, <1>2, <1>3, <1>4, <1>5

(* Callbacks that find an account go on to store a token for its user.     *)
LEMMA StoreTokenForStep ==
  ASSUME GInv, NEW h \in Handlers, handler[h] # Idle,
         handler[h].pc \notin BeginPCs, account[Subject(h)] # None,
         StoreTokenFor(h, account[Subject(h)]),
         UNCHANGED <<tables, google, redis, redirect, begun, url>>
  PROVE  GInv'
<1> DEFINE c == [pc |-> "storeToken", st |-> handler[h].st,
                 email |-> account[Subject(h)]]
<1>1. Subject(h) \in Subjects /\ handler[h].st \in States
  BY SubjectShape, Typed, CallShape
<1>2. account[Subject(h)] \in Emails
  BY <1>1, Typed
<1>3. c \in Calls
  BY <1>1, <1>2, Shapes DEF EmailPCs
<1>4. Fits(c) /\ c.pc \notin BeginPCs
  BY Typed DEF Fits, BeginPCs, Subject
<1>5. Become(h, c)
  BY DEF StoreTokenFor
<1> HIDE DEF c
<1> QED
  BY <1>3, <1>4, <1>5, Typed, QuietStep DEF google

LEMMA GetAccountSteps ==
  ASSUME GInv, NEW h \in Handlers, GetAccount(h) \/ GetNewAccount(h)
  PROVE  GInv'
<1>1. CASE GetAccount(h) /\ account[Subject(h)] # None
  BY <1>1, StoreTokenForStep DEF GetAccount, At, BeginPCs
<1>2. CASE GetAccount(h) /\ account[Subject(h)] = None
  BY <1>2, Typed, GoToStep DEF GetAccount, At, EmailPCs, google
<1>3. CASE GetNewAccount(h)
  <2>1. account[Subject(h)] # None
    BY <1>3, Typed DEF GetNewAccount, At, Fits, Subject, BeginPCs
  <2> QED
    BY <1>3, <2>1, StoreTokenForStep DEF GetNewAccount, At, BeginPCs
<1> QED
  BY <1>1, <1>2, <1>3

LEMMA ExchangeStep ==
  ASSUME GInv, NEW h \in Handlers, NEW e \in Emails, Exchange(h, e)
  PROVE  GInv'
<1>1. handler[h] # Idle /\ handler[h].pc = "exchange"
  BY DEF Exchange, At
<1>2. handler[h].st \in States /\ consent[handler[h].st] # None
  BY <1>1, Typed, CallShape DEF Fits, BeginPCs
<1>3. used' \subseteq States
  BY <1>2, Typed DEF Exchange
<1>4. CASE Return(h)
  BY <1>3, <1>4, Typed, ReturnStep DEF Exchange
<1>5. ASSUME NEW pc \in {"getAccount", "getByEmail"},
             Become(h, [pc |-> pc, st |-> handler[h].st, email |-> e])
      PROVE  GInv'
  <2> DEFINE c == [pc |-> pc, st |-> handler[h].st, email |-> e]
  <2>1. c \in Calls
    BY <1>2, Shapes DEF EmailPCs
  <2>2. Fits(c) /\ c.pc \notin BeginPCs
    BY <1>2 DEF Fits, BeginPCs
  <2>3. Become(h, c)
    BY <1>5
  <2> HIDE DEF c
  <2> QED
    BY <1>3, <2>1, <2>2, <2>3, Typed, QuietStep DEF Exchange
<1> QED
  BY <1>4, <1>5 DEF Exchange

-----------------------------------------------------------------------------
LEMMA Join ==
  ASSUME Requests', Rest'
  PROVE  GInv'
<1>1. (Requests /\ Rest)' => GInv'
  BY Split, PTL
<1> QED
  BY <1>1

(* Steps of the world outside leave every request where it is.             *)
LEMMA Bystanders ==
  ASSUME GInv, Grow, UNCHANGED handler,
         \A h \in Handlers : Beginning(h) => url'[handler[h].st] = None
  PROVE  Requests'
<1>1. Requests /\ Rest
  BY Split
<1>2. ASSUME NEW h \in Handlers PROVE Fits(handler[h])'
  <2>1. Fits(handler[h])
    BY <1>1 DEF Requests
  <2>2. handler[h] # Idle => handler[h].st \in States
    BY <1>1, CallShape DEF Requests
  <2>3. handler[h] # Idle /\ consent[handler[h].st] # None
          => consent[handler[h].st] \in Subjects
    BY <1>1, <2>2 DEF Rest, TypeOfRest
  <2>4. handler[h] # Idle /\ handler[h].pc = "storeToken" => handler[h].email # None
    BY <1>1, CallShape, GoogleAssumption DEF Requests, EmailPCs
  <2>5. handler[h] # Idle /\ handler[h].pc \in BeginPCs => url'[handler[h].st] = None
    BY DEF Beginning
  <2> QED
    BY <2>1, <2>2, <2>3, <2>4, <2>5 DEF Fits, Grow
<1> QED
  BY <1>1, <1>2 DEF Requests, Beginning

LEMMA BeginsFresh ==
  ASSUME GInv, NEW h \in Handlers, Beginning(h)
  PROVE  /\ handler[h].st \in States
         /\ begun[handler[h].st] \in Kinds /\ url[handler[h].st] = None
         /\ consent[handler[h].st] = None
<1>1. handler[h].st \in States
  BY Typed, CallShape DEF Beginning
<1>2. begun[handler[h].st] # None /\ url[handler[h].st] = None
  BY Typed DEF Fits, Beginning
<1>3. None \notin Kinds
  BY GoogleAssumption
<1> QED
  BY <1>1, <1>2, <1>3, Split DEF Rest, TypeOfRest, Flows

(* A new flow.                                                             *)
LEMMA StoreStateStep ==
  ASSUME GInv, NEW h \in Handlers, NEW st \in States, NEW kind \in Kinds,
         StoreState(h, st, kind)
  PROVE  GInv'
<1> DEFINE c == [pc |-> "storeVerifier", st |-> st, todo |-> Words]
<1>1. Rest /\ begun[st] = None /\ url[st] = None
  BY Split DEF StoreState, Rest, Flows
<1>2. begun' = [begun EXCEPT ![st] = kind] /\ kind # None
  BY GoogleAssumption DEF StoreState
<1>3. Grow
  BY <1>1, <1>2 DEF StoreState, Grow, tables, google, Rest, TypeOfRest
<1>4. c \in Calls
  BY Shapes DEF BeginPCs
<1>5. Fits(c)'
  BY <1>1, <1>2 DEF StoreState, Fits, Rest, TypeOfRest, BeginPCs
<1>6. \A g \in Handlers : Beginning(g) => handler[g].st # st
  BY <1>1, BeginsFresh, GoogleAssumption
<1>7. \A g \in Handlers : Beginning(g) => url'[handler[g].st] = None
  BY BeginsFresh DEF StoreState
<1>8. Become(h, c) /\ c.st = st
  BY DEF StoreState
<1>9. Requests'
  <2> HIDE DEF c
  <2> QED
    BY <1>3, <1>4, <1>5, <1>6, <1>7, <1>8, Slots
<1>10. TypeOfRest'
  BY <1>1, <1>2 DEF StoreState, Rest, TypeOfRest, tables, google, Key, KeyUses
<1>11. Flows'
  BY <1>1, <1>2 DEF StoreState, Rest, TypeOfRest, Flows, tables, google
<1>12. OneKind'
  BY <1>1, <1>2 DEF StoreState, Rest, TypeOfRest, OneKind
<1>13. GoogleUserHasAccount'
  BY <1>1 DEF StoreState, Rest, GoogleUserHasAccount, tables
<1> QED
  BY <1>9, <1>10, <1>11, <1>12, <1>13, Join DEF Rest

LEMMA SetRedirectStep ==
  ASSUME GInv, NEW h \in Handlers, NEW w \in Words, SetRedirect(h, w)
  PROVE  GInv'
<1>1. handler[h] # Idle /\ handler[h].pc = "setRedirect" /\ handler[h] \in Calls
  BY Typed DEF SetRedirect, At
<1>2. Beginning(h) /\ handler[h].todo \in SUBSET Words
  BY <1>1, Typed, CallShape DEF Beginning, BeginPCs
<1>3. /\ handler[h].st \in States /\ begun[handler[h].st] \in Kinds
      /\ url[handler[h].st] = None
  BY <1>2, BeginsFresh
<1>4. PICK c \in Calls : /\ c = [handler[h] EXCEPT !.todo = @ \ {w}]
                        /\ c.pc = "setRedirect" /\ c.st = handler[h].st
  <2> DEFINE d == [handler[h] EXCEPT !.todo = @ \ {w}]
  <2>1. d \in Calls /\ d.pc = "setRedirect" /\ d.st = handler[h].st
    BY <1>1, <1>2 DEF Calls, BeginPCs, CallbackPCs, EmailPCs
  <2> QED
    BY <2>1
<1>5. Rest /\ Requests
  BY Split
<1>6. Grow
  BY DEF SetRedirect, Grow, tables, google
<1>7. begun[c.st] # None /\ url[c.st] = None
  BY <1>3, <1>4, GoogleAssumption
<1>8. Fits(c)'
  BY <1>4, <1>7 DEF SetRedirect, Fits, BeginPCs
<1>9. Become(h, c)
  BY <1>4, Typed DEF SetRedirect, Become
<1>10. \A g \in Handlers \ {h} : Beginning(g) => handler[g].st # c.st
  BY <1>2, <1>4, <1>5 DEF Requests
<1>11. \A g \in Handlers : Beginning(g) => url'[handler[g].st] = None
  BY BeginsFresh DEF SetRedirect
<1>12. Requests'
  BY <1>4, <1>6, <1>8, <1>9, <1>10, <1>11, Slots
<1>13. redirect' = [redirect EXCEPT ![w] = begun[handler[h].st]]
  BY DEF SetRedirect
<1>14. TypeOfRest' /\ Flows'
  BY <1>3, <1>5, <1>13 DEF SetRedirect, Rest, TypeOfRest, Flows, tables, google
<1>15. OneKind'
  <2> SUFFICES ASSUME NEW kind \in Kinds,
                      \A st \in States : begun[st] \in {kind, None}
               PROVE  /\ \A v \in Words : redirect'[v] \in {kind, None}
                      /\ \A st \in States : url[st] \in {kind, None, Garbled}
    BY DEF SetRedirect, OneKind
  <2>1. /\ \A v \in Words : redirect[v] \in {kind, None}
        /\ \A st \in States : url[st] \in {kind, None, Garbled}
    BY <1>5 DEF Rest, OneKind
  <2> QED
    BY <1>3, <1>5, <1>13, <2>1 DEF Rest, TypeOfRest
<1>16. GoogleUserHasAccount'
  BY <1>5 DEF SetRedirect, Rest, GoogleUserHasAccount, tables
<1> QED
  BY <1>12, <1>14, <1>15, <1>16, Join DEF Rest

LEMMA AuthCodeURLStep ==
  ASSUME GInv, NEW h \in Handlers, AuthCodeURL(h)
  PROVE  GInv'
<1>1. Beginning(h)
  BY DEF AuthCodeURL, At, Beginning, BeginPCs
<1>2. /\ handler[h].st \in States /\ begun[handler[h].st] \in Kinds
      /\ consent[handler[h].st] = None
  BY <1>1, BeginsFresh
<1>3. Rest /\ Requests
  BY Split
<1>4. url' = [url EXCEPT ![handler[h].st] = RedirectURL]
  BY DEF AuthCodeURL
<1>5. RedirectURL \in URIs
  BY <1>3 DEF Rest, TypeOfRest, RedirectURL, URIs, Words
<1>6. begun[handler[h].st] # None
  BY <1>2, GoogleAssumption
<1>7. Grow /\ Fits(Idle)' /\ Become(h, Idle)
  BY DEF AuthCodeURL, Grow, tables, google, Fits, Return
<1>8. \A g \in Handlers \ {h} : Beginning(g) => url'[handler[g].st] = None
  <2> SUFFICES ASSUME NEW g \in Handlers \ {h}, Beginning(g)
               PROVE  url'[handler[g].st] = None
    OBVIOUS
  <2>1. handler[g].st # handler[h].st
    BY <1>1, <1>3 DEF Requests
  <2>2. handler[g].st \in States /\ url[handler[g].st] = None
    BY BeginsFresh
  <2> QED
    BY <1>3, <1>4, <2>1, <2>2 DEF Rest, TypeOfRest
<1>9. Requests'
  BY <1>7, <1>8, Slots
<1>10. TypeOfRest' /\ Flows'
  BY <1>2, <1>3, <1>4, <1>5, <1>6
  DEF AuthCodeURL, Rest, TypeOfRest, Flows, tables, google
<1>11. OneKind'
  <2> SUFFICES ASSUME NEW kind \in Kinds,
                      \A st \in States : begun[st] \in {kind, None}
               PROVE  /\ \A v \in Words : redirect[v] \in {kind, None}
                      /\ \A st \in States : url'[st] \in {kind, None, Garbled}
    BY DEF AuthCodeURL, OneKind
  <2>1. /\ \A v \in Words : redirect[v] \in {kind, None}
        /\ \A st \in States : url[st] \in {kind, None, Garbled}
    BY <1>3 DEF Rest, OneKind
  <2>2. RedirectURL \in {kind, None, Garbled}
    BY <2>1 DEF RedirectURL, Words
  <2> QED
    BY <1>2, <1>3, <1>4, <2>1, <2>2 DEF Rest, TypeOfRest
<1>12. GoogleUserHasAccount'
  BY <1>3 DEF AuthCodeURL, Rest, GoogleUserHasAccount, tables
<1> QED
  BY <1>9, <1>10, <1>11, <1>12, Join DEF Rest

-----------------------------------------------------------------------------
(* What a new link of a subject to a user leaves as it is.                 *)
LEMMA NewLink ==
  ASSUME GInv, NEW s \in Subjects, NEW e \in Emails, account[s] = None,
         account' = [account EXCEPT ![s] = e],
         UNCHANGED <<answer, sessions, google, redis, redirect, begun, url>>,
         user' \in [Emails -> Users \cup {None}],
         \A d \in Emails \ {e} : user'[d] = user[d]
  PROVE  Rest' /\ Grow
<1>1. Rest
  BY Split
<1>2. e # None
  BY GoogleAssumption
<1>3. Grow
  BY <1>1 DEF Grow, Rest, TypeOfRest, google
<1>4. TypeOfRest'
  BY <1>1 DEF Rest, TypeOfRest, google
<1>5. Flows'
  <2> SUFFICES ASSUME NEW st \in States, answer[st] # None
               PROVE  account'[consent[st]] = answer[st]
    BY <1>1 DEF Rest, Flows, google
  <2>1. /\ consent[st] \in Subjects /\ answer[st] \in Emails
        /\ account[consent[st]] = answer[st]
    BY <1>1 DEF Rest, TypeOfRest, Flows
  <2> QED
    BY <1>3, <2>1, GoogleAssumption DEF Grow
<1>6. OneKind'
  BY <1>1 DEF Rest, OneKind
<1>7. GoogleUserHasAccount'
  <2> SUFFICES ASSUME NEW d \in Emails, user'[d] # None, user'[d].via = "google"
               PROVE  \E t \in Subjects : account'[t] = d
    BY DEF GoogleUserHasAccount
  <2>1. CASE d = e
    BY <1>1, <2>1 DEF Rest, TypeOfRest
  <2>2. CASE d # e
    <3>1. PICK t \in Subjects : account[t] = d
      BY <1>1, <2>2 DEF Rest, GoogleUserHasAccount
    <3> QED
      BY <1>3, <3>1, GoogleAssumption DEF Grow
  <2> QED
    BY <2>1, <2>2
<1> QED
  BY <1>1, <1>3, <1>4, <1>5, <1>6, <1>7 DEF Rest

LEMMA EmailShape ==
  ASSUME GInv, NEW h \in Handlers, handler[h] # Idle, handler[h].pc \in EmailPCs
  PROVE  /\ handler[h].email \in Emails /\ handler[h].st \in States
         /\ Subject(h) \in Subjects /\ consent[handler[h].st] # None
         /\ handler[h].pc \notin BeginPCs /\ handler[h] \in Calls
  BY Typed, CallShape, SubjectShape DEF EmailPCs, BeginPCs, Fits

LEMMA SignUpStep ==
  ASSUME GInv, NEW h \in Handlers, SignUp(h)
  PROVE  GInv'
<1> DEFINE e == handler[h].email
           s == Subject(h)
<1>1. handler[h] # Idle /\ handler[h].pc = "signUp"
  BY DEF SignUp, At
<1>2. /\ e \in Emails /\ handler[h].st \in States /\ s \in Subjects
      /\ consent[handler[h].st] # None /\ handler[h] \in Calls
  BY <1>1, EmailShape DEF EmailPCs
<1>3. CASE CanCreateUser(e) /\ CanLink(s, e)
  <2>1. /\ user' = [user EXCEPT ![e] = NewUser(e)]
        /\ account' = [account EXCEPT ![s] = e]
        /\ GoTo(h, "getNewAccount")
        /\ UNCHANGED <<answer, sessions, google, redis, redirect, begun, url>>
    BY <1>3 DEF SignUp
  <2>2. NewUser(e) \in Users
    BY <1>2, GoogleAssumption DEF NewUser, Users
  <2>3. /\ user' \in [Emails -> Users \cup {None}]
        /\ \A d \in Emails \ {e} : user'[d] = user[d]
    BY <1>2, <2>1, <2>2, Split DEF Rest, TypeOfRest
  <2>4. Rest' /\ Grow
    <3> HIDE DEF e, s
    <3> QED
      BY <1>2, <1>3, <2>1, <2>3, NewLink DEF CanLink
  <2>5. PICK c \in Calls : /\ c = [handler[h] EXCEPT !.pc = "getNewAccount"]
                           /\ c.pc = "getNewAccount" /\ c.st = handler[h].st
    <3> DEFINE d == [handler[h] EXCEPT !.pc = "getNewAccount"]
    <3>1. d \in Calls
      BY <1>1, Typed, CallShape DEF EmailPCs
    <3>2. d.pc = "getNewAccount" /\ d.st = handler[h].st
      BY <1>2 DEF Calls
    <3> QED
      BY <3>1, <3>2
  <2>6. Become(h, c)
    BY <2>1, <2>5, Typed, GoToIsBecome
  <2>7. account'[consent[c.st]] = e /\ e # None
    BY <1>2, <2>1, <2>5, Typed, GoogleAssumption DEF Subject
  <2>8. Fits(c)' /\ c.pc \notin BeginPCs
    BY <1>2, <2>1, <2>5, <2>7 DEF Fits, BeginPCs, google
  <2>9. \A g \in Handlers : Beginning(g) => url'[handler[g].st] = None
    BY <2>1, BeginsFresh
  <2>10. Requests'
    BY <2>4, <2>5, <2>6, <2>8, <2>9, Slots
  <2> QED
    BY <2>4, <2>10, Join
<1>4. CASE ~(CanCreateUser(e) /\ CanLink(s, e))
  BY <1>4, Typed, ReturnStep DEF SignUp, tables, google
<1> QED
  BY <1>3, <1>4

LEMMA LinkStep ==
  ASSUME GInv, NEW h \in Handlers, Link(h)
  PROVE  GInv'
<1> DEFINE e == handler[h].email
           s == Subject(h)
<1>1. e \in Emails /\ s \in Subjects
  BY EmailShape DEF Link, At, EmailPCs
<1>2. CASE CanLink(s, e)
  <2>1. /\ account' = [account EXCEPT ![s] = e]
        /\ UNCHANGED <<user, answer, sessions, google, redis, redirect, begun, url>>
    BY <1>2 DEF Link
  <2>2. user' \in [Emails -> Users \cup {None}]
    BY <2>1, Split DEF Rest, TypeOfRest
  <2>3. Rest' /\ Grow
    <3> HIDE DEF e, s
    <3> QED
      BY <1>1, <1>2, <2>1, <2>2, NewLink DEF CanLink
  <2>4. Become(h, Idle) /\ Fits(Idle)'
    BY DEF Link, Return, Fits
  <2>5. \A g \in Handlers : Beginning(g) => url'[handler[g].st] = None
    BY <2>1, BeginsFresh
  <2>6. Requests'
    BY <2>3, <2>4, <2>5, Slots
  <2> QED
    BY <2>3, <2>6, Join
<1>3. CASE ~CanLink(s, e)
  BY <1>3, Typed, ReturnStep DEF Link, tables, google
<1> QED
  BY <1>2, <1>3

LEMMA StoreTokenStep ==
  ASSUME GInv, NEW h \in Handlers, StoreToken(h)
  PROVE  GInv'
<1>1. /\ handler[h] # Idle /\ handler[h].pc = "storeToken"
      /\ handler[h].email \in Emails /\ handler[h].st \in States
      /\ consent[handler[h].st] # None
  BY EmailShape DEF StoreToken, At, EmailPCs
<1>2. account[consent[handler[h].st]] = handler[h].email
  BY <1>1, Typed DEF Fits, BeginPCs
<1>3. Rest
  BY Split
<1>4. Grow /\ Become(h, Idle) /\ Fits(Idle)'
  BY DEF StoreToken, Grow, google, Return, Fits
<1>5. \A g \in Handlers : Beginning(g) => url'[handler[g].st] = None
  BY BeginsFresh DEF StoreToken
<1>6. Requests'
  BY <1>4, <1>5, Slots
<1>7. TypeOfRest'
  BY <1>1, <1>3 DEF StoreToken, Rest, TypeOfRest, google, Key, KeyUses
<1>8. Flows'
  BY <1>1, <1>2, <1>3 DEF StoreToken, Rest, TypeOfRest, Flows, google
<1>9. OneKind' /\ GoogleUserHasAccount'
  BY <1>3 DEF StoreToken, Rest, OneKind, GoogleUserHasAccount
<1> QED
  BY <1>6, <1>7, <1>8, <1>9, Join DEF Rest

LEMMA LoginStep ==
  ASSUME GInv, NEW st \in States, NEW u \in Emails, Login(st, u)
  PROVE  GInv'
<1>1. Rest
  BY Split
<1>2. consent[st] \in Subjects
  BY <1>1 DEF Login, Rest, TypeOfRest, Flows
<1>3. Requests'
  BY BeginsFresh, Bystanders DEF Login, Grow, google
<1>4. TypeOfRest' /\ Flows'
  BY <1>1, <1>2 DEF Login, Rest, TypeOfRest, Flows, google
<1>5. OneKind' /\ GoogleUserHasAccount'
  BY <1>1 DEF Login, Rest, OneKind, GoogleUserHasAccount
<1> QED
  BY <1>3, <1>4, <1>5, Join DEF Rest

LEMMA ConsentStep ==
  ASSUME GInv, NEW st \in States, NEW s \in Subjects, Consent(st, s)
  PROVE  GInv'
<1>1. Rest
  BY Split
<1>2. consent' = [consent EXCEPT ![st] = s] /\ s # None
  BY GoogleAssumption DEF Consent
<1>3. Grow
  BY <1>1, <1>2 DEF Consent, Grow, tables, Rest, TypeOfRest
<1>4. Requests'
  BY <1>3, BeginsFresh, Bystanders DEF Consent
<1>5. TypeOfRest' /\ Flows'
  BY <1>1, <1>2 DEF Consent, Rest, TypeOfRest, Flows, tables
<1>6. OneKind' /\ GoogleUserHasAccount'
  BY <1>1 DEF Consent, Rest, OneKind, GoogleUserHasAccount, tables
<1> QED
  BY <1>4, <1>5, <1>6, Join DEF Rest

LEMMA RegisterStep ==
  ASSUME GInv, NEW e \in Emails, NEW n \in Names, Register(e, n)
  PROVE  GInv'
<1>1. Rest
  BY Split
<1>2. user' = [user EXCEPT ![e] = [via |-> "password", name |-> n]]
  BY DEF Register
<1>3. Requests'
  BY BeginsFresh, Bystanders DEF Register, Grow, google
<1>4. TypeOfRest' /\ Flows'
  BY <1>1, <1>2 DEF Register, Rest, TypeOfRest, Flows, google, Users
<1>5. GoogleUserHasAccount'
  BY <1>1, <1>2 DEF Register, Rest, TypeOfRest, GoogleUserHasAccount
<1>6. OneKind'
  BY <1>1 DEF Register, Rest, OneKind
<1> QED
  BY <1>3, <1>4, <1>5, <1>6, Join DEF Rest

LEMMA ExpireStep ==
  ASSUME GInv, NEW k, Expire(k)
  PROVE  GInv'
<1>1. Rest' /\ Grow
  BY Typed, Quiet DEF Expire, google
<1>2. Requests'
  BY <1>1, BeginsFresh, Bystanders DEF Expire
<1> QED
  BY <1>1, <1>2, Join

LEMMA RestartStep ==
  ASSUME GInv, Restart
  PROVE  GInv'
<1>1. Rest
  BY Split
<1>2. Requests'
  BY DEF Restart, Requests, Fits, Beginning
<1>3. TypeOfRest' /\ Flows'
  BY <1>1 DEF Restart, Rest, TypeOfRest, Flows, tables, google
<1>4. OneKind' /\ GoogleUserHasAccount'
  BY <1>1 DEF Restart, Rest, OneKind, GoogleUserHasAccount, tables
<1> QED
  BY <1>2, <1>3, <1>4, Join DEF Rest

-----------------------------------------------------------------------------
LEMMA NextGInv == GInv /\ [Next]_vars => GInv'
<1> SUFFICES ASSUME GInv, [Next]_vars PROVE GInv'
  OBVIOUS
<1>1. CASE UNCHANGED vars
  <2>1. Rest' /\ Grow
    BY <1>1, Typed, Quiet DEF vars, tables
  <2>2. Requests'
    BY <1>1, <2>1, BeginsFresh, Bystanders DEF vars
  <2> QED
    BY <2>1, <2>2, Join
<1>2. ASSUME NEW h \in Handlers, NEW st \in States, NEW kind \in Kinds,
             StoreState(h, st, kind)
      PROVE  GInv'
  BY <1>2, StoreStateStep
<1>3. ASSUME NEW h \in Handlers, NEW w \in Words, SetRedirect(h, w) PROVE GInv'
  BY <1>3, SetRedirectStep
<1>4. ASSUME NEW h \in Handlers, NEW e \in Emails, Exchange(h, e) PROVE GInv'
  BY <1>4, ExchangeStep
<1>5. ASSUME NEW h \in Handlers,
             \/ StoreVerifier(h) \/ GetVerifier(h) \/ GetByEmail(h) \/ Fail(h)
             \/ \E st \in States : GetState(h, st)
      PROVE  GInv'
  BY <1>5, LookupSteps
<1>6. ASSUME NEW h \in Handlers,
             \/ AuthCodeURL(h) \/ GetAccount(h) \/ GetNewAccount(h)
             \/ SignUp(h) \/ StoreToken(h) \/ Link(h)
      PROVE  GInv'
  BY <1>6, AuthCodeURLStep, GetAccountSteps, SignUpStep, StoreTokenStep, LinkStep
<1>7. ASSUME NEW st \in States, NEW s \in Subjects, Consent(st, s) PROVE GInv'
  BY <1>7, ConsentStep
<1>8. ASSUME NEW e \in Emails, NEW n \in Names, Register(e, n) PROVE GInv'
  BY <1>8, RegisterStep
<1>9. ASSUME NEW st \in States, NEW u \in Emails, Login(st, u) PROVE GInv'
  BY <1>9, LoginStep
<1>10. ASSUME NEW k, Expire(k) PROVE GInv'
  BY <1>10, ExpireStep
<1> QED
  BY <1>1, <1>2, <1>3, <1>4, <1>5, <1>6, <1>7, <1>8, <1>9, <1>10, RestartStep
  DEF Next

(* GInv is an invariant: what a request in flight has established stays so, *)
(* and users and Google accounts stay linked.                               *)
THEOREM GoogleLoginInvariant == Spec => []GInv
  BY InitGInv, NextGInv, PTL DEF Spec

(* Every variable keeps its type.                                          *)
THEOREM GoogleLoginTyping == Spec => []TypeOK
<1>1. GInv => TypeOK
  BY DEF GInv
<1> QED
  BY <1>1, GoogleLoginInvariant, PTL

(* A user who signed up with Google can sign in again: the user and the    *)
(* account of Callback are written together, whoever else signs up or      *)
(* links the same person.                                                  *)
THEOREM GoogleUserHasAccountHolds == Spec => []GoogleUserHasAccount
<1>1. GInv => GoogleUserHasAccount
  BY DEF GInv
<1> QED
  BY <1>1, GoogleLoginInvariant, PTL

(* Callback answers whoever agreed at Google with the user they are linked *)
(* to, whatever address Google reported and whoever signs up meanwhile.    *)
THEOREM AnsweredAsLinkedHolds == Spec => []AnsweredAsLinked
<1>1. GInv => AnsweredAsLinked
  BY DEF GInv
<1> QED
  BY <1>1, GoogleLoginInvariant, PTL

(* While all visitors use one flow, getUserInfo's Exchange finds the       *)
(* redirect URI of the code in the shared config.                          *)
THEOREM OneFlowIsUndisturbedHolds == Spec => []OneFlowIsUndisturbed
<1>1. GInv => OneFlowIsUndisturbed
  <2> SUFFICES ASSUME GInv, NEW kind \in Kinds,
                      \A st \in States : begun[st] \in {kind, None},
                      \A w \in Words : redirect[w] # None,
                      NEW h \in Handlers, At(h, "exchange")
               PROVE  RedirectURL = kind /\ url[handler[h].st] = kind
    BY DEF OneFlowIsUndisturbed
  <2>1. handler[h].st \in States /\ consent[handler[h].st] # None
    BY Typed, CallShape DEF At, Fits, BeginPCs
  <2>2. Rest
    BY Split
  <2>3. url[handler[h].st] = kind
    BY <2>1, <2>2, GoogleAssumption DEF Rest, Flows, OneKind, Garbled, Kinds
  <2>4. RedirectURL = kind
    BY <2>2 DEF Rest, OneKind, RedirectURL, Words
  <2> QED
    BY <2>3, <2>4
<1> QED
  BY <1>1, GoogleLoginInvariant, PTL

(* Neither SignUp nor Link moves a Google account that is linked.          *)
THEOREM LinksAreKeptHolds == Spec => LinksAreKept
<1>1. GInv /\ [Next]_vars
        => [\A s \in Subjects : account[s] # None => account'[s] = account[s]]_vars
  <2> SUFFICES ASSUME GInv, Next, NEW s \in Subjects, account[s] # None
               PROVE  account'[s] = account[s]
    OBVIOUS
  <2>1. account \in [Subjects -> Emails \cup {None}]
    BY Typed
  <2>2. ASSUME NEW h \in Handlers, SignUp(h) \/ Link(h)
        PROVE  account'[s] = account[s]
    <3>1. Subject(h) \in Subjects
      BY <2>2, EmailShape DEF SignUp, Link, At, EmailPCs
    <3> QED
      BY <2>1, <2>2, <3>1 DEF SignUp, Link, CanLink
  <2>3. ASSUME account' = account PROVE account'[s] = account[s]
    BY <2>3
  <2> QED
    BY <2>2, <2>3
    DEF Next, tables, Register, StoreState, StoreVerifier, SetRedirect,
        AuthCodeURL, Consent, GetState, GetVerifier, Exchange, GetAccount,
        GetNewAccount, StoreToken, Login, GetByEmail, Expire, Fail, Restart
<1> QED
  BY <1>1, GoogleLoginInvariant, PTL DEF Spec, LinksAreKept

-----------------------------------------------------------------------------
(* Sign-in with Google implements Linking.  First, what a step does to a    *)
(* request that holds an address: it leaves it, or gives it one Google has  *)
(* reported, or has found the user of the address it holds.                 *)
Lookups == {"getAccount", "signUp", "getByEmail", "link"}

LEMMA LookupChange ==
  ASSUME GInv, [Next]_vars, NEW g \in Handlers, handler'[g] # Idle,
         handler'[g].pc \in Lookups
  PROVE  \/ handler'[g] = handler[g]
         \/ /\ handler[g] # Idle /\ handler[g].pc = "exchange"
            /\ handler'[g].st = handler[g].st
            /\ handler'[g].email \in EmailsOf[Subject(g)]
            /\ handler'[g].pc # "link"
         \/ /\ handler[g] # Idle /\ handler[g].pc \in {"getAccount", "getByEmail"}
            /\ handler'[g].st = handler[g].st
            /\ handler'[g].email = handler[g].email
            /\ handler'[g].pc = "link" => user[handler[g].email] # None
<1>0. handler \in [Handlers -> Calls \cup {Idle}]
  BY Typed
<1>1. ASSUME NEW pc, GoTo(g, pc), handler[g] # Idle
      PROVE  /\ handler'[g].pc = pc /\ handler'[g].st = handler[g].st
             /\ handler[g].pc \in EmailPCs => handler'[g].email = handler[g].email
  BY <1>0, <1>1 DEF GoTo, Calls, EmailPCs, BeginPCs, CallbackPCs
<1>2. ASSUME NEW c, Become(g, c) PROVE handler'[g] = c
  BY <1>0, <1>2 DEF Become
<1>3. ASSUME NEW h \in Handlers,
             \/ \E st \in States, kind \in Kinds : StoreState(h, st, kind)
             \/ StoreVerifier(h) \/ (\E w \in Words : SetRedirect(h, w))
             \/ AuthCodeURL(h) \/ (\E st \in States : GetState(h, st))
             \/ GetVerifier(h) \/ (\E e \in Emails : Exchange(h, e))
             \/ GetAccount(h) \/ SignUp(h) \/ GetNewAccount(h) \/ StoreToken(h)
             \/ GetByEmail(h) \/ Link(h) \/ Fail(h),
             h # g
      PROVE  handler'[g] = handler[g]
  BY <1>0, <1>3 DEF StoreState, StoreVerifier, SetRedirect, AuthCodeURL, GetState,
     GetVerifier, Exchange, GetAccount, SignUp, GetNewAccount, StoreToken,
     StoreTokenFor, GetByEmail, Link, Fail, Become, GoTo, Return
<1>4. ASSUME \/ StoreVerifier(g) \/ AuthCodeURL(g) \/ GetVerifier(g) \/ SignUp(g)
             \/ StoreToken(g) \/ Link(g) \/ Fail(g)
      PROVE  FALSE
  BY <1>1, <1>2, <1>4 DEF StoreVerifier, AuthCodeURL, GetVerifier, SignUp,
     StoreToken, Link, Fail, Return, At, Lookups
<1>5. ASSUME NEW st \in States, NEW kind \in Kinds, StoreState(g, st, kind)
      PROVE  FALSE
  BY <1>2, <1>5 DEF StoreState, Lookups
<1>6. ASSUME NEW st \in States, GetState(g, st) PROVE FALSE
  BY <1>2, <1>6 DEF GetState, Lookups
<1>7. ASSUME NEW w \in Words, SetRedirect(g, w) PROVE FALSE
  <2>1. handler[g] \in Calls /\ handler[g].pc = "setRedirect"
    BY <1>0, <1>7 DEF SetRedirect, At
  <2>2. handler'[g] = [handler[g] EXCEPT !.todo = handler[g].todo \ {w}]
    BY <1>0, <1>7 DEF SetRedirect
  <2>3. handler'[g].pc = "setRedirect"
    BY <2>1, <2>2 DEF Calls
  <2> QED
    BY <2>3 DEF Lookups
<1>8. ASSUME NEW e \in Emails, Exchange(g, e)
      PROVE  /\ handler[g] # Idle /\ handler[g].pc = "exchange"
             /\ handler'[g].st = handler[g].st
             /\ handler'[g].email \in EmailsOf[Subject(g)]
             /\ handler'[g].pc # "link"
  BY <1>2, <1>8 DEF Exchange, At, Return, Subject
<1>9. ASSUME GetAccount(g) \/ GetNewAccount(g)
      PROVE  /\ handler[g] # Idle /\ handler[g].pc \in {"getAccount", "getByEmail"}
             /\ handler'[g].st = handler[g].st
             /\ handler'[g].email = handler[g].email
             /\ handler'[g].pc = "link" => user[handler[g].email] # None
  BY <1>1, <1>2, <1>9 DEF GetAccount, GetNewAccount, StoreTokenFor, At, Lookups,
     EmailPCs
<1>10. ASSUME GetByEmail(g)
       PROVE  /\ handler[g] # Idle /\ handler[g].pc \in {"getAccount", "getByEmail"}
              /\ handler'[g].st = handler[g].st
              /\ handler'[g].email = handler[g].email
              /\ handler'[g].pc = "link" => user[handler[g].email] # None
  BY <1>1, <1>2, <1>10 DEF GetByEmail, At, Return, EmailPCs
<1>11. ASSUME \/ UNCHANGED vars
              \/ \E e \in Emails, n \in Names : Register(e, n)
              \/ \E st \in States, s \in Subjects : Consent(st, s)
              \/ \E st \in States, u \in Emails : Login(st, u)
              \/ \E k : Expire(k)
       PROVE  handler'[g] = handler[g]
  BY <1>11 DEF vars, Register, Consent, Login, Expire
<1>12. ~Restart
  BY DEF Restart
<1> QED
  BY <1>3, <1>4, <1>5, <1>6, <1>7, <1>8, <1>9, <1>10, <1>11, <1>12 DEF Next

(* Users and Google accounts are not removed, and consent is not moved.     *)
LEMMA UsersStay ==
  ASSUME GInv, [Next]_vars
  PROVE  /\ \A e \in Emails : user[e] # None => user'[e] # None
         /\ \A st \in States : consent[st] # None => consent'[st] = consent[st]
<1>1. /\ user \in [Emails -> Users \cup {None}]
      /\ consent \in [States -> Subjects \cup {None}]
  BY Split DEF Rest, TypeOfRest
<1>2. \A e \in Emails : user[e] # None => user'[e] # None
  <2>1. ASSUME NEW e \in Emails, NEW n \in Names, Register(e, n)
        PROVE  \A d \in Emails : user[d] # None => user'[d] # None
    BY <1>1, <2>1 DEF Register
  <2>2. ASSUME NEW h \in Handlers, SignUp(h)
        PROVE  \A d \in Emails : user[d] # None => user'[d] # None
    BY <1>1, <2>2 DEF SignUp, CanCreateUser
  <2> QED
    BY <2>1, <2>2 DEF vars, Next, tables, StoreState, StoreVerifier, SetRedirect,
        AuthCodeURL, Consent, GetState, GetVerifier, Exchange, GetAccount,
        GetNewAccount, StoreToken, Login, GetByEmail, Link, Expire, Fail, Restart
<1>3. \A st \in States : consent[st] # None => consent'[st] = consent[st]
  <2>1. ASSUME NEW st \in States, NEW s \in Subjects, Consent(st, s)
        PROVE  \A t \in States : consent[t] # None => consent'[t] = consent[t]
    BY <1>1, <2>1 DEF Consent
  <2> QED
    BY <2>1 DEF vars, Next, google, Register, StoreState, StoreVerifier, SetRedirect,
        AuthCodeURL, GetState, GetVerifier, Exchange, GetAccount, SignUp,
        GetNewAccount, StoreToken, Login, GetByEmail, Link, Expire, Fail, Restart
<1> QED
  BY <1>2, <1>3

LEMMA ReportedStep == GInv /\ ByReportedEmail /\ [Next]_vars => ByReportedEmail'
<1> SUFFICES ASSUME GInv, ByReportedEmail, [Next]_vars, NEW g \in Handlers,
                    handler'[g] # Idle, handler'[g].pc \in Lookups
             PROVE  /\ handler'[g].email \in EmailsOf[consent'[handler'[g].st]]
                    /\ handler'[g].pc = "link" => user'[handler'[g].email] # None
  BY DEF ByReportedEmail, Lookups, Subject
<1>1. /\ handler[g] # Idle /\ handler[g].pc \in Lookups \cup {"exchange"}
      /\ handler'[g].st = handler[g].st
      /\ handler'[g].email \in EmailsOf[Subject(g)]
      /\ handler'[g].pc = "link" =>
           /\ handler[g].pc # "exchange"
           /\ handler'[g].email = handler[g].email
           /\ user[handler[g].email] # None
  BY LookupChange DEF ByReportedEmail, Lookups
<1>2. consent'[handler[g].st] = consent[handler[g].st]
  <2>1. handler[g].pc \notin BeginPCs
    BY <1>1 DEF BeginPCs, Lookups
  <2>2. handler[g].st \in States /\ consent[handler[g].st] # None
    BY <1>1, <2>1, Typed, CallShape DEF Fits
  <2> QED
    BY <2>2, UsersStay
<1>3. handler'[g].pc = "link" => user'[handler'[g].email] # None
  <2>1. handler[g].pc \in Lookups => handler[g].email \in Emails
    BY <1>1, Typed, CallShape DEF EmailPCs, Lookups
  <2> QED
    BY <1>1, <2>1, UsersStay
<1> QED
  BY <1>1, <1>2, <1>3 DEF Subject

(* Every step is a step of Linking, or does not show there.                 *)
LEMMA LinkingStep ==
  ASSUME GInv, ByReportedEmail, [Next]_vars
  PROVE  [L!Next]_L!vars
<1>1. ASSUME NEW e \in Emails, NEW n \in Names, Register(e, n)
      PROVE  L!Next
  BY <1>1 DEF Register, NameIsFree, L!Next, L!Register, L!NameIsFree
<1>2. ASSUME NEW h \in Handlers, SignUp(h)
      PROVE  L!Next \/ UNCHANGED L!vars
  <2> DEFINE e == handler[h].email
             s == Subject(h)
  <2>1. handler[h] # Idle /\ handler[h].pc = "signUp"
    BY <1>2 DEF SignUp, At
  <2>2. e \in Emails /\ s \in Subjects /\ e \in EmailsOf[s]
    BY <2>1, EmailShape DEF EmailPCs, ByReportedEmail
  <2>3. CASE CanCreateUser(e) /\ CanLink(s, e)
    <3>1. L!SignUp(s, e, LocalPart[e])
      BY <1>2, <2>2, <2>3 DEF SignUp, CanCreateUser, CanLink, NewUser, NameIsFree,
         L!SignUp, L!NameIsFree, L!AreFree
    <3>2. LocalPart[e] \in Names
      BY <2>2, GoogleAssumption
    <3> QED
      BY <2>2, <3>1, <3>2 DEF L!Next
  <2>4. CASE ~(CanCreateUser(e) /\ CanLink(s, e))
    BY <1>2, <2>4 DEF SignUp, L!vars
  <2> QED
    BY <2>3, <2>4
<1>3. ASSUME NEW h \in Handlers, Link(h)
      PROVE  L!Next \/ UNCHANGED L!vars
  <2> DEFINE e == handler[h].email
             s == Subject(h)
  <2>1. handler[h] # Idle /\ handler[h].pc = "link"
    BY <1>3 DEF Link, At
  <2>2. e \in Emails /\ s \in Subjects /\ e \in EmailsOf[s] /\ user[e] # None
    BY <2>1, EmailShape DEF EmailPCs, ByReportedEmail
  <2>3. CASE CanLink(s, e)
    <3>1. L!Link(s, e)
      BY <1>3, <2>2, <2>3 DEF Link, CanLink, L!Link, L!AreFree
    <3> QED
      BY <2>2, <3>1 DEF L!Next
  <2>4. CASE ~CanLink(s, e)
    BY <1>3, <2>4 DEF Link, L!vars
  <2> QED
    BY <2>3, <2>4
<1>4. ASSUME NEW st \in States, NEW u \in Emails, Login(st, u)
      PROVE  L!Next
  <2>1. /\ consent[st] \in Subjects /\ account[consent[st]] = answer[st]
        /\ answer[st] \in Emails
    BY <1>4, Split DEF Login, Rest, TypeOfRest, Flows
  <2>2. L!SignIn(consent[st], u)
    BY <1>4, <2>1, GoogleAssumption DEF Login, L!SignIn
  <2> QED
    BY <2>1, <2>2 DEF L!Next
<1>5. ASSUME \/ UNCHANGED vars \/ Restart
             \/ \E st \in States, s \in Subjects : Consent(st, s)
             \/ \E k : Expire(k)
             \/ \E h \in Handlers :
                  \/ \E st \in States, kind \in Kinds : StoreState(h, st, kind)
                  \/ StoreVerifier(h) \/ (\E w \in Words : SetRedirect(h, w))
                  \/ AuthCodeURL(h) \/ (\E st \in States : GetState(h, st))
                  \/ GetVerifier(h) \/ (\E e \in Emails : Exchange(h, e))
                  \/ GetAccount(h) \/ GetNewAccount(h) \/ StoreToken(h)
                  \/ GetByEmail(h) \/ Fail(h)
      PROVE  UNCHANGED L!vars
  BY <1>5 DEF vars, tables, L!vars, Restart, Consent, Expire, StoreState,
     StoreVerifier, SetRedirect, AuthCodeURL, GetState, GetVerifier, Exchange,
     GetAccount, GetNewAccount, StoreToken, GetByEmail, Fail
<1> QED
  BY <1>1, <1>2, <1>3, <1>4, <1>5 DEF Next

LEMMA ReportedInit == Init => ByReportedEmail /\ L!Init /\ L!OneToOne
  BY DEF Init, ByReportedEmail, L!Init, L!OneToOne

(* In Linking, users and Google accounts stay linked one to one.            *)
LEMMA OneToOneStep ==
  ASSUME GInv, L!OneToOne, [L!Next]_L!vars
  PROVE  L!OneToOne'
<1>1. /\ user \in [Emails -> Users \cup {None}]
      /\ account \in [Subjects -> Emails \cup {None}]
  BY Split DEF Rest, TypeOfRest
<1>2. None \notin Emails
  BY GoogleAssumption
<1>3. ASSUME NEW e \in Emails, NEW n \in Names, L!Register(e, n)
      PROVE  L!OneToOne'
  <2>1. /\ user'[e] = [via |-> "password", name |-> n] /\ user'[e] # None
        /\ \A d \in Emails \ {e} : user'[d] = user[d]
    BY <1>1, <1>3, GoogleAssumption DEF L!Register, Users
  <2>2. user[e] = None /\ L!NameIsFree(n) /\ UNCHANGED account
    BY <1>3 DEF L!Register
  <2>3. user'[e].name = n
    BY <2>1
  <2> QED
    BY <1>1, <2>1, <2>2, <2>3 DEF L!OneToOne, L!NameIsFree
<1>4. ASSUME NEW s \in Subjects, NEW e \in Emails, NEW n \in Names, L!SignUp(s, e, n)
      PROVE  L!OneToOne'
  <2>1. /\ user'[e] = [via |-> "google", name |-> n] /\ user'[e] # None
        /\ \A d \in Emails \ {e} : user'[d] = user[d]
        /\ account'[s] = e /\ \A t \in Subjects \ {s} : account'[t] = account[t]
    BY <1>1, <1>4, GoogleAssumption DEF L!SignUp, Users
  <2>2. /\ user[e] = None /\ L!NameIsFree(n) /\ e \in EmailsOf[s]
        /\ \A t \in Subjects : account[t] # e
    BY <1>4 DEF L!SignUp, L!AreFree
  <2>3. user'[e].name = n
    BY <2>1
  <2>4. \A t, r \in Subjects : account'[t] # None /\ account'[t] = account'[r] => t = r
    BY <1>1, <2>1, <2>2 DEF L!OneToOne
  <2>5. \A t \in Subjects : account'[t] # None
          => user'[account'[t]] # None /\ account'[t] \in EmailsOf[t]
    BY <1>1, <2>1, <2>2 DEF L!OneToOne
  <2>6. \A c, d \in Emails :
          user'[c] # None /\ user'[d] # None /\ user'[c].name = user'[d].name => c = d
    BY <2>1, <2>2, <2>3 DEF L!OneToOne, L!NameIsFree
  <2> QED
    BY <2>4, <2>5, <2>6 DEF L!OneToOne
<1>5. ASSUME NEW s \in Subjects, NEW e \in Emails, L!Link(s, e)
      PROVE  L!OneToOne'
  <2>1. account'[s] = e /\ \A t \in Subjects \ {s} : account'[t] = account[t]
    BY <1>1, <1>5 DEF L!Link
  <2> QED
    BY <1>1, <1>5, <2>1 DEF L!Link, L!AreFree, L!OneToOne
<1>6. ASSUME UNCHANGED L!vars \/ \E s \in Subjects, u \in Emails : L!SignIn(s, u)
      PROVE  L!OneToOne'
  BY <1>6 DEF L!vars, L!SignIn, L!OneToOne
<1> QED
  BY <1>3, <1>4, <1>5, <1>6 DEF L!Next

(* Callback, ConnectCallback and Login, in all their interleavings with     *)
(* lost keys, failures and restarts, do what Linking does in four steps; in *)
(* both it is the client of Login who says for which user the session is.   *)
THEOREM GoogleLoginRefinesLinking == Spec => ImplementsLinking
<1>1. Init => L!Init /\ ByReportedEmail
  BY ReportedInit
<1>2. GInv /\ ByReportedEmail /\ [Next]_vars => [L!Next]_L!vars
  BY LinkingStep
<1> QED
  BY <1>1, <1>2, ReportedStep, GoogleLoginInvariant, PTL
     DEF Spec, ImplementsLinking, L!Spec

(* No user is ever linked to two Google accounts, and nobody is linked by   *)
(* an address Google did not report for them (auth/openid/google.go:108,    *)
(* 246): the check is the unique indexes at the insert, long after the      *)
(* address was looked at.                                                   *)
THEOREM LinkedOneToOne == Spec => []L!OneToOne
<1>1. Init => ByReportedEmail /\ L!OneToOne
  BY ReportedInit
<1>2. GInv /\ ByReportedEmail /\ L!OneToOne /\ [Next]_vars => L!OneToOne'
  BY LinkingStep, OneToOneStep
<1> QED
  BY <1>1, <1>2, ReportedStep, GoogleLoginInvariant, PTL DEF Spec
=============================================================================
