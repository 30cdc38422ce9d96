-------------------------- MODULE RefreshTokensProofs --------------------------
(***************************************************************************)
(* Proofs about RefreshTokens, for any number of tokens and overlapping    *)
(* calls: types, and that a token that was exchanged, or is dead for any   *)
(* other reason, cannot come to life or be exchanged again.                *)
(***************************************************************************)
EXTENDS RefreshTokens, TLAPS

LEMMA InitRInv == Init => RInv
  BY TokenAssumption
  DEF Init, RInv, TypeOK, Held, IssuedFirst, UsedIsRevoked, Children, Fresh, At,
      Making

-----------------------------------------------------------------------------
(* Which exchanges a step can record.                                      *)
LEMMA ChildrenChange ==
  ASSUME TypeOK, [Next]_vars, NEW t \in Tokens,
         ~\E h \in Handlers : At(h, "hSet") /\ handler[h].old = t
  PROVE  Children(t)' = Children(t)
<1>1. ASSUME NEW h \in Handlers, NEW n \in Tokens, Login(h, n)
      PROVE  Children(t)' = Children(t)
  BY <1>1, TokenAssumption DEF TypeOK, Login, Fresh, Children
<1>2. ASSUME NEW h \in Handlers, NEW n \in Tokens, RevokeAndRotate(h, n)
      PROVE  Children(t)' = Children(t)
  BY <1>2, TokenAssumption DEF TypeOK, RevokeAndRotate, Fresh, Children
<1>3. CASE UNCHANGED parent
  BY <1>3 DEF Children
<1> QED
  BY <1>1, <1>2, <1>3
  DEF Next, vars, HGet, RevokeAndLogout, HSetNX, HSetNXFails, ExpireAt,
      ExpireAtFails, Issue, Fail, JwtExpires, KeyExpires

-----------------------------------------------------------------------------
(* A token enters issued and ttl from a call that is making it.            *)
LEMMA TypeStep == TypeOK /\ Held /\ [Next]_vars => TypeOK'
<1> SUFFICES ASSUME TypeOK, Held, [Next]_vars PROVE TypeOK'
  OBVIOUS
<1> USE DEF TypeOK
<1>1. ASSUME NEW h \in Handlers, NEW n \in Tokens, Login(h, n) PROVE TypeOK'
  <2>1. [pc |-> "hSetNX", call |-> "login", old |-> NoToken, new |-> n] \in Calls
    BY DEF Calls
  <2> QED
    BY <1>1, <2>1 DEF Login
<1>2. ASSUME NEW h \in Handlers, NEW t \in Tokens,
             NEW call \in {"refresh", "logout"}, HGet(h, call, t)
      PROVE  TypeOK'
  <2>1. [pc |-> "hSet", call |-> call, old |-> t, new |-> NoToken] \in Calls
    BY DEF Calls
  <2> QED
    BY <1>2, <2>1 DEF HGet
<1>3. ASSUME NEW h \in Handlers, NEW n \in Tokens, RevokeAndRotate(h, n)
      PROVE  TypeOK'
  <2>1. handler[h] \in Calls
    BY <1>3 DEF RevokeAndRotate, At
  <2>2. [handler[h] EXCEPT !.pc = "hSetNX", !.new = n] \in Calls
    BY <2>1 DEF Calls
  <2>3. handler' \in [Handlers -> Calls \cup {Idle}]
    BY <1>3, <2>1, <2>2 DEF RevokeAndRotate
  <2>4. parent' \in [Tokens -> Tokens \cup {NoToken, "unused"}]
    BY <1>3, <2>1 DEF RevokeAndRotate, Calls
  <2>5. record' \in [Tokens -> {"missing", "live", "revoked"}]
    BY <1>3 DEF RevokeAndRotate
  <2> QED
    BY <1>3, <2>3, <2>4, <2>5 DEF RevokeAndRotate
<1>4. ASSUME NEW h \in Handlers, NEW pc \in {"expireAt", "userGet"},
             handler[h] # Idle, GoTo(h, pc)
      PROVE  handler' \in [Handlers -> Calls \cup {Idle}]
  <2>1. [handler[h] EXCEPT !.pc = pc] \in Calls
    BY <1>4 DEF Calls
  <2> QED
    BY <1>4, <2>1 DEF GoTo
<1>5. ASSUME NEW h \in Handlers, Return(h)
      PROVE  handler' \in [Handlers -> Calls \cup {Idle}]
  BY <1>5 DEF Return
<1>6. ASSUME NEW h \in Handlers, RevokeAndLogout(h) PROVE TypeOK'
  BY <1>5, <1>6 DEF RevokeAndLogout
<1>7. ASSUME NEW h \in Handlers, HSetNX(h) PROVE TypeOK'
  BY <1>4, <1>7 DEF HSetNX, At
<1>8. ASSUME NEW h \in Handlers, HSetNXFails(h) \/ ExpireAtFails(h)
      PROVE  TypeOK'
  BY <1>4, <1>8 DEF HSetNXFails, ExpireAtFails, At
<1>9. ASSUME NEW h \in Handlers, ExpireAt(h) PROVE TypeOK'
  BY <1>4, <1>9 DEF ExpireAt, At, Held, Making
<1>10. ASSUME NEW h \in Handlers, Issue(h) PROVE TypeOK'
  BY <1>5, <1>10 DEF Issue, At, Held, Making
<1>11. ASSUME NEW h \in Handlers, Fail(h) PROVE TypeOK'
  BY <1>5, <1>11 DEF Fail
<1>12. ASSUME NEW t \in Tokens, JwtExpires(t) \/ KeyExpires(t) PROVE TypeOK'
  BY <1>12 DEF JwtExpires, KeyExpires
<1>13. CASE UNCHANGED vars
  BY <1>13 DEF vars
<1> QED
  BY <1>1, <1>2, <1>3, <1>6, <1>7, <1>8, <1>9, <1>10, <1>11, <1>12, <1>13
  DEF Next

-----------------------------------------------------------------------------
(* Two calls never make one token, because only a fresh one is drawn and   *)
(* both the drawing and the exchange are recorded in the same step.        *)
LEMMA HeldStep == RInv /\ [Next]_vars => Held'
<1> SUFFICES ASSUME RInv, [Next]_vars PROVE Held'
  OBVIOUS
<1> USE TokenAssumption DEF RInv, TypeOK
<1>1. ASSUME NEW h \in Handlers, NEW n \in Tokens, Login(h, n) PROVE Held'
  BY <1>1 DEF Login, Held, Making, At, Fresh, IssuedFirst
<1>2. ASSUME NEW h \in Handlers, NEW t \in Tokens,
             NEW call \in {"refresh", "logout"}, HGet(h, call, t)
      PROVE  Held'
  BY <1>2 DEF HGet, Held, Making, At, Fresh
<1>3. ASSUME NEW h \in Handlers, NEW n \in Tokens, RevokeAndRotate(h, n)
      PROVE  Held'
  <2>1. handler[h] \in Calls /\ handler[h].old \in Tokens
    BY <1>3 DEF RevokeAndRotate, At, Held
  <2>2. handler'[h].new = n /\ handler'[h].pc = "hSetNX"
    BY <1>3, <2>1 DEF RevokeAndRotate, Calls
  <2>3. \A g \in Handlers \ {h} : handler'[g] = handler[g]
    BY <1>3 DEF RevokeAndRotate
  <2>4. n \notin issued /\ ~Fresh(n)' /\ issued' = issued
    BY <1>3, <2>1 DEF RevokeAndRotate, IssuedFirst, Fresh
  <2>5. \A t \in Tokens : ~Fresh(t) => ~Fresh(t)' /\ t # n
    BY <1>3 DEF RevokeAndRotate, Fresh
  <2> QED
    BY <2>1, <2>2, <2>3, <2>4, <2>5 DEF Held, Making, At
<1>4. ASSUME NEW h \in Handlers,
             \/ HSetNX(h) \/ HSetNXFails(h) \/ ExpireAt(h) \/ ExpireAtFails(h)
      PROVE  Held'
  <2>1. PICK pc \in {"expireAt", "userGet"} : GoTo(h, pc)
    BY <1>4 DEF HSetNX, HSetNXFails, ExpireAt, ExpireAtFails
  <2>2. handler[h] \in Calls /\ Making(h)
    BY <1>4 DEF HSetNX, HSetNXFails, ExpireAt, ExpireAtFails, At, Making
  <2>3. handler'[h].new = handler[h].new /\ handler'[h].pc = pc
    BY <2>1, <2>2 DEF GoTo, Calls
  <2>4. \A g \in Handlers \ {h} : handler'[g] = handler[g]
    BY <2>1 DEF GoTo
  <2>5. issued' = issued /\ parent' = parent
    BY <1>4 DEF HSetNX, HSetNXFails, ExpireAt, ExpireAtFails
  <2> QED
    BY <2>2, <2>3, <2>4, <2>5 DEF Held, Making, At, Fresh
<1>5. ASSUME NEW h \in Handlers, RevokeAndLogout(h) \/ Issue(h) \/ Fail(h)
      PROVE  Held'
  BY <1>5 DEF RevokeAndLogout, Issue, Fail, Return, Held, Making, At, Fresh
<1>6. ASSUME NEW t \in Tokens, JwtExpires(t) \/ KeyExpires(t) PROVE Held'
  BY <1>6 DEF JwtExpires, KeyExpires, Held, Making, At, Fresh
<1>7. CASE UNCHANGED vars
  BY <1>7 DEF vars, Held, Making, At, Fresh
<1> QED
  BY <1>1, <1>2, <1>3, <1>4, <1>5, <1>6, <1>7 DEF Next

-----------------------------------------------------------------------------
LEMMA IssuedFirstStep == RInv /\ [Next]_vars => IssuedFirst'
<1> SUFFICES ASSUME RInv, [Next]_vars PROVE IssuedFirst'
  OBVIOUS
<1> USE TokenAssumption DEF RInv, TypeOK
<1>1. ASSUME NEW h \in Handlers, NEW n \in Tokens, Login(h, n)
      PROVE  IssuedFirst'
  BY <1>1 DEF Login, IssuedFirst, Children, Fresh
<1>2. ASSUME NEW h \in Handlers, NEW n \in Tokens, RevokeAndRotate(h, n)
      PROVE  IssuedFirst'
  BY <1>2 DEF RevokeAndRotate, IssuedFirst, Children, Fresh, Held, At
<1>3. ASSUME NEW h \in Handlers, Issue(h) PROVE IssuedFirst'
  BY <1>3 DEF Issue, IssuedFirst, Children, Fresh, Held, At, Making
<1>4. CASE UNCHANGED <<issued, parent>>
  BY <1>4 DEF IssuedFirst, Children, Fresh
<1> QED
  BY <1>1, <1>2, <1>3, <1>4
  DEF Next, vars, HGet, RevokeAndLogout, HSetNX, HSetNXFails, ExpireAt,
      ExpireAtFails, Fail, JwtExpires, KeyExpires

(* Only HSETNX makes a record live, and its token has no successor yet.    *)
LEMMA UsedIsRevokedStep == RInv /\ [Next]_vars => UsedIsRevoked'
<1> SUFFICES ASSUME RInv, [Next]_vars PROVE UsedIsRevoked'
  OBVIOUS
<1> USE TokenAssumption DEF RInv, TypeOK
<1>1. ASSUME NEW h \in Handlers, NEW n \in Tokens, Login(h, n)
      PROVE  UsedIsRevoked'
  BY <1>1 DEF Login, UsedIsRevoked, Children, Fresh
<1>2. ASSUME NEW h \in Handlers, NEW n \in Tokens, RevokeAndRotate(h, n)
      PROVE  UsedIsRevoked'
  BY <1>2 DEF RevokeAndRotate, UsedIsRevoked, Children, Fresh
<1>3. ASSUME NEW h \in Handlers, HSetNX(h) PROVE UsedIsRevoked'
  <2>1. handler[h].new \in Tokens /\ Children(handler[h].new) = {}
    BY <1>3 DEF HSetNX, At, Held, Making, IssuedFirst
  <2> QED
    BY <1>3, <2>1 DEF HSetNX, UsedIsRevoked, Children
<1>4. ASSUME NEW h \in Handlers, RevokeAndLogout(h) PROVE UsedIsRevoked'
  BY <1>4 DEF RevokeAndLogout, UsedIsRevoked, Children
<1>5. ASSUME NEW t \in Tokens, KeyExpires(t) PROVE UsedIsRevoked'
  BY <1>5 DEF KeyExpires, UsedIsRevoked, Children
<1>6. CASE UNCHANGED <<record, parent>>
  BY <1>6 DEF UsedIsRevoked, Children
<1> QED
  BY <1>1, <1>2, <1>3, <1>4, <1>5, <1>6
  DEF Next, vars, HGet, HSetNXFails, ExpireAt, ExpireAtFails, Issue, Fail,
      JwtExpires

-----------------------------------------------------------------------------
(* The inductive invariant holds for any number of overlapping Login,      *)
(* Refresh and Logout calls.                                               *)
THEOREM RefreshTokensInvariant == Spec => []RInv
<1>1. RInv /\ [Next]_vars => RInv'
  BY TypeStep, HeldStep, IssuedFirstStep, UsedIsRevokedStep DEF RInv
<1> QED
  BY InitRInv, <1>1, PTL DEF Spec

(* Records, histories and calls keep their types.                          *)
THEOREM RefreshTokensTyping == Spec => []TypeOK
<1>1. RInv => TypeOK
  BY DEF RInv
<1> QED
  BY RefreshTokensInvariant, <1>1, PTL

(* docs.mdx:80: a token that was exchanged is revoked and never comes to   *)
(* life again, whatever overlaps or expires.                               *)
THEOREM UsedIsRevokedHolds == Spec => []UsedIsRevoked
<1>1. RInv => UsedIsRevoked
  BY DEF RInv
<1> QED
  BY RefreshTokensInvariant, <1>1, PTL

(* A revoked or lost token that no call has in hand stays out of use       *)
(* (TokenStore.Revoke and Save).                                           *)
LEMMA DeadStep ==
  ASSUME RInv, [Next]_vars, NEW t \in Tokens, Dead(t)
  PROVE  Dead(t)'
<1> USE DEF RInv, TypeOK
<1>1. t \in issued' /\ record'[t] # "live"
  <2>1. ASSUME NEW h \in Handlers, HSetNX(h) PROVE record'[t] # "live"
    BY <2>1 DEF HSetNX, At, Held, Making, Dead
  <2>2. ASSUME NEW h \in Handlers, NEW n \in Tokens, RevokeAndRotate(h, n)
        PROVE  record'[t] # "live"
    BY <2>2 DEF RevokeAndRotate, Dead
  <2>3. ASSUME NEW h \in Handlers, RevokeAndLogout(h)
        PROVE  record'[t] # "live"
    BY <2>3 DEF RevokeAndLogout, Dead
  <2>4. ASSUME NEW k \in Tokens, KeyExpires(k) PROVE record'[t] # "live"
    BY <2>4 DEF KeyExpires, Dead
  <2>5. issued \subseteq issued'
    BY DEF Next, vars, Login, HGet, RevokeAndRotate, RevokeAndLogout, HSetNX,
       HSetNXFails, ExpireAt, ExpireAtFails, Issue, Fail, JwtExpires, KeyExpires
  <2>6. CASE UNCHANGED record
    BY <2>5, <2>6 DEF Dead
  <2> QED
    BY <2>1, <2>2, <2>3, <2>4, <2>5, <2>6
    DEF Dead, Next, vars, Login, HGet, HSetNXFails, ExpireAt, ExpireAtFails,
        Issue, Fail, JwtExpires
<1>2. ASSUME NEW g \in Handlers, At(g, "hSet")' PROVE handler'[g].old # t
  <2>1. CASE handler'[g] = handler[g]
    BY <1>2, <2>1 DEF At, Dead
  <2>2. ASSUME NEW h \in Handlers, NEW k \in Tokens,
               NEW call \in {"refresh", "logout"}, HGet(h, call, k)
        PROVE  handler'[g] = handler[g] \/ (handler'[g].old = k /\ k # t)
    BY <2>2 DEF HGet, NotRevoked, Dead
  <2>3. ASSUME NEW h \in Handlers, NEW n \in Tokens,
               Login(h, n) \/ RevokeAndRotate(h, n)
        PROVE  handler'[g] = handler[g]
    <3>1. h # g
      BY <1>2, <2>3 DEF Login, RevokeAndRotate, At, Calls
    <3> QED
      BY <2>3, <3>1 DEF Login, RevokeAndRotate
  <2>4. ASSUME NEW h \in Handlers, NEW pc \in {"expireAt", "userGet"},
               GoTo(h, pc), handler[h] # Idle
        PROVE  handler'[g] = handler[g]
    <3>1. h # g
      BY <1>2, <2>4 DEF GoTo, At, Calls
    <3> QED
      BY <2>4, <3>1 DEF GoTo
  <2>5. ASSUME NEW h \in Handlers, Return(h)
        PROVE  handler'[g] = handler[g]
    BY <1>2, <2>5 DEF Return, At
  <2> QED
    BY <2>1, <2>2, <2>3, <2>4, <2>5
    DEF Next, vars, RevokeAndLogout, HSetNX, HSetNXFails, ExpireAt,
        ExpireAtFails, Issue, Fail, JwtExpires, KeyExpires, At
<1> QED
  BY <1>1, <1>2 DEF Dead

(* A dead refresh token is never taken up or exchanged by any later call   *)
(* (api/auth.go, Refresh and Logout).                                      *)
THEOREM NoExchangeOfDeadTokenHolds == Spec => NoExchangeOfDeadToken
<1>1. RInv /\ [Next]_vars
        => [\A t \in Tokens :
              Dead(t) => Dead(t)' /\ Children(t)' = Children(t)]_vars
  BY DeadStep, ChildrenChange DEF RInv, Dead
<1> QED
  BY RefreshTokensInvariant, <1>1, PTL DEF Spec, NoExchangeOfDeadToken

-----------------------------------------------------------------------------
(* Where a refresh can come to hold a token.                               *)
LEMMA ExchangingChange ==
  ASSUME RInv, [Next]_vars, NEW g \in Handlers, Exchanging(g)'
  PROVE  \/ Exchanging(g) /\ handler'[g] = handler[g]
         \/ /\ handler'[g].old \in Tokens /\ NotRevoked(handler'[g].old)
            /\ UNCHANGED parent
<1> USE DEF RInv, TypeOK
<1>1. ASSUME NEW h \in Handlers, NEW t \in Tokens,
             NEW call \in {"refresh", "logout"}, HGet(h, call, t)
      PROVE  \/ handler'[g] = handler[g]
             \/ /\ handler'[g].old \in Tokens /\ NotRevoked(handler'[g].old)
                /\ UNCHANGED parent
  BY <1>1 DEF HGet
<1>2. ASSUME NEW h \in Handlers, NEW n \in Tokens,
             Login(h, n) \/ RevokeAndRotate(h, n)
      PROVE  handler'[g] = handler[g]
  <2>1. h # g
    BY <1>2 DEF Login, RevokeAndRotate, Exchanging, At, Calls
  <2> QED
    BY <1>2, <2>1 DEF Login, RevokeAndRotate
<1>3. ASSUME NEW h \in Handlers, NEW pc \in {"expireAt", "userGet"},
             GoTo(h, pc), handler[h] # Idle
      PROVE  handler'[g] = handler[g]
  <2>1. h # g
    BY <1>3 DEF GoTo, Exchanging, At, Calls
  <2> QED
    BY <1>3, <2>1 DEF GoTo
<1>4. ASSUME NEW h \in Handlers, Return(h)
      PROVE  handler'[g] = handler[g]
  BY <1>4 DEF Return, Exchanging, At
<1>5. \/ handler'[g] = handler[g]
      \/ /\ handler'[g].old \in Tokens /\ NotRevoked(handler'[g].old)
         /\ UNCHANGED parent
  BY <1>1, <1>2, <1>3, <1>4
  DEF Next, vars, RevokeAndLogout, HSetNX, HSetNXFails, ExpireAt, ExpireAtFails,
      Issue, Fail, JwtExpires, KeyExpires, At
<1> QED
  BY <1>5 DEF Exchanging, At

(* An exchange finds no successor of its token, and leaves one.            *)
LEMMA ExchangedByOneStep ==
  ASSUME RInv, OneRefreshAtATime, ExchangedByOne, [Next]_vars
  PROVE  ExchangedByOne'
<1> USE DEF RInv, TypeOK
<1>1. ASSUME NEW h \in Handlers, NEW n \in Tokens, RevokeAndRotate(h, n)
      PROVE  ExchangedByOne'
  <2>1. PICK t \in Tokens :
          /\ t = handler[h].old /\ Exchanging(h) /\ Children(t) = {}
          /\ parent' = [parent EXCEPT ![n] = t] /\ Fresh(n)
    BY <1>1 DEF RevokeAndRotate, Exchanging, At, Held, ExchangedByOne
  <2>2. Children(t)' = {n}
    BY <2>1 DEF Children
  <2>3. \A k \in Tokens \ {t} : Children(k)' = Children(k)
    BY <2>1, TokenAssumption DEF Children, Fresh
  <2>4. RotatedOnce'
    BY <2>2, <2>3 DEF ExchangedByOne, RotatedOnce
  <2>5. ASSUME NEW g \in Handlers, Exchanging(g)'
        PROVE  Children(handler[g].old)' = {}
    <3>1. parent' # parent
      BY <2>1, TokenAssumption DEF Fresh
    <3>2. Exchanging(g) /\ handler'[g] = handler[g]
      BY <2>5, <3>1, ExchangingChange
    <3>3. g # h
      BY <1>1, <2>5 DEF RevokeAndRotate, Exchanging, At, Calls
    <3>4. handler[g].old \in Tokens \ {t}
      BY <2>1, <3>2, <3>3 DEF OneRefreshAtATime, Held, Exchanging
    <3> QED
      BY <2>3, <3>2, <3>4 DEF ExchangedByOne
  <2> QED
    BY <2>4, <2>5 DEF ExchangedByOne
<1>2. ASSUME NEW h \in Handlers, NEW n \in Tokens, Login(h, n)
      PROVE  ExchangedByOne'
  <2>1. \A t \in Tokens : Children(t)' = Children(t)
    BY <1>2, TokenAssumption DEF Login, Fresh, Children
  <2>2. parent' # parent
    BY <1>2, TokenAssumption DEF Login, Fresh
  <2>3. \A g \in Handlers : Exchanging(g)' =>
          Exchanging(g) /\ handler'[g] = handler[g] /\ handler[g].old \in Tokens
    BY <2>2, ExchangingChange DEF Exchanging, Held
  <2> QED
    BY <2>1, <2>3 DEF ExchangedByOne, RotatedOnce
<1>3. CASE UNCHANGED parent
  <2>1. \A t \in Tokens : Children(t)' = Children(t)
    BY <1>3 DEF Children
  <2>2. ASSUME NEW g \in Handlers, Exchanging(g)'
        PROVE  handler'[g].old \in Tokens /\ Children(handler'[g].old) = {}
    BY <2>2, ExchangingChange
    DEF Exchanging, Held, ExchangedByOne, UsedIsRevoked, NotRevoked
  <2> QED
    BY <2>1, <2>2 DEF ExchangedByOne, RotatedOnce
<1> QED
  BY <1>1, <1>2, <1>3
  DEF Next, vars, HGet, RevokeAndLogout, HSetNX, HSetNXFails, ExpireAt,
      ExpireAtFails, Issue, Fail, JwtExpires, KeyExpires

(* docs.mdx:50 holds in every behaviour in which no two refreshes of one   *)
(* token overlap between the HGET and the HSET of Revoke: no logout, lost  *)
(* answer, failed write or expired key gives a token two successors.       *)
THEOREM RotatedOnceWithoutOverlap ==
  Spec /\ []OneRefreshAtATime => []RotatedOnce
<1>1. Init => ExchangedByOne
  BY TokenAssumption
  DEF Init, ExchangedByOne, Exchanging, At, RotatedOnce, Children
<1>2. RInv /\ OneRefreshAtATime /\ ExchangedByOne /\ [Next]_vars
        => ExchangedByOne'
  BY ExchangedByOneStep
<1>3. ExchangedByOne => RotatedOnce
  BY DEF ExchangedByOne
<1> QED
  BY <1>1, <1>2, <1>3, RefreshTokensInvariant, PTL DEF Spec

-----------------------------------------------------------------------------
(* A record becomes live for a token that was drawn, and no token is put    *)
(* back.                                                                    *)
LEMMA LiveIsDrawnStep == RInv /\ LiveIsDrawn /\ [Next]_vars => LiveIsDrawn'
<1> SUFFICES ASSUME RInv, LiveIsDrawn, [Next]_vars PROVE LiveIsDrawn'
  OBVIOUS
<1> USE TokenAssumption DEF RInv, TypeOK
<1>1. ASSUME NEW h \in Handlers, HSetNX(h) PROVE LiveIsDrawn'
  BY <1>1 DEF HSetNX, At, Held, Making, LiveIsDrawn, Fresh
<1>2. ASSUME NEW h \in Handlers, NEW n \in Tokens, RevokeAndRotate(h, n)
      PROVE  LiveIsDrawn'
  BY <1>2 DEF RevokeAndRotate, At, Held, LiveIsDrawn, Fresh
<1>3. ASSUME NEW h \in Handlers, NEW n \in Tokens, Login(h, n)
      PROVE  LiveIsDrawn'
  BY <1>3 DEF Login, LiveIsDrawn, Fresh
<1>4. ASSUME NEW h \in Handlers, RevokeAndLogout(h) PROVE LiveIsDrawn'
  BY <1>4 DEF RevokeAndLogout, LiveIsDrawn, Fresh
<1>5. ASSUME NEW t \in Tokens, KeyExpires(t) PROVE LiveIsDrawn'
  BY <1>5 DEF KeyExpires, LiveIsDrawn, Fresh
<1>6. CASE UNCHANGED <<record, parent>>
  BY <1>6 DEF LiveIsDrawn, Fresh
<1> QED
  BY <1>1, <1>2, <1>3, <1>4, <1>5, <1>6
  DEF Next, vars, HGet, HSetNXFails, ExpireAt, ExpireAtFails, Issue, Fail,
      JwtExpires

(* A token that is drawn starts a sign-in of its own or continues, as its   *)
(* last, the one of the token it is exchanged for.                          *)
LEMMA DrawKeepsChains ==
  ASSUME RInv, SignInsAreChains, NEW n \in Tokens, Fresh(n),
         NEW t \in Tokens \cup {NoToken}, parent' = [parent EXCEPT ![n] = t],
         t \in Tokens => Last(t)
  PROVE  SignInsAreChains'
<1> USE TokenAssumption DEF RInv, TypeOK
<1>1. PICK R \in SignIns :
        /\ \A k \in Tokens : ~Fresh(k) => ~Fresh(R[k])
        /\ \A j, k \in Tokens : Last(j) /\ Last(k) /\ R[j] = R[k] => j = k
  BY DEF SignInsAreChains
<1>2. R \in [Tokens -> Tokens]
  BY DEF SignIns
<1>3. t # n
  BY DEF Last
<1>4. /\ parent'[n] = t
      /\ \A k \in Tokens \ {n} : parent'[k] = parent[k]
  OBVIOUS
<1>5. \A k \in Tokens : parent[k] # n
  BY DEF IssuedFirst, Children
<1>6. /\ ~Fresh(n)'
      /\ \A k \in Tokens \ {n} : Fresh(k)' <=> Fresh(k)
  BY <1>4 DEF Fresh
<1>7. /\ Last(n)'
      /\ \A k \in Tokens \ {n} : Last(k)' => Last(k) /\ k # t
  <2>1. Children(n)' = {}
    BY <1>3, <1>4, <1>5 DEF Children
  <2>2. \A k \in Tokens \ {n, t} : Children(k)' = Children(k)
    BY <1>4 DEF Children, Fresh
  <2>3. t \in Tokens => n \in Children(t)'
    BY <1>4 DEF Children
  <2> QED
    <3>1. Last(n)'
      BY <1>6, <2>1 DEF Last
    <3>2. ASSUME NEW k \in Tokens \ {n}, Last(k)' PROVE Last(k) /\ k # t
      <4>1. k # t
        BY <2>3, <3>2 DEF Last
      <4>2. Children(k) = {} /\ ~Fresh(k)
        BY <1>6, <2>2, <3>2, <4>1 DEF Last
      <4> QED
        BY <4>1, <4>2 DEF Last
    <3> QED
      BY <3>1, <3>2
<1> DEFINE root == IF t \in Tokens THEN R[t] ELSE n
           Q == [R EXCEPT ![n] = root]
<1>8. /\ root \in Tokens /\ Q \in [Tokens -> Tokens] /\ Q[n] = root
      /\ \A k \in Tokens \ {n} : Q[k] = R[k]
  BY <1>2
<1>9. Q \in SignIns'
  <2> SUFFICES ASSUME NEW k \in Tokens
               PROVE  /\ parent'[k] = NoToken => Q[k] = k
                      /\ parent'[k] \in Tokens => Q[k] = Q[parent'[k]]
    BY <1>8 DEF SignIns
  <2>1. CASE k = n
    BY <1>3, <1>4, <1>8, <2>1
  <2>2. CASE k # n
    BY <1>1, <1>4, <1>5, <1>8, <2>2 DEF SignIns
  <2> QED
    BY <2>1, <2>2
<1>10. \A k \in Tokens : ~Fresh(k)' => ~Fresh(Q[k])'
  <2>1. parent'[root] # "unused"
    <3>1. CASE t \in Tokens
      <4>1. ~Fresh(R[t]) /\ R[t] \in Tokens
        BY <1>1, <1>2, <3>1 DEF Last
      <4> QED
        BY <1>4, <3>1, <4>1 DEF Fresh
    <3>2. CASE t \notin Tokens
      BY <1>4, <3>2
    <3> QED
      BY <3>1, <3>2
  <2>2. \A k \in Tokens \ {n} : parent'[k] # "unused" => parent'[R[k]] # "unused"
    BY <1>1, <1>2, <1>4 DEF Fresh
  <2> HIDE DEF Q, root
  <2>3. \A k \in Tokens : parent'[k] # "unused" => parent'[Q[k]] # "unused"
    BY <1>8, <2>1, <2>2
  <2> QED
    BY <2>3 DEF Fresh
<1>11. ASSUME NEW k \in Tokens \ {n}, Last(k)' PROVE Q[k] # Q[n]
  <2>1. Last(k) /\ k # t
    BY <1>7, <1>11
  <2>2. CASE t \in Tokens
    BY <1>1, <1>8, <2>1, <2>2
  <2>3. CASE t \notin Tokens
    BY <1>1, <1>2, <1>8, <2>1, <2>3 DEF Last
  <2> QED
    BY <2>2, <2>3
<1>12. \A j, k \in Tokens : Last(j)' /\ Last(k)' /\ Q[j] = Q[k] => j = k
  BY <1>1, <1>7, <1>8, <1>11
<1> HIDE DEF Q, root
<1> QED
  BY <1>9, <1>10, <1>12 DEF SignInsAreChains

LEMMA ChainsStep ==
  ASSUME RInv, ExchangedByOne, SignInsAreChains, [Next]_vars
  PROVE  SignInsAreChains'
<1> USE DEF RInv, TypeOK
<1>1. ASSUME NEW h \in Handlers, NEW n \in Tokens, RevokeAndRotate(h, n)
      PROVE  SignInsAreChains'
  <2>1. PICK t \in Tokens : t = handler[h].old /\ Exchanging(h) /\ t \in issued
    BY <1>1 DEF RevokeAndRotate, Exchanging, At, Held
  <2>2. Last(t)
    BY <2>1 DEF ExchangedByOne, IssuedFirst, Last
  <2>3. parent' = [parent EXCEPT ![n] = t] /\ Fresh(n)
    BY <1>1, <2>1 DEF RevokeAndRotate
  <2> QED
    BY <2>2, <2>3, DrawKeepsChains
<1>2. ASSUME NEW h \in Handlers, NEW n \in Tokens, Login(h, n)
      PROVE  SignInsAreChains'
  <2>1. parent' = [parent EXCEPT ![n] = NoToken] /\ Fresh(n)
    BY <1>2 DEF Login
  <2> QED
    BY <2>1, TokenAssumption, DrawKeepsChains
<1>3. CASE UNCHANGED parent
  BY <1>3 DEF SignInsAreChains, SignIns, Last, Fresh, Children
<1> QED
  BY <1>1, <1>2, <1>3
  DEF Next, vars, HGet, RevokeAndLogout, HSetNX, HSetNXFails, ExpireAt,
      ExpireAtFails, Issue, Fail, JwtExpires, KeyExpires

(* What rotation is for (docs.mdx:50, 80): while no two refreshes of one    *)
(* token overlap, each sign-in has at most one live token, whatever else    *)
(* overlaps, fails or expires.                                              *)
THEOREM OneLivePerSignInWithoutOverlap ==
  Spec /\ []OneRefreshAtATime => []OneLivePerSignIn
<1>1. Init => ExchangedByOne /\ LiveIsDrawn /\ SignInsAreChains
  <2> SUFFICES ASSUME Init
               PROVE  ExchangedByOne /\ LiveIsDrawn /\ SignInsAreChains
    OBVIOUS
  <2>1. ExchangedByOne /\ LiveIsDrawn
    BY TokenAssumption
    DEF Init, ExchangedByOne, Exchanging, At, RotatedOnce, Children, LiveIsDrawn
  <2>2. \A t \in Tokens : Fresh(t)
    BY DEF Init, Fresh
  <2>3. [t \in Tokens |-> t] \in SignIns
    BY TokenAssumption DEF Init, SignIns
  <2> QED
    BY <2>1, <2>2, <2>3 DEF SignInsAreChains, Last
<1>2. RInv /\ OneRefreshAtATime /\ ExchangedByOne /\ [Next]_vars
        => ExchangedByOne'
  BY ExchangedByOneStep
<1>3. RInv /\ ExchangedByOne /\ SignInsAreChains /\ [Next]_vars
        => SignInsAreChains'
  BY ChainsStep
<1>4. RInv /\ LiveIsDrawn /\ SignInsAreChains => OneLivePerSignIn
  BY DEF RInv, UsedIsRevoked, LiveIsDrawn, SignInsAreChains, Last, OneLivePerSignIn
<1> QED
  BY <1>1, <1>2, <1>3, <1>4, LiveIsDrawnStep, RefreshTokensInvariant, PTL DEF Spec
=============================================================================
