----------------------------- MODULE RefreshTokens -----------------------------
(***************************************************************************)
(* Refresh tokens: AuthApi.Login, Refresh and Logout over the token store  *)
(* in Redis.  A token's record is a hash "token:<jti>" with one field,     *)
(* revoked; every Redis command is a step of its own, so calls interleave  *)
(* between the HGET and the HSET of Revoke, and between the HSETNX and the *)
(* EXPIREAT of Save, whose error CreateRefreshToken ignores.               *)
(***************************************************************************)
CONSTANTS
  Tokens,    (* jtis (uuid.NewString); bounds the tokens of an instance      *)
  NoToken,
  Handlers,  (* HTTP requests in flight at one time                          *)
  Idle       (* a handler slot that serves no request                        *)

VARIABLES
  record,    (* the record of each jti in Redis                              *)
  ttl,       (* the jtis whose record has a time to live                     *)
  expired,   (* the jtis whose JWT is no longer accepted                     *)
  issued,    (* the tokens sent to a client as a cookie                      *)
  parent,    (* history: the token each one was exchanged for                *)
  handler

vars == <<record, ttl, expired, issued, parent, handler>>

Calls ==
  [pc : {"hSet", "hSetNX", "expireAt", "userGet"},
   call : {"login", "refresh", "logout"},
   old : Tokens \cup {NoToken}, new : Tokens \cup {NoToken}]

ASSUME TokenAssumption ==
  /\ NoToken \notin Tokens
  /\ "unused" \notin Tokens \cup {NoToken}
  /\ Idle \notin Calls

At(h, pc) == handler[h] # Idle /\ handler[h].pc = pc

GoTo(h, pc) == handler' = [handler EXCEPT ![h].pc = pc]
Return(h)   == handler' = [handler EXCEPT ![h] = Idle]

(* A jti nobody has drawn: "unused" only before NewClaims makes it.        *)
Fresh(t) == parent[t] = "unused"

Init ==
  /\ record = [t \in Tokens |-> "missing"]
  /\ ttl = {} /\ expired = {} /\ issued = {}
  /\ parent = [t \in Tokens |-> "unused"]
  /\ handler = [h \in Handlers |-> Idle]

-----------------------------------------------------------------------------
(* Login, once the password (or the Google sign-in) has been checked,      *)
(* draws a token.                                                          *)
Login(h, n) ==
  /\ handler[h] = Idle
  /\ Fresh(n)
  /\ parent' = [parent EXCEPT ![n] = NoToken]
  /\ handler' = [handler EXCEPT ![h] =
       [pc |-> "hSetNX", call |-> "login", old |-> NoToken, new |-> n]]
  /\ UNCHANGED <<record, ttl, expired, issued>>

(* Fault: a record that is not there counts as one that is not revoked.    *)
NotRevoked_MissingCounts(t) == record[t] # "revoked"

NotRevoked(t) == record[t] = "live"

(* Refresh and Logout reach the store with a cookie whose JWT is still     *)
(* valid.  HGET returns an error for a missing record; a revoked one ends  *)
(* the call.  Either leaves no trace.                                      *)
HGet(h, call, t) ==
  /\ handler[h] = Idle
  /\ t \in issued \ expired
  /\ NotRevoked(t)
  /\ handler' = [handler EXCEPT ![h] =
       [pc |-> "hSet", call |-> call, old |-> t, new |-> NoToken]]
  /\ UNCHANGED <<record, ttl, expired, issued, parent>>

(* Fault: the new token is made before the old one is revoked, and the     *)
(* write that revokes it is lost.                                          *)
RevokeAndRotate_Unrevoked(h, n) ==
  /\ At(h, "hSet") /\ handler[h].call = "refresh"
  /\ Fresh(n)
  /\ parent' = [parent EXCEPT ![n] = handler[h].old]
  /\ handler' = [handler EXCEPT ![h].pc = "hSetNX", ![h].new = n]
  /\ UNCHANGED <<record, ttl, expired, issued>>

(* HSET does not look at the record again; on a key that has expired since *)
(* the HGET it makes a new one without a time to live.                     *)
RevokeAndRotate(h, n) ==
  /\ At(h, "hSet") /\ handler[h].call = "refresh"
  /\ Fresh(n)
  /\ record' = [record EXCEPT ![handler[h].old] = "revoked"]
  /\ parent' = [parent EXCEPT ![n] = handler[h].old]
  /\ handler' = [handler EXCEPT ![h].pc = "hSetNX", ![h].new = n]
  /\ UNCHANGED <<ttl, expired, issued>>

(* Fault: Logout goes on after the revocation as Refresh does.             *)
RevokeAndLogout_FallsThrough(h) ==
  /\ At(h, "hSet") /\ handler[h].call = "logout"
  /\ record' = [record EXCEPT ![handler[h].old] = "revoked"]
  /\ GoTo(h, "userGet")
  /\ UNCHANGED <<ttl, expired, issued, parent>>

(* Logout revokes and clears the cookie.                                   *)
RevokeAndLogout(h) ==
  /\ At(h, "hSet") /\ handler[h].call = "logout"
  /\ record' = [record EXCEPT ![handler[h].old] = "revoked"]
  /\ Return(h)
  /\ UNCHANGED <<ttl, expired, issued, parent>>

-----------------------------------------------------------------------------
(* TokenStore.Save and the rest of CreateRefreshToken.                     *)

(* An error can hide a write that took place: Save then skips EXPIREAT.    *)
HSetNX(h) ==
  /\ At(h, "hSetNX")
  /\ record' = [record EXCEPT ![handler[h].new] = "live"]
  /\ \E next \in {"expireAt", "userGet"} : GoTo(h, next)
  /\ UNCHANGED <<ttl, expired, issued, parent>>

HSetNXFails(h) ==
  /\ At(h, "hSetNX")
  /\ GoTo(h, "userGet")
  /\ UNCHANGED <<record, ttl, expired, issued, parent>>

ExpireAt(h) ==
  /\ At(h, "expireAt")
  /\ ttl' = ttl \cup {handler[h].new}
  /\ GoTo(h, "userGet")
  /\ UNCHANGED <<record, expired, issued, parent>>

ExpireAtFails(h) ==
  /\ At(h, "expireAt")
  /\ GoTo(h, "userGet")
  /\ UNCHANGED <<record, ttl, expired, issued, parent>>

(* userService.Get answers, the cookie is set.                             *)
Issue(h) ==
  /\ At(h, "userGet")
  /\ issued' = issued \cup {handler[h].new}
  /\ Return(h)
  /\ UNCHANGED <<record, ttl, expired, parent>>

(* The call ends early: an error of HSET or of userService.Get, or the     *)
(* server goes down.  What Redis has done stays.                           *)
Fail(h) ==
  /\ handler[h] # Idle
  /\ Return(h)
  /\ UNCHANGED <<record, ttl, expired, issued, parent>>

-----------------------------------------------------------------------------
(* Seven days pass; the server's clock ends the JWT, Redis' clock the key, *)
(* in either order.                                                        *)
JwtExpires(t) ==
  /\ t \in issued \ expired
  /\ expired' = expired \cup {t}
  /\ UNCHANGED <<record, ttl, issued, parent, handler>>

KeyExpires(t) ==
  /\ t \in issued \cap ttl
  /\ record' = [record EXCEPT ![t] = "missing"]
  /\ ttl' = ttl \ {t}
  /\ UNCHANGED <<expired, issued, parent, handler>>

Next ==
  \/ \E h \in Handlers, t \in Tokens :
       \/ Login(h, t)
       \/ \E call \in {"refresh", "logout"} : HGet(h, call, t)
       \/ RevokeAndRotate(h, t)
  \/ \E h \in Handlers :
       \/ RevokeAndLogout(h)
       \/ HSetNX(h) \/ HSetNXFails(h) \/ ExpireAt(h) \/ ExpireAtFails(h)
       \/ Issue(h) \/ Fail(h)
  \/ \E t \in Tokens : JwtExpires(t) \/ KeyExpires(t)

Spec == Init /\ [][Next]_vars

-----------------------------------------------------------------------------
TypeOK ==
  /\ record \in [Tokens -> {"missing", "live", "revoked"}]
  /\ ttl \subseteq Tokens /\ issued \subseteq Tokens
  /\ expired \subseteq issued
  /\ parent \in [Tokens -> Tokens \cup {NoToken, "unused"}]
  /\ handler \in [Handlers -> Calls \cup {Idle}]

Children(t) == {n \in Tokens : parent[n] = t}

(* docs.mdx:80, "During token refresh, the previous refresh token is       *)
(* revoked": whatever Redis loses, and whoever refreshes at the same time, *)
(* a token that has a successor is never live again.                       *)
UsedIsRevoked ==
  \A t \in Tokens : Children(t) # {} => record[t] # "live"

(* What the calls in flight hold: the token being revoked was given to a   *)
(* client, the one being made is drawn, unknown to clients and the call's  *)
(* own.                                                                    *)
Making(h) == handler[h] # Idle /\ handler[h].pc # "hSet"

Held ==
  /\ \A h \in Handlers : At(h, "hSet") => handler[h].old \in issued
  /\ \A h \in Handlers :
       Making(h) => /\ handler[h].new \in Tokens \ issued
                    /\ ~Fresh(handler[h].new)
  /\ \A g, h \in Handlers :
       Making(g) /\ Making(h) /\ handler[g].new = handler[h].new => g = h

(* Clients know only tokens that were drawn, and only those are exchanged. *)
IssuedFirst ==
  \A t \in Tokens : /\ t \in issued => ~Fresh(t)
                    /\ Children(t) # {} => t \in issued

RInv == TypeOK /\ Held /\ IssuedFirst /\ UsedIsRevoked

(* No call can use this token any more: its record was revoked or is gone, *)
(* and no call is left that had read it before.                            *)
Dead(t) ==
  /\ t \in issued /\ record[t] # "live"
  /\ \A h \in Handlers : At(h, "hSet") => handler[h].old # t

(* A token a client has been given and that is dead - logged out, used, or *)
(* lost by Redis - stays dead: no call takes it up and it is exchanged for *)
(* nothing, whatever commands of other calls are still to come.            *)
NoExchangeOfDeadToken ==
  [][\A t \in Tokens :
       Dead(t) => Dead(t)' /\ Children(t)' = Children(t)]_vars

(* docs.mdx:50, a refresh token is rotated when it is used: it is          *)
(* exchanged for one new token, never for two.                             *)
RotatedOnce == \A t \in Tokens : \A m, n \in Children(t) : m = n

(* No two refreshes of one token have both read its record and not yet     *)
(* written it: what Revoke (auth/store.go:46-70) does not ensure, and the  *)
(* only thing RotatedOnce lacks.  A logout may overlap.                    *)
Exchanging(h) == At(h, "hSet") /\ handler[h].call = "refresh"

OneRefreshAtATime ==
  \A g, h \in Handlers :
    Exchanging(g) /\ Exchanging(h) /\ handler[g].old = handler[h].old => g = h

(* What a refresh has in hand has not been exchanged yet, and each token   *)
(* that was exchanged was exchanged once.                                  *)
ExchangedByOne ==
  /\ \A h \in Handlers : Exchanging(h) => Children(handler[h].old) = {}
  /\ RotatedOnce

(* The sign-in each token goes back to, through the exchanges it came of.  *)
SignIns ==
  {R \in [Tokens -> Tokens] :
     \A t \in Tokens :
       /\ parent[t] = NoToken => R[t] = t
       /\ parent[t] \in Tokens => R[t] = R[parent[t]]}

(* What rotation is for: however often a client has refreshed, and         *)
(* whatever failed on the way, one token of its sign-in at most is live.   *)
OneLivePerSignIn ==
  \E R \in SignIns :
    \A s, t \in Tokens :
      record[s] = "live" /\ record[t] = "live" /\ R[s] = R[t] => s = t

(* What that rests on: the tokens of a sign-in are a chain, of which only  *)
(* the last may be live.                                                   *)
Last(t) == ~Fresh(t) /\ Children(t) = {}

LiveIsDrawn == \A t \in Tokens : record[t] = "live" => ~Fresh(t)

SignInsAreChains ==
  \E R \in SignIns :
    /\ \A t \in Tokens : ~Fresh(t) => ~Fresh(R[t])
    /\ \A s, t \in Tokens : Last(s) /\ Last(t) /\ R[s] = R[t] => s = t
=============================================================================
