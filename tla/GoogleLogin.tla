------------------------------ MODULE GoogleLogin ------------------------------
(***************************************************************************)
(* Sign-in with Google and the linking of a Google account to a user.      *)
(* Each of the two flows is a pair of HTTP requests around a visit to      *)
(* Google: the first draws a random state, keeps it and the PKCE verifier  *)
(* in Redis for a minute and answers with Google's URL; the second is the  *)
(* callback.  A flow is named by its state; its verifier and the token a   *)
(* sign-in ends with are drawn once per flow and named by it too.          *)
(*                                                                         *)
(* All requests share ONE oauth2.Config, and both flows assign its         *)
(* RedirectURL without a lock.  A Go string is two words, pointer and      *)
(* length, so the assignment is two steps, and what is read in between is  *)
(* no URL that Google knows.                                               *)
(***************************************************************************)
CONSTANTS
  States,    (* random states; bounds the flows of an instance               *)
  Subjects,  (* people, as Google identifies them                            *)
  Emails,    (* one user per address; an address never changes, so it also   *)
             (* stands for the user's id                                     *)
  EmailsOf,  (* the addresses Google reports for a subject, over time        *)
  Names,     (* user names                                                   *)
  LocalPart, (* the part of an address before the @, a new user's name       *)
  None,
  Handlers,  (* HTTP requests in flight at one time                          *)
  Idle       (* a handler slot that serves no request                        *)

VARIABLES
  user,      (* users rows: how the row came about, and the user name        *)
  account,   (* oauth_accounts rows: the user of each subject                *)
  redis,     (* live keys                                                    *)
  redirect,  (* the two words of config.RedirectURL                          *)
  begun,     (* the kind of each flow that was begun                         *)
  url,       (* the redirect URI in the URL each flow was answered with      *)
  consent,   (* who agreed at Google, and so holds the authorization code    *)
  used,      (* codes that were exchanged                                    *)
  answer,    (* the user each sign-in was answered with                      *)
  sessions,  (* history: for which user whose token began a session          *)
  handler

vars == <<user, account, redis, redirect, begun, url, consent, used, answer,
          sessions, handler>>

tables == <<user, account, answer, sessions>>
google == <<consent, used>>

Kinds   == {"login", "connect"}   (* each with a redirect URI of its name    *)
KeyUses == {"state", "verifier", "token"}
Words   == {"pointer", "length"}

Users   == [via : {"google", "password"}, name : Names]

Key(use, st) == [use |-> use, st |-> st]

BeginPCs    == {"storeVerifier", "setRedirect"}
CallbackPCs == {"getVerifier", "exchange"}
EmailPCs    == {"getAccount", "signUp", "getNewAccount", "storeToken",
                "getByEmail", "link"}
Calls ==
  [pc : BeginPCs, st : States, todo : SUBSET Words]
    \cup [pc : CallbackPCs, st : States]
    \cup [pc : EmailPCs, st : States, email : Emails]

ASSUME GoogleAssumption ==
  /\ EmailsOf \in [Subjects -> SUBSET Emails]
  /\ LocalPart \in [Emails -> Names]
  /\ None \notin Kinds \cup Subjects \cup Emails \cup Users
  /\ Idle \notin Calls

At(h, pc) == handler[h] # Idle /\ handler[h].pc = pc

Become(h, call) == handler' = [handler EXCEPT ![h] = call]
GoTo(h, pc)     == handler' = [handler EXCEPT ![h].pc = pc]
Return(h)       == Become(h, Idle)

(* The URI that a read of config.RedirectURL yields.                       *)
Garbled == "garbled"
RedirectURL ==
  IF redirect["pointer"] = redirect["length"] THEN redirect["pointer"]
                                              ELSE Garbled

Init ==
  /\ user = [e \in Emails |-> None]
  /\ account = [s \in Subjects |-> None]
  /\ redis = {} /\ used = {} /\ sessions = {}
  /\ redirect = [w \in Words |-> None]
  /\ begun = [st \in States |-> None]
  /\ url = [st \in States |-> None]
  /\ consent = [st \in States |-> None]
  /\ answer = [st \in States |-> None]
  /\ handler = [h \in Handlers |-> Idle]

-----------------------------------------------------------------------------
(* RegisterService.CreateAccount: the users row of a password account.  The *)
(* address and the name are unique.                                        *)
NameIsFree(n) == \A e \in Emails : user[e] # None => user[e].name # n

Register(e, n) ==
  /\ user[e] = None /\ NameIsFree(n)
  /\ user' = [user EXCEPT ![e] = [via |-> "password", name |-> n]]
  /\ UNCHANGED <<account, answer, sessions, redis, redirect, begun, url, google,
                 handler>>

-----------------------------------------------------------------------------
(* GetAuthCodeURL and GetConnectURL store the state under a fresh name...  *)
StoreState(h, st, kind) ==
  /\ handler[h] = Idle
  /\ begun[st] = None
  /\ begun' = [begun EXCEPT ![st] = kind]
  /\ redis' = redis \cup {Key("state", st)}
  /\ Become(h, [pc |-> "storeVerifier", st |-> st, todo |-> Words])
  /\ UNCHANGED <<tables, google, redirect, url>>

(* ... then the verifier ...                                               *)
StoreVerifier(h) ==
  /\ At(h, "storeVerifier")
  /\ redis' = redis \cup {Key("verifier", handler[h].st)}
  /\ GoTo(h, "setRedirect")
  /\ UNCHANGED <<tables, google, redirect, begun, url>>

(* Fault: GetConnectURL assigns the URI of the sign-in.                    *)
SetRedirect_SameURI(h, w) ==
  /\ At(h, "setRedirect")
  /\ w \in handler[h].todo
  /\ redirect' = [redirect EXCEPT ![w] = "login"]
  /\ handler' = [handler EXCEPT ![h].todo = @ \ {w}]
  /\ UNCHANGED <<tables, google, redis, begun, url>>

(* ... then assign config.RedirectURL, word by word ...                    *)
SetRedirect(h, w) ==
  /\ At(h, "setRedirect")
  /\ w \in handler[h].todo
  /\ redirect' = [redirect EXCEPT ![w] = begun[handler[h].st]]
  /\ handler' = [handler EXCEPT ![h].todo = @ \ {w}]
  /\ UNCHANGED <<tables, google, redis, begun, url>>

(* ... and build the URL from the config as it is by now.                  *)
AuthCodeURL(h) ==
  /\ At(h, "setRedirect")
  /\ handler[h].todo = {}
  /\ url' = [url EXCEPT ![handler[h].st] = RedirectURL]
  /\ Return(h)
  /\ UNCHANGED <<tables, google, redis, redirect, begun>>

(* Google knows both redirect URIs and refuses any other; who agrees is    *)
(* sent there with a code.                                                 *)
Consent(st, s) ==
  /\ url[st] \in Kinds
  /\ consent[st] = None
  /\ consent' = [consent EXCEPT ![st] = s]
  /\ UNCHANGED <<tables, used, redis, redirect, begun, url, handler>>

-----------------------------------------------------------------------------
(* The browser calls, perhaps again, the callback it was sent to:          *)
(* GoogleService.Callback or ConnectCallback.  getUserInfo starts with the *)
(* state.                                                                  *)
GetState(h, st) ==
  /\ handler[h] = Idle
  /\ consent[st] # None
  /\ Key("state", st) \in redis
  /\ Become(h, [pc |-> "getVerifier", st |-> st])
  /\ UNCHANGED <<tables, google, redis, redirect, begun, url>>

GetVerifier(h) ==
  /\ At(h, "getVerifier")
  /\ IF Key("verifier", handler[h].st) \in redis
     THEN GoTo(h, "exchange")
     ELSE Return(h)
  /\ UNCHANGED <<tables, google, redis, redirect, begun, url>>

(* config.Exchange sends config.RedirectURL as it is by now; Google takes  *)
(* a code once and only with the URI it was issued for.  Then the address  *)
(* of the user is fetched.                                                 *)
Exchange(h, e) ==
  /\ At(h, "exchange")
  /\ LET st == handler[h].st
         With(pc) == Become(h, [pc |-> pc, st |-> st, email |-> e])
     IN /\ e \in EmailsOf[consent[st]]
        /\ IF st \notin used /\ RedirectURL = url[st]
           THEN /\ used' = used \cup {st}
                /\ With(IF url[st] = "login" THEN "getAccount"
                                             ELSE "getByEmail")
           ELSE Return(h) /\ UNCHANGED used
  /\ UNCHANGED <<tables, consent, redis, redirect, begun, url>>

Subject(h) == consent[handler[h].st]

-----------------------------------------------------------------------------
(* Callback: sign in, or sign up.                                          *)

StoreTokenFor(h, u) ==
  Become(h, [pc |-> "storeToken", st |-> handler[h].st, email |-> u])

(* Fault: the user is looked up by the address that Google reports.        *)
GetAccount_ByEmail(h) ==
  /\ At(h, "getAccount")
  /\ IF user[handler[h].email] # None THEN StoreTokenFor(h, handler[h].email)
                                      ELSE GoTo(h, "signUp")
  /\ UNCHANGED <<tables, google, redis, redirect, begun, url>>

GetAccount(h) ==
  /\ At(h, "getAccount")
  /\ IF account[Subject(h)] # None THEN StoreTokenFor(h, account[Subject(h)])
                                   ELSE GoTo(h, "signUp")
  /\ UNCHANGED <<tables, google, redis, redirect, begun, url>>

CanCreateUser(e) == user[e] = None /\ NameIsFree(LocalPart[e])
NewUser(e)       == [via |-> "google", name |-> LocalPart[e]]

(* Unique indexes on (provider, subject) and on (provider, user_id).       *)
CanLink(s, u) == account[s] = None /\ \A t \in Subjects : account[t] # u

(* Fault: the two inserts are not in one transaction.                      *)
SignUp_NoTx(h) ==
  /\ At(h, "signUp")
  /\ LET e == handler[h].email
         s == Subject(h)
     IN IF CanCreateUser(e)
        THEN /\ user' = [user EXCEPT ![e] = NewUser(e)]
             /\ IF CanLink(s, e)
                THEN account' = [account EXCEPT ![s] = e] /\ GoTo(h, "getNewAccount")
                ELSE Return(h) /\ UNCHANGED account
        ELSE Return(h) /\ UNCHANGED <<user, account>>
  /\ UNCHANGED <<answer, sessions, google, redis, redirect, begun, url>>

(* One transaction that only inserts: the user under the name before the @ *)
(* and the account.  A key that exists fails it as a whole.                *)
SignUp(h) ==
  /\ At(h, "signUp")
  /\ LET e == handler[h].email
         s == Subject(h)
     IN IF CanCreateUser(e) /\ CanLink(s, e)
        THEN /\ user' = [user EXCEPT ![e] = NewUser(e)]
             /\ account' = [account EXCEPT ![s] = e]
             /\ GoTo(h, "getNewAccount")
        ELSE Return(h) /\ UNCHANGED <<user, account>>
  /\ UNCHANGED <<answer, sessions, google, redis, redirect, begun, url>>

(* Fault: the account found missing before is used, not the new one.       *)
GetNewAccount_NotRead(h) ==
  /\ At(h, "getNewAccount")
  /\ StoreTokenFor(h, None)
  /\ UNCHANGED <<tables, google, redis, redirect, begun, url>>

GetNewAccount(h) ==
  /\ At(h, "getNewAccount")
  /\ StoreTokenFor(h, account[Subject(h)])
  /\ UNCHANGED <<tables, google, redis, redirect, begun, url>>

(* The token is kept for a minute and sent to the browser with the user.   *)
StoreToken(h) ==
  /\ At(h, "storeToken")
  /\ redis' = redis \cup {Key("token", handler[h].st)}
  /\ answer' = [answer EXCEPT ![handler[h].st] = handler[h].email]
  /\ Return(h)
  /\ UNCHANGED <<user, account, sessions, google, redirect, begun, url>>

(* GoogleApi.Login: user id and token are what the client sends.  The      *)
(* token has to be live, the user has to exist; nothing relates the two,   *)
(* and the token is not taken back.  Without such a user the call fails    *)
(* and leaves a refresh token in Redis that nobody was given.              *)
Login(st, u) ==
  /\ answer[st] # None
  /\ Key("token", st) \in redis
  /\ user[u] # None
  /\ sessions' = sessions \cup {[subject |-> consent[st], user |-> u]}
  /\ UNCHANGED <<user, account, answer, google, redis, redirect, begun, url,
                 handler>>

-----------------------------------------------------------------------------
(* ConnectCallback: the user with the address Google reports is linked.    *)
GetByEmail(h) ==
  /\ At(h, "getByEmail")
  /\ IF user[handler[h].email] # None THEN GoTo(h, "link") ELSE Return(h)
  /\ UNCHANGED <<tables, google, redis, redirect, begun, url>>

(* Fault: the insert is an upsert.                                         *)
Link_Upsert(h) ==
  /\ At(h, "link")
  /\ account' = [account EXCEPT ![Subject(h)] = handler[h].email]
  /\ Return(h)
  /\ UNCHANGED <<user, answer, sessions, google, redis, redirect, begun, url>>

Link(h) ==
  /\ At(h, "link")
  /\ account' = IF CanLink(Subject(h), handler[h].email)
                THEN [account EXCEPT ![Subject(h)] = handler[h].email]
                ELSE account
  /\ Return(h)
  /\ UNCHANGED <<user, answer, sessions, google, redis, redirect, begun, url>>

-----------------------------------------------------------------------------
(* A minute passes for a key.                                              *)
Expire(k) ==
  /\ k \in redis
  /\ redis' = redis \ {k}
  /\ UNCHANGED <<tables, google, redirect, begun, url, handler>>

(* A statement, Redis or Google fails.  Assignments do not.                *)
Fail(h) ==
  /\ handler[h] # Idle /\ ~At(h, "setRedirect")
  /\ Return(h)
  /\ UNCHANGED <<tables, google, redis, redirect, begun, url>>

(* The server goes down and comes back with a new config.                  *)
Restart ==
  /\ redirect' = [w \in Words |-> None]
  /\ handler' = [h \in Handlers |-> Idle]
  /\ UNCHANGED <<tables, google, redis, begun, url>>

Next ==
  \/ \E e \in Emails, n \in Names : Register(e, n)
  \/ \E st \in States :
       \/ \E s \in Subjects : Consent(st, s)
       \/ \E u \in Emails : Login(st, u)
       \/ \E use \in KeyUses : Expire(Key(use, st))
  \/ \E h \in Handlers :
       \/ \E st \in States, kind \in Kinds : StoreState(h, st, kind)
       \/ StoreVerifier(h)
       \/ \E w \in Words : SetRedirect(h, w)
       \/ AuthCodeURL(h)
       \/ \E st \in States : GetState(h, st)
       \/ GetVerifier(h)
       \/ \E e \in Emails : Exchange(h, e)
       \/ GetAccount(h) \/ SignUp(h) \/ GetNewAccount(h) \/ StoreToken(h)
       \/ GetByEmail(h) \/ Link(h)
       \/ Fail(h)
  \/ Restart

Spec == Init /\ [][Next]_vars

-----------------------------------------------------------------------------
URIs == Kinds \cup {None, Garbled}

TypeOK ==
  /\ user \in [Emails -> Users \cup {None}]
  /\ account \in [Subjects -> Emails \cup {None}]
  /\ redis \subseteq [use : KeyUses, st : States]
  /\ redirect \in [Words -> Kinds \cup {None}]
  /\ begun \in [States -> Kinds \cup {None}]
  /\ url \in [States -> URIs]
  /\ consent \in [States -> Subjects \cup {None}]
  /\ used \subseteq States
  /\ answer \in [States -> Emails \cup {None}]
  /\ sessions \subseteq [subject : Subjects, user : Emails]
  /\ handler \in [Handlers -> Calls \cup {Idle}]

(* The inductive invariant: what a request has established and the others   *)
(* leave as it is.  A flow that is being begun has no URL yet and belongs   *)
(* to one request; a callback is for somebody who agreed at the URL of a    *)
(* flow; a token is about to be stored, or was answered, for a linked user. *)
Beginning(h) == handler[h] # Idle /\ handler[h].pc \in BeginPCs

FreshFlows ==
  \A h \in Handlers : Beginning(h) =>
    /\ begun[handler[h].st] # None /\ url[handler[h].st] = None
    /\ \A g \in Handlers : Beginning(g) /\ handler[g].st = handler[h].st => g = h

Agreed ==
  /\ \A st \in States :
       /\ consent[st] # None => url[st] \in Kinds
       /\ url[st] # None => begun[st] # None
       /\ answer[st] # None => consent[st] # None
  /\ \A h \in Handlers : handler[h] # Idle /\ ~Beginning(h)
       => /\ consent[handler[h].st] # None
          /\ At(h, "getNewAccount") => account[Subject(h)] # None
          /\ At(h, "storeToken") => account[Subject(h)] = handler[h].email

OneKind ==
  \A kind \in Kinds :
    (\A st \in States : begun[st] \in {kind, None})
      => /\ \A w \in Words : redirect[w] \in {kind, None}
         /\ \A st \in States : url[st] \in {kind, None, Garbled}

(* A user who signed up with Google can sign in again: however sign-ups    *)
(* and links for the same person overlap, the row is linked to somebody    *)
(* (auth/openid/google.go:112).                                            *)
GoogleUserHasAccount ==
  \A e \in Emails : user[e] # None /\ user[e].via = "google"
                      => \E s \in Subjects : account[s] = e

(* A callback answers whoever agreed at Google with the user they are      *)
(* linked to (docs.mdx:86), by whichever address Google reports them now   *)
(* and whatever sign-up or link of theirs came first.                      *)
AnsweredAsLinked ==
  \A st \in States : answer[st] # None => account[consent[st]] = answer[st]

GInv ==
  /\ TypeOK /\ FreshFlows /\ Agreed /\ OneKind
  /\ GoogleUserHasAccount /\ AnsweredAsLinked

(* A Google account never moves from one user to another.                  *)
LinksAreKept ==
  [][\A s \in Subjects : account[s] # None => account'[s] = account[s]]_vars

(* Callbacks and sign-ins, with everything that may happen between their   *)
(* statements, do only what Linking allows in one step each.               *)
L == INSTANCE Linking

ImplementsLinking == L!Spec

(* What that rests on beside GInv: a callback goes by an address Google     *)
(* reported for its subject, and links a user who is there.                *)
ByReportedEmail ==
  \A h \in Handlers :
    handler[h] # Idle /\ handler[h].pc \in {"getAccount", "signUp", "getByEmail", "link"}
      => /\ handler[h].email \in EmailsOf[Subject(h)]
         /\ handler[h].pc = "link" => user[handler[h].email] # None

LInv == GInv /\ ByReportedEmail /\ L!OneToOne

(* While the server runs and every visitor uses the same flow, the shared  *)
(* config does no harm: a visitor comes back to the callback of that flow, *)
(* and no exchange is refused for its redirect URI.                        *)
OneFlowIsUndisturbed ==
  \A kind \in Kinds :
    /\ \A st \in States : begun[st] \in {kind, None}
    /\ \A w \in Words : redirect[w] # None
    => \A h \in Handlers :
         At(h, "exchange") => RedirectURL = kind /\ url[handler[h].st] = kind

(* README.md:13 and 14: signing in with Google works, and so does linking. *)
(* Whatever others do, a code that was not used is exchanged with the      *)
(* redirect URI it was issued for, torn words and restarts aside.          *)
ExchangeMatches ==
  RedirectURL \in Kinds
    => \A h \in Handlers :
         At(h, "exchange") /\ handler[h].st \notin used
           => RedirectURL = url[handler[h].st]
=============================================================================
