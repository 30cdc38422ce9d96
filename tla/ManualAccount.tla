----------------------------- MODULE ManualAccount -----------------------------
(***************************************************************************)
(* The password account of one user: registration, email verification,     *)
(* password reset and AddPassword, each call a goroutine of its own.       *)
(* Accounts do not meet: every query selects by user id, by the unique     *)
(* email or by a random token.                                             *)
(*                                                                         *)
(* Every update reads the whole row, changes some fields of the copy and   *)
(* saves the whole copy back (gorm Save), so a call that overlaps another  *)
(* writes old values over new ones.                                        *)
(***************************************************************************)
CONSTANTS
  Links,     (* random tokens, each stored as its hash and sent in a link;   *)
             (* bounds the tokens an instance draws                          *)
  NoLink,
  Passwords,
  NoRow,     (* there is no manual_accounts row                              *)
  Handlers,  (* HTTP requests in flight at one time                          *)
  Idle       (* a handler slot that serves no request                        *)

VARIABLES
  user,      (* how the users row came about: "none", "google", "registered" *)
  account,   (* the manual_accounts row                                      *)
  drawn,     (* tokens generated                                             *)
  mailed,    (* links that reached the user's mailbox                        *)
  expired,   (* tokens past their ...ExpiresAt                               *)
  spent,     (* history: reset links a password has been saved with          *)
  handler

vars == <<user, account, drawn, mailed, expired, spent, handler>>

(* usedAt: ResetPasswordTokenUsedAt is not NULL.                           *)
Rows ==
  [verified : BOOLEAN, vtoken : Links \cup {NoLink},
   rtoken : Links \cup {NoLink}, usedAt : BOOLEAN, password : Passwords]

NewRow(pw, verified) ==
  [verified |-> verified, vtoken |-> NoLink, rtoken |-> NoLink,
   usedAt |-> FALSE, password |-> pw]

(* row is the copy of the account the call works on.                       *)
SavePCs == {"saveVToken", "saveRToken", "saveVerified", "savePassword"}
Calls ==
  [pc : SavePCs, row : Rows, link : Links, password : Passwords]
    \cup [pc : {"getToken", "insertAccount"}, password : Passwords]
    \cup [pc : {"mail"}, link : Links]

ASSUME AccountAssumption ==
  NoLink \notin Links /\ NoRow \notin Rows /\ Idle \notin Calls

At(h, pc) == handler[h] # Idle /\ handler[h].pc = pc

Become(h, call) == handler' = [handler EXCEPT ![h] = call]
Return(h)       == Become(h, Idle)

Init ==
  /\ user = "none" /\ account = NoRow
  /\ drawn = {} /\ mailed = {} /\ expired = {} /\ spent = {}
  /\ handler = [h \in Handlers |-> Idle]

-----------------------------------------------------------------------------
(* RegisterService.CreateAccount commits the user and the account in one   *)
(* transaction that only inserts, so nobody sees a part of it; the handler *)
(* goes on to fetch a verification token.                                  *)
Register(h, pw) ==
  /\ handler[h] = Idle
  /\ user = "none"
  /\ user' = "registered"
  /\ account' = NewRow(pw, FALSE)
  /\ Become(h, [pc |-> "getToken", password |-> pw])
  /\ UNCHANGED <<drawn, mailed, expired, spent>>

(* GoogleService.Callback makes a user without a password account.         *)
GoogleSignUp ==
  /\ user = "none"
  /\ user' = "google"
  /\ UNCHANGED <<account, drawn, mailed, expired, spent, handler>>

(* AddPassword looks for an account, hashes the password, then inserts.    *)
AddPassword(h, pw) ==
  /\ handler[h] = Idle
  /\ user # "none"
  /\ account = NoRow
  /\ Become(h, [pc |-> "insertAccount", password |-> pw])
  /\ UNCHANGED <<user, account, drawn, mailed, expired, spent>>

(* Fault: the insert is an upsert.                                         *)
InsertAccount_Upsert(h) ==
  /\ At(h, "insertAccount")
  /\ account' = NewRow(handler[h].password, TRUE)
  /\ Return(h)
  /\ UNCHANGED <<user, drawn, mailed, expired, spent>>

(* The primary key rejects a second row.                                   *)
InsertAccount(h) ==
  /\ At(h, "insertAccount")
  /\ account' = IF account = NoRow THEN NewRow(handler[h].password, TRUE)
                                   ELSE account
  /\ Return(h)
  /\ UNCHANGED <<user, drawn, mailed, expired, spent>>

-----------------------------------------------------------------------------
(* A call that has read the row, drawn link l and is about to save.        *)
Holding(pc, l, pw) ==
  [pc |-> pc, row |-> account, link |-> l, password |-> pw]

Draw(l) == l \notin drawn /\ drawn' = drawn \cup {l}

(* EmailService.GetVerificationToken, reached from Register.               *)
GetVerificationToken(h, l) ==
  /\ At(h, "getToken")
  /\ IF account.verified
     THEN Return(h) /\ UNCHANGED drawn
     ELSE Draw(l) /\ Become(h, Holding("saveVToken", l, account.password))
  /\ UNCHANGED <<user, account, mailed, expired, spent>>

(* EmailService.GetVerificationTokenForEmail, of ResendVerificationEmail.  *)
GetVerificationTokenForEmail(h, l) ==
  /\ handler[h] = Idle
  /\ account # NoRow /\ ~account.verified
  /\ Draw(l)
  /\ Become(h, Holding("saveVToken", l, account.password))
  /\ UNCHANGED <<user, account, mailed, expired, spent>>

(* Fault: a reset is offered to an address nobody has proved to own.       *)
GetResetToken_Unverified(h, l) ==
  /\ handler[h] = Idle
  /\ account # NoRow
  /\ Draw(l)
  /\ Become(h, Holding("saveRToken", l, account.password))
  /\ UNCHANGED <<user, account, mailed, expired, spent>>

(* PasswordService.GetResetToken, of SendPasswordResetEmail.               *)
GetResetToken(h, l) ==
  /\ handler[h] = Idle
  /\ account # NoRow /\ account.verified
  /\ Draw(l)
  /\ Become(h, Holding("saveRToken", l, account.password))
  /\ UNCHANGED <<user, account, mailed, expired, spent>>

UpdateVerificationToken(h) ==
  /\ At(h, "saveVToken")
  /\ account' = [handler[h].row EXCEPT !.vtoken = handler[h].link]
  /\ Become(h, [pc |-> "mail", link |-> handler[h].link])
  /\ UNCHANGED <<user, drawn, mailed, expired, spent>>

(* Fault: the row saved has only the token filled in.                      *)
UpdateResetPasswordToken_FreshRow(h) ==
  /\ At(h, "saveRToken")
  /\ account' = [NewRow(handler[h].row.password, FALSE)
                    EXCEPT !.rtoken = handler[h].link]
  /\ Become(h, [pc |-> "mail", link |-> handler[h].link])
  /\ UNCHANGED <<user, drawn, mailed, expired, spent>>

UpdateResetPasswordToken(h) ==
  /\ At(h, "saveRToken")
  /\ account' = [handler[h].row EXCEPT !.rtoken = handler[h].link,
                                       !.usedAt = FALSE]
  /\ Become(h, [pc |-> "mail", link |-> handler[h].link])
  /\ UNCHANGED <<user, drawn, mailed, expired, spent>>

SendEmail(h) ==
  /\ At(h, "mail")
  /\ mailed' = mailed \cup {handler[h].link}
  /\ Return(h)
  /\ UNCHANGED <<user, account, drawn, expired, spent>>

-----------------------------------------------------------------------------
(* EmailService.Verify: a link that is stored and has not expired.  The    *)
(* token is not cleared: the link keeps working until it expires.          *)
Verify(h, l) ==
  /\ handler[h] = Idle
  /\ l \in mailed \ expired
  /\ account.vtoken = l
  /\ Become(h, Holding("saveVerified", l, account.password))
  /\ UNCHANGED <<user, account, drawn, mailed, expired, spent>>

UpdateEmailVerified(h) ==
  /\ At(h, "saveVerified")
  /\ account' = [handler[h].row EXCEPT !.verified = TRUE]
  /\ Return(h)
  /\ UNCHANGED <<user, drawn, mailed, expired, spent>>

(* Fault: a link from the mailbox is taken without looking it up.          *)
Reset_AnyLink(h, l, pw) ==
  /\ handler[h] = Idle
  /\ l \in mailed \ expired
  /\ account # NoRow
  /\ Become(h, Holding("savePassword", l, pw))
  /\ UNCHANGED <<user, account, drawn, mailed, expired, spent>>

(* Fault: an empty token is looked up too and finds an account without one. *)
Reset_EmptyLink(h, l, pw) ==
  /\ handler[h] = Idle
  /\ account # NoRow /\ account.rtoken = NoLink
  /\ Become(h, Holding("savePassword", NoLink, pw))
  /\ UNCHANGED <<user, account, drawn, mailed, expired, spent>>

(* PasswordService.Reset looks the link up and checks it, then spends the  *)
(* time of a bcrypt hash before it saves.                                  *)
Reset(h, l, pw) ==
  /\ handler[h] = Idle
  /\ l \in mailed \ expired
  /\ account.rtoken = l /\ ~account.usedAt
  /\ Become(h, Holding("savePassword", l, pw))
  /\ UNCHANGED <<user, account, drawn, mailed, expired, spent>>

UpdatePassword(h) ==
  /\ At(h, "savePassword")
  /\ account' = [handler[h].row EXCEPT !.password = handler[h].password]
  /\ spent' = spent \cup {handler[h].link}
  /\ Return(h)
  /\ UNCHANGED <<user, drawn, mailed, expired>>

-----------------------------------------------------------------------------
(* A statement or the email client fails, or the server goes down.         *)
Fail(h) ==
  /\ handler[h] # Idle
  /\ Return(h)
  /\ UNCHANGED <<user, account, drawn, mailed, expired, spent>>

Expire(l) ==
  /\ l \in mailed \ expired
  /\ expired' = expired \cup {l}
  /\ UNCHANGED <<user, account, drawn, mailed, spent, handler>>

Next ==
  \/ GoogleSignUp
  \/ \E l \in Links : Expire(l)
  \/ \E h \in Handlers :
       \/ \E pw \in Passwords :
            \/ Register(h, pw) \/ AddPassword(h, pw)
            \/ \E l \in Links : Reset(h, l, pw)
       \/ \E l \in Links :
            \/ GetVerificationToken(h, l) \/ GetVerificationTokenForEmail(h, l)
            \/ GetResetToken(h, l) \/ Verify(h, l)
       \/ InsertAccount(h)
       \/ UpdateVerificationToken(h) \/ UpdateResetPasswordToken(h)
       \/ UpdateEmailVerified(h) \/ UpdatePassword(h)
       \/ SendEmail(h) \/ Fail(h)

Spec == Init /\ [][Next]_vars

-----------------------------------------------------------------------------
TypeOK ==
  /\ user \in {"none", "google", "registered"}
  /\ account \in Rows \cup {NoRow}
  /\ spent \subseteq mailed /\ expired \subseteq mailed
  /\ mailed \subseteq drawn /\ drawn \subseteq Links
  /\ handler \in [Handlers -> Calls \cup {Idle}]

(* However calls overlap and overwrite each other, an account whose email  *)
(* address is not verified holds no reset token: whole rows are saved, so  *)
(* what belongs together is lost together (auth/manual/password.go:51).    *)
UnverifiedHasNoReset ==
  account # NoRow /\ account.rtoken # NoLink => account.verified

Saving(h) == handler[h] # Idle /\ handler[h].pc \in SavePCs

(* What the calls in flight hold: a copy that, old or not, was a row once, *)
(* and a link that was drawn for it or taken from the mailbox.             *)
Copies ==
  \A h \in Handlers :
    /\ Saving(h) /\ handler[h].row.rtoken # NoLink => handler[h].row.verified
    /\ At(h, "saveRToken") => handler[h].row.verified
    /\ At(h, "savePassword") => /\ handler[h].link = handler[h].row.rtoken
                               /\ handler[h].link \in mailed
    /\ At(h, "saveVToken") \/ At(h, "saveRToken") \/ At(h, "mail")
         => handler[h].link \in drawn

(* A row appears after its user and stays; only then links are drawn.      *)
RowFirst ==
  /\ user = "none" => /\ account = NoRow
                      /\ \A h \in Handlers : ~At(h, "insertAccount")
  /\ mailed # {} => account # NoRow
  /\ \A h \in Handlers :
       handler[h] # Idle /\ handler[h].pc # "insertAccount" => account # NoRow

AInv == TypeOK /\ Copies /\ RowFirst /\ UnverifiedHasNoReset

(* A call whose save is this step.                                         *)
Saves(h) == Saving(h) /\ ~Saving(h)'

(* A verified address becomes unverified only by the save of a call that   *)
(* read the row before it was verified, whatever else overlaps.            *)
VerifiedStays ==
  [][account # NoRow /\ account.verified /\ ~account'.verified
       => \E h \in Handlers : Saves(h) /\ ~handler[h].row.verified]_vars

(* A password changes only by the save of a call that was given a link     *)
(* mailed to the user and found it in the row it read, or of one that read *)
(* the row when it had the password that is back now.  An AddPassword that *)
(* looked for an account before another inserted one replaces nothing.     *)
PasswordByCurrentLink ==
  [][account # NoRow /\ account'.password # account.password
       => \E h \in Handlers :
            /\ Saves(h)
            /\ \/ /\ At(h, "savePassword") /\ handler[h].link \in mailed
                  /\ handler[h].link = handler[h].row.rtoken
               \/ handler[h].row.password = account'.password]_vars

(* auth/manual/password.go:87: a reset link that has been used is not      *)
(* accepted again.                                                         *)
UsedLinkIsRefused ==
  [][\A h \in Handlers :
       handler[h] = Idle /\ At(h, "savePassword")'
         => handler'[h].link \notin spent]_vars

-----------------------------------------------------------------------------
(* No two calls are between their read of the row and their save: what the *)
(* code leaves to luck, and what its whole-row saves rely on.              *)
OneSaveAtATime == \A g, h \in Handlers : Saving(g) /\ Saving(h) => g = h

(* A call in flight works on an old copy of the row.                       *)
Stale == \E h \in Handlers : Saving(h) /\ handler[h].row # account

(* The change a call makes, applied to a row.                              *)
Applied(row, c) ==
  CASE c.pc = "saveVToken"   -> [row EXCEPT !.vtoken = c.link]
    [] c.pc = "saveRToken"   -> [row EXCEPT !.rtoken = c.link, !.usedAt = FALSE]
    [] c.pc = "saveVerified" -> [row EXCEPT !.verified = TRUE]
    [] c.pc = "savePassword" -> [row EXCEPT !.password = c.password]

(* A save changes the fields its call is about in the row as it is now, so *)
(* it takes back nothing another call has saved.                           *)
NoUpdateIsLost ==
  [][account # NoRow /\ account' # account
       => \E h \in Handlers :
            Saving(h) /\ account' = Applied(account, handler[h])]_vars

(* A verified address stays verified and a password is replaced only       *)
(* through the link now stored, with no call excused.                      *)
VerifiedForGood ==
  [][account # NoRow /\ account.verified => account'.verified]_vars

PasswordOnlyByCurrentLink ==
  [][account # NoRow /\ account'.password # account.password
       => \E h \in Handlers : /\ At(h, "savePassword")
                              /\ handler[h].link = account.rtoken]_vars
=============================================================================
