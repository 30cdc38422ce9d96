-------------------------- MODULE ManualAccountProofs --------------------------
(***************************************************************************)
(* Proofs about ManualAccount, for any number of links, passwords and      *)
(* overlapping calls: what saving whole rows from old copies can and       *)
(* cannot undo.                                                            *)
(***************************************************************************)
EXTENDS ManualAccount, TLAPS

LEMMA InitAInv == Init => AInv
  BY DEF Init, AInv, TypeOK, Copies, RowFirst, UnverifiedHasNoReset, Saving, At

-----------------------------------------------------------------------------
(* The shape of a call at each program counter.                            *)
LEMMA SavingShape ==
  ASSUME NEW h \in Handlers, handler[h] \in Calls, handler[h].pc \in SavePCs
  PROVE  /\ handler[h].row \in Rows /\ handler[h].link \in Links
         /\ handler[h].password \in Passwords
  BY DEF Calls, SavePCs

LEMMA HoldingShape ==
  ASSUME account \in Rows, NEW pc \in SavePCs, NEW l \in Links,
         NEW pw \in Passwords
  PROVE  Holding(pc, l, pw) \in Calls
  BY DEF Holding, Calls

LEMMA NewRowShape ==
  ASSUME NEW pw \in Passwords, NEW v \in BOOLEAN
  PROVE  NewRow(pw, v) \in Rows
  BY DEF NewRow, Rows

LEMMA BecomeShape ==
  ASSUME handler \in [Handlers -> Calls \cup {Idle}], NEW h \in Handlers,
         NEW call \in Calls \cup {Idle}, Become(h, call)
  PROVE  /\ handler' \in [Handlers -> Calls \cup {Idle}]
         /\ handler'[h] = call
         /\ \A g \in Handlers \ {h} : handler'[g] = handler[g]
  BY DEF Become

-----------------------------------------------------------------------------
(* The rows the saves write.                                               *)
LEMMA SavedRows ==
  ASSUME AInv, NEW h \in Handlers, Saving(h)
  PROVE  /\ [handler[h].row EXCEPT !.vtoken = handler[h].link] \in Rows
         /\ [handler[h].row EXCEPT !.rtoken = handler[h].link,
                                   !.usedAt = FALSE] \in Rows
         /\ [handler[h].row EXCEPT !.verified = TRUE] \in Rows
         /\ [handler[h].row EXCEPT !.password = handler[h].password] \in Rows
<1>1. /\ handler[h].row \in Rows /\ handler[h].link \in Links
      /\ handler[h].password \in Passwords
  BY SavingShape DEF AInv, TypeOK, Saving
<1> QED
  BY <1>1 DEF Rows

LEMMA MailShape ==
  ASSUME NEW l \in Links
  PROVE  [pc |-> "mail", link |-> l] \in Calls
  BY DEF Calls

LEMMA PasswordShape ==
  ASSUME NEW pw \in Passwords, NEW pc \in {"getToken", "insertAccount"}
  PROVE  [pc |-> pc, password |-> pw] \in Calls
  BY DEF Calls

-----------------------------------------------------------------------------
(* What Copies and RowFirst ask of one call.                               *)
Fits(c) ==
  c # Idle =>
    /\ c.pc \in SavePCs /\ c.row.rtoken # NoLink => c.row.verified
    /\ c.pc = "saveRToken" => c.row.verified
    /\ c.pc = "savePassword" => c.link = c.row.rtoken /\ c.link \in mailed
    /\ c.pc \in {"saveVToken", "saveRToken", "mail"} => c.link \in drawn
    /\ c.pc = "insertAccount" => user # "none"
    /\ c.pc # "insertAccount" => account # NoRow

(* A call that fits takes a slot, and nothing the others rely on is lost.  *)
LEMMA Slots ==
  ASSUME AInv, NEW h \in Handlers, NEW call \in Calls \cup {Idle},
         Become(h, call), Fits(call)',
         user # "none" => user' # "none", account # NoRow => account' # NoRow,
         mailed \subseteq mailed', drawn \subseteq drawn'
  PROVE  /\ Copies'
         /\ handler' \in [Handlers -> Calls \cup {Idle}]
         /\ \A g \in Handlers :
              /\ At(g, "insertAccount")' => user' # "none"
              /\ handler'[g] # Idle /\ handler'[g].pc # "insertAccount"
                   => account' # NoRow
<1>1. /\ handler' \in [Handlers -> Calls \cup {Idle}]
      /\ handler'[h] = call
      /\ \A g \in Handlers \ {h} : handler'[g] = handler[g]
  BY BecomeShape DEF AInv, TypeOK
<1>2. \A g \in Handlers : Fits(handler[g])
  BY DEF AInv, Copies, RowFirst, Fits, Saving, At
<1>3. \A g \in Handlers : Fits(handler[g])'
  <2>1. ASSUME NEW g \in Handlers, g # h PROVE Fits(handler[g])'
    BY <1>1, <1>2, <2>1 DEF Fits
  <2>2. Fits(handler[h])'
    BY <1>1 DEF Fits
  <2> QED
    BY <2>1, <2>2
<1>4. Copies'
  BY <1>3 DEF Copies, Fits, Saving, At
<1> QED
  BY <1>1, <1>3, <1>4 DEF Fits, At

-----------------------------------------------------------------------------
(* A call takes a slot with a copy of the row it has just read.            *)
LEMMA HoldStep ==
  ASSUME AInv, NEW h \in Handlers, NEW pc \in SavePCs, NEW l \in Links,
         NEW pw \in Passwords, account # NoRow,
         Become(h, Holding(pc, l, pw)),
         pc = "saveRToken" => account.verified,
         pc = "savePassword" => l = account.rtoken /\ l \in mailed,
         pc \in {"saveVToken", "saveRToken"} => l \in drawn',
         drawn \subseteq drawn' /\ drawn' \subseteq Links,
         UNCHANGED <<user, account, mailed, expired, spent>>
  PROVE  AInv'
<1>1. account \in Rows
  BY DEF AInv, TypeOK
<1>2. PICK call \in Calls : call = Holding(pc, l, pw)
  BY <1>1, HoldingShape
<1>3. Fits(call)'
  BY <1>2 DEF Fits, Holding, SavePCs, AInv, UnverifiedHasNoReset
<1>4. Copies' /\ handler' \in [Handlers -> Calls \cup {Idle}]
  BY <1>2, <1>3, Slots
<1>5. TypeOK' /\ UnverifiedHasNoReset'
  BY <1>4 DEF AInv, TypeOK, UnverifiedHasNoReset
<1>6. user # "none" /\ account' # NoRow
  BY DEF AInv, RowFirst
<1> QED
  BY <1>4, <1>5, <1>6 DEF AInv, RowFirst

(* A call writes the row, and ends or goes on to the mail.                 *)
LEMMA SaveStep ==
  ASSUME AInv, NEW h \in Handlers, Saving(h),
         NEW row \in Rows, account' = row, row.rtoken # NoLink => row.verified,
         NEW call \in Calls \cup {Idle}, Become(h, call),
         call # Idle => call.pc = "mail" /\ call.link \in drawn,
         spent' \subseteq mailed,
         UNCHANGED <<user, drawn, mailed, expired>>
  PROVE  AInv'
<1>1. account # NoRow /\ account' # NoRow
  BY AccountAssumption DEF AInv, RowFirst, Saving, SavePCs
<1>2. Fits(call)'
  BY <1>1 DEF Fits, SavePCs
<1>3. user # "none"
  BY <1>1 DEF AInv, RowFirst
<1> QED
  BY <1>1, <1>2, <1>3, Slots
  DEF AInv, TypeOK, RowFirst, UnverifiedHasNoReset, At

(* A call ends; the mailbox may have received a link that was drawn.       *)
LEMMA ReturnStep ==
  ASSUME AInv, NEW h \in Handlers, Return(h), account # NoRow \/ mailed' = mailed,
         mailed \subseteq mailed', mailed' \subseteq drawn,
         UNCHANGED <<user, account, drawn, expired, spent>>
  PROVE  AInv'
<1>1. Fits(Idle)'
  BY DEF Fits
<1> QED
  BY <1>1, Slots
  DEF Return, AInv, TypeOK, RowFirst, UnverifiedHasNoReset, At

-----------------------------------------------------------------------------
(* Registration, AddPassword and the first Google sign-in.                 *)
LEMMA RegisterStep ==
  ASSUME AInv, NEW h \in Handlers, NEW pw \in Passwords, Register(h, pw)
  PROVE  AInv'
<1>1. [pc |-> "getToken", password |-> pw] \in Calls
  BY PasswordShape
<1>2. account' \in Rows /\ account'.rtoken = NoLink
  BY NewRowShape DEF Register, NewRow
<1>3. Fits([pc |-> "getToken", password |-> pw])'
  BY <1>2, AccountAssumption DEF Fits, SavePCs, Register
<1> QED
  BY <1>1, <1>2, <1>3, Slots, AccountAssumption
  DEF Register, AInv, TypeOK, RowFirst, UnverifiedHasNoReset, At

LEMMA AddPasswordStep ==
  ASSUME AInv, NEW h \in Handlers, NEW pw \in Passwords, AddPassword(h, pw)
  PROVE  AInv'
<1>1. [pc |-> "insertAccount", password |-> pw] \in Calls
  BY PasswordShape
<1>2. Fits([pc |-> "insertAccount", password |-> pw])'
  BY DEF Fits, SavePCs, AddPassword
<1> QED
  BY <1>1, <1>2, Slots
  DEF AddPassword, AInv, TypeOK, RowFirst, UnverifiedHasNoReset, At

LEMMA InsertAccountStep ==
  ASSUME AInv, NEW h \in Handlers, InsertAccount(h)
  PROVE  AInv'
<1>1. handler[h].password \in Passwords
  BY DEF InsertAccount, At, AInv, TypeOK, Calls, SavePCs
<1>2. account' \in Rows /\ (account' = account \/ account'.rtoken = NoLink)
  BY <1>1, NewRowShape DEF InsertAccount, NewRow, AInv, TypeOK
<1>3. Fits(Idle)'
  BY DEF Fits
<1>4. user # "none"
  BY DEF InsertAccount, AInv, RowFirst
<1> QED
  BY <1>2, <1>3, <1>4, Slots, AccountAssumption
  DEF InsertAccount, Return, AInv, TypeOK, RowFirst, UnverifiedHasNoReset, At

LEMMA GoogleSignUpStep == AInv /\ GoogleSignUp => AInv'
  BY DEF GoogleSignUp, AInv, TypeOK, Copies, RowFirst, UnverifiedHasNoReset,
     Saving, At

-----------------------------------------------------------------------------
LEMMA AInvStep == AInv /\ [Next]_vars => AInv'
<1> SUFFICES ASSUME AInv, [Next]_vars PROVE AInv'
  OBVIOUS
<1>a. account # NoRow => account.password \in Passwords
  BY DEF AInv, TypeOK, Rows
<1>b. mailed \subseteq drawn /\ drawn \subseteq Links
  BY DEF AInv, TypeOK
<1>1. ASSUME NEW h \in Handlers, NEW l \in Links, GetVerificationToken(h, l)
      PROVE  AInv'
  <2>1. account # NoRow
    BY <1>1 DEF GetVerificationToken, At, AInv, RowFirst
  <2>2. CASE account.verified
    BY <1>1, <1>b, <2>2, ReturnStep DEF GetVerificationToken
  <2>3. CASE ~account.verified
    BY <1>1, <1>a, <1>b, <2>1, <2>3, HoldStep
    DEF GetVerificationToken, Draw, SavePCs
  <2> QED
    BY <2>2, <2>3
<1>2. ASSUME NEW h \in Handlers, NEW l \in Links,
             GetVerificationTokenForEmail(h, l) \/ GetResetToken(h, l)
      PROVE  AInv'
  BY <1>2, <1>a, <1>b, HoldStep
  DEF GetVerificationTokenForEmail, GetResetToken, Draw, SavePCs
<1>3. ASSUME NEW h \in Handlers, NEW l \in Links, Verify(h, l) PROVE AInv'
  BY <1>3, <1>a, <1>b, HoldStep DEF Verify, SavePCs, AInv, RowFirst
<1>4. ASSUME NEW h \in Handlers, NEW l \in Links, NEW pw \in Passwords,
             Reset(h, l, pw)
      PROVE  AInv'
  BY <1>4, <1>b, HoldStep DEF Reset, SavePCs, AInv, RowFirst
<1>5. ASSUME NEW h \in Handlers,
             UpdateVerificationToken(h) \/ UpdateResetPasswordToken(h)
      PROVE  AInv'
  <2>1. /\ Saving(h) /\ handler[h].link \in drawn /\ handler[h].row \in Rows
        /\ handler[h].row.rtoken # NoLink => handler[h].row.verified
        /\ At(h, "saveRToken") => handler[h].row.verified
        /\ handler[h].link \in Links
    BY <1>5, SavingShape
    DEF UpdateVerificationToken, UpdateResetPasswordToken, At, Saving, SavePCs,
        AInv, TypeOK, Copies
  <2>2. account' \in Rows /\ (account'.rtoken # NoLink => account'.verified)
    BY <1>5, <2>1, SavedRows
    DEF UpdateVerificationToken, UpdateResetPasswordToken, Rows
  <2>3. [pc |-> "mail", link |-> handler[h].link] \in Calls
    BY <2>1, MailShape
  <2> QED
    BY <1>5, <2>1, <2>2, <2>3, SaveStep
    DEF UpdateVerificationToken, UpdateResetPasswordToken, AInv, TypeOK
<1>6. ASSUME NEW h \in Handlers, UpdateEmailVerified(h) \/ UpdatePassword(h)
      PROVE  AInv'
  <2>1. /\ Saving(h) /\ handler[h].row \in Rows
        /\ handler[h].row.rtoken # NoLink => handler[h].row.verified
        /\ At(h, "savePassword") => handler[h].link \in mailed
    BY <1>6, SavingShape
    DEF UpdateEmailVerified, UpdatePassword, At, Saving, SavePCs, AInv, TypeOK,
        Copies
  <2>2. account' \in Rows /\ (account'.rtoken # NoLink => account'.verified)
    BY <1>6, <2>1, SavedRows DEF UpdateEmailVerified, UpdatePassword, Rows
  <2>3. spent' \subseteq mailed
    BY <1>6, <2>1 DEF UpdateEmailVerified, UpdatePassword, AInv, TypeOK
  <2> QED
    BY <1>6, <2>1, <2>2, <2>3, SaveStep
    DEF UpdateEmailVerified, UpdatePassword, Return
<1>7. ASSUME NEW h \in Handlers, SendEmail(h) PROVE AInv'
  BY <1>7, <1>b, ReturnStep DEF SendEmail, At, AInv, Copies, RowFirst
<1>8. ASSUME NEW h \in Handlers, Fail(h) PROVE AInv'
  BY <1>8, <1>b, ReturnStep DEF Fail
<1>9. ASSUME NEW l \in Links, Expire(l) PROVE AInv'
  BY <1>9
  DEF Expire, AInv, TypeOK, Copies, RowFirst, UnverifiedHasNoReset, Saving, At
<1>10. CASE UNCHANGED vars
  BY <1>10
  DEF vars, AInv, TypeOK, Copies, RowFirst, UnverifiedHasNoReset, Saving, At
<1> QED
  BY <1>1, <1>2, <1>3, <1>4, <1>5, <1>6, <1>7, <1>8, <1>9, <1>10,
     RegisterStep, AddPasswordStep, InsertAccountStep, GoogleSignUpStep
  DEF Next

-----------------------------------------------------------------------------
(* Whatever calls overlap, AInv holds.                                     *)
THEOREM ManualAccountInvariant == Spec => []AInv
  BY InitAInv, AInvStep, PTL DEF Spec

(* The row, the links and the calls keep their types.                      *)
THEOREM ManualAccountTyping == Spec => []TypeOK
<1>1. AInv => TypeOK
  BY DEF AInv
<1> QED
  BY ManualAccountInvariant, <1>1, PTL

(* An unverified address has no reset token (auth/manual/password.go:51).  *)
THEOREM UnverifiedHasNoResetHolds == Spec => []UnverifiedHasNoReset
<1>1. AInv => UnverifiedHasNoReset
  BY DEF AInv
<1> QED
  BY ManualAccountInvariant, <1>1, PTL

-----------------------------------------------------------------------------
(* How a call comes to hold a copy: it has just read the row, or it held   *)
(* the copy before.                                                        *)
LEMMA CopyChange ==
  ASSUME AInv, [Next]_vars, NEW g \in Handlers, Saving(g)'
  PROVE  \/ Saving(g) /\ handler'[g] = handler[g]
         \/ handler'[g].row = account /\ account' = account
<1> USE DEF AInv, TypeOK
<1>1. ASSUME NEW h \in Handlers, NEW pc \in SavePCs, NEW l \in Links,
             NEW pw, Become(h, Holding(pc, l, pw))
      PROVE  handler'[g] = handler[g] \/ handler'[g].row = account
  BY <1>1 DEF Become, Holding
<1>2. ASSUME NEW h \in Handlers, NEW call, Become(h, call),
             call = Idle \/ call.pc \notin SavePCs
      PROVE  handler'[g] = handler[g]
  BY <1>2 DEF Become, Saving
<1>3. ASSUME NEW h \in Handlers, NEW l \in Links,
             \/ GetVerificationToken(h, l) \/ GetVerificationTokenForEmail(h, l)
             \/ GetResetToken(h, l) \/ Verify(h, l)
             \/ \E pw \in Passwords : Reset(h, l, pw)
      PROVE  /\ account' = account
             /\ handler'[g] = handler[g] \/ handler'[g].row = account
  BY <1>1, <1>2, <1>3
  DEF GetVerificationToken, GetVerificationTokenForEmail, GetResetToken, Verify,
      Reset, Return, SavePCs
<1>4. ASSUME NEW h \in Handlers,
             \/ \E pw \in Passwords : Register(h, pw) \/ AddPassword(h, pw)
             \/ InsertAccount(h)
             \/ UpdateVerificationToken(h) \/ UpdateResetPasswordToken(h)
             \/ UpdateEmailVerified(h) \/ UpdatePassword(h)
             \/ SendEmail(h) \/ Fail(h)
      PROVE  handler'[g] = handler[g]
  BY <1>2, <1>4
  DEF Register, AddPassword, InsertAccount, UpdateVerificationToken,
      UpdateResetPasswordToken, UpdateEmailVerified, UpdatePassword, SendEmail,
      Fail, Return, SavePCs
<1>5. CASE UNCHANGED handler
  BY <1>5 DEF Saving
<1> QED
  BY <1>3, <1>4, <1>5 DEF Next, vars, GoogleSignUp, Expire, Saving

(* A row that somebody holds a copy of changes only by a save of its holder *)
(* or of another one.                                                      *)
LEMMA SaverChange ==
  ASSUME AInv, [Next]_vars, account # NoRow, account' # account
  PROVE  \E h \in Handlers :
           /\ Saving(h) /\ ~Saving(h)'
           /\ account' = Applied(handler[h].row, handler[h])
<1>1. ASSUME NEW h \in Handlers,
             \/ UpdateVerificationToken(h) \/ UpdateResetPasswordToken(h)
             \/ UpdateEmailVerified(h) \/ UpdatePassword(h)
      PROVE  /\ Saving(h) /\ ~Saving(h)'
             /\ account' = Applied(handler[h].row, handler[h])
  <2>1. Saving(h)
    BY <1>1
    DEF UpdateVerificationToken, UpdateResetPasswordToken, UpdateEmailVerified,
        UpdatePassword, At, Saving, SavePCs
  <2>2. \/ handler'[h] = Idle
        \/ handler'[h] = [pc |-> "mail", link |-> handler[h].link]
    BY <1>1
    DEF UpdateVerificationToken, UpdateResetPasswordToken, UpdateEmailVerified,
        UpdatePassword, Become, Return, AInv, TypeOK
  <2>3. ~Saving(h)'
    BY <2>2 DEF Saving, SavePCs
  <2>4. account' = Applied(handler[h].row, handler[h])
    BY <1>1
    DEF UpdateVerificationToken, UpdateResetPasswordToken, UpdateEmailVerified,
        UpdatePassword, Applied, At
  <2> QED
    BY <2>1, <2>3, <2>4
<1>2. ASSUME NEW h \in Handlers, NEW pw \in Passwords, Register(h, pw)
      PROVE  FALSE
  BY <1>2 DEF Register, AInv, RowFirst
<1>3. ASSUME NEW h \in Handlers, InsertAccount(h) PROVE FALSE
  BY <1>3 DEF InsertAccount
<1> QED
  BY <1>1, <1>2, <1>3
  DEF Next, vars, GoogleSignUp, AddPassword, GetVerificationToken,
      GetVerificationTokenForEmail, GetResetToken, SendEmail, Verify, Reset,
      Fail, Expire

(* What a save makes of the copy it holds.                                 *)
LEMMA SavedRow ==
  ASSUME AInv, NEW h \in Handlers, Saving(h)
  PROVE  LET saved == Applied(handler[h].row, handler[h])
         IN  /\ handler[h].row.verified => saved.verified
             /\ ~At(h, "savePassword") => saved.password = handler[h].row.password
             /\ At(h, "savePassword") =>
                  /\ handler[h].link = handler[h].row.rtoken
                  /\ handler[h].link \in mailed
<1>1. handler[h].row \in Rows /\ handler[h].pc \in SavePCs /\ handler[h] # Idle
  BY DEF AInv, TypeOK, Calls, Saving, SavePCs
<1>2. At(h, "savePassword") =>
        handler[h].link = handler[h].row.rtoken /\ handler[h].link \in mailed
  BY DEF AInv, Copies
<1> QED
  BY <1>1, <1>2 DEF Applied, At, SavePCs, Rows

(* A verification is undone only by a call with a copy from before it      *)
(* (auth/manual/repository.go:78-129).                                     *)
THEOREM VerifiedStaysHolds == Spec => VerifiedStays
<1>1. AInv /\ [Next]_vars
        => [account # NoRow /\ account.verified /\ ~account'.verified
              => \E h \in Handlers : Saves(h) /\ ~handler[h].row.verified]_vars
  BY SaverChange, SavedRow DEF Saves
<1> QED
  BY ManualAccountInvariant, <1>1, PTL DEF Spec, VerifiedStays

(* Only a link from the mailbox that the row held when it was looked up    *)
(* replaces the password, or a call that read the row before puts the old  *)
(* one back (auth/manual/password.go:92-121).                              *)
THEOREM PasswordByCurrentLinkHolds == Spec => PasswordByCurrentLink
<1>1. AInv /\ [Next]_vars
        => [account # NoRow /\ account'.password # account.password
              => \E h \in Handlers :
                   /\ Saves(h)
                   /\ \/ /\ At(h, "savePassword") /\ handler[h].link \in mailed
                         /\ handler[h].link = handler[h].row.rtoken
                      \/ handler[h].row.password = account'.password]_vars
  BY SaverChange, SavedRow DEF Saves
<1> QED
  BY ManualAccountInvariant, <1>1, PTL DEF Spec, PasswordByCurrentLink

-----------------------------------------------------------------------------
(* While nobody else saves, the copy a call holds is the row.              *)
LEMMA StaleStep == AInv /\ OneSaveAtATime /\ ~Stale /\ [Next]_vars => ~Stale'
<1> SUFFICES ASSUME AInv, OneSaveAtATime, ~Stale, [Next]_vars,
                    NEW g \in Handlers, Saving(g)'
             PROVE  handler'[g].row = account'
  BY DEF Stale, Saving
<1>1. CASE handler'[g].row = account /\ account' = account
  BY <1>1
<1>2. CASE Saving(g) /\ handler'[g] = handler[g]
  <2>1. account # NoRow /\ handler[g].row = account
    BY <1>2 DEF AInv, RowFirst, Saving, SavePCs, Stale
  <2>2. ASSUME account' # account PROVE FALSE
    <3>1. PICK h \in Handlers : Saving(h) /\ ~Saving(h)'
      BY <2>1, <2>2, SaverChange
    <3> QED
      BY <1>2, <3>1 DEF OneSaveAtATime
  <2> QED
    BY <1>2, <2>1, <2>2
<1> QED
  BY <1>1, <1>2, CopyChange

(* In a behaviour in which no two calls are between read and save at the   *)
(* same time, no call ever works on an old copy.                           *)
THEOREM NoOldCopyWithoutOverlap == Spec /\ []OneSaveAtATime => []~Stale
<1>1. Init => ~Stale
  BY DEF Init, Stale, Saving
<1> QED
  BY <1>1, StaleStep, ManualAccountInvariant, PTL DEF Spec

LEMMA FreshSave ==
  ASSUME AInv, ~Stale, [Next]_vars, account # NoRow, account' # account
  PROVE  \E h \in Handlers :
           /\ Saving(h) /\ handler[h].row = account
           /\ account' = Applied(account, handler[h])
<1>1. PICK h \in Handlers :
        Saving(h) /\ account' = Applied(handler[h].row, handler[h])
  BY SaverChange
<1>2. handler[h].row = account
  BY <1>1 DEF Stale
<1> QED
  BY <1>1, <1>2

(* Then every save is what its call meant to change, applied to the row as *)
(* it is: no update is lost (auth/manual/repository.go:78-129).            *)
THEOREM NoUpdateIsLostWithoutOverlap ==
  Spec /\ []OneSaveAtATime => NoUpdateIsLost
<1>1. AInv /\ ~Stale /\ [Next]_vars =>
        [account # NoRow /\ account' # account
           => \E h \in Handlers :
                Saving(h) /\ account' = Applied(account, handler[h])]_vars
  BY FreshSave
<1> QED
  BY <1>1, NoOldCopyWithoutOverlap, ManualAccountInvariant, PTL
  DEF Spec, NoUpdateIsLost

(* Then a verified address stays verified, with no exception left.         *)
THEOREM VerifiedForGoodWithoutOverlap ==
  Spec /\ []OneSaveAtATime => VerifiedForGood
<1>1. AInv /\ ~Stale /\ [Next]_vars
        => [account # NoRow /\ account.verified => account'.verified]_vars
  BY FreshSave, SavedRow
<1> QED
  BY <1>1, NoOldCopyWithoutOverlap, ManualAccountInvariant, PTL
  DEF Spec, VerifiedForGood

(* Then only the link now stored replaces the password.                    *)
THEOREM PasswordOnlyByCurrentLinkWithoutOverlap ==
  Spec /\ []OneSaveAtATime => PasswordOnlyByCurrentLink
<1>1. AInv /\ ~Stale /\ [Next]_vars
        => [account # NoRow /\ account'.password # account.password
              => \E h \in Handlers : /\ At(h, "savePassword")
                                     /\ handler[h].link = account.rtoken]_vars
  BY FreshSave, SavedRow
<1> QED
  BY <1>1, NoOldCopyWithoutOverlap, ManualAccountInvariant, PTL
  DEF Spec, PasswordOnlyByCurrentLink
=============================================================================
