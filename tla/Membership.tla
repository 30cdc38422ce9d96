------------------------------ MODULE Membership ------------------------------
(***************************************************************************)
(* Projects, join requests and memberships, with every API call that       *)
(* changes them as a goroutine of its own: ProjectApi.Create,              *)
(* AddJoinRequest and RespondToJoinRequest, from the first database        *)
(* statement to the notification row they leave behind.                    *)
(*                                                                         *)
(* The three tables hold COMMITTED rows.  A handler's uncommitted writes   *)
(* are those of its program counter: a row a handler has updated in an     *)
(* open transaction is invisible to the others (PostgreSQL, READ           *)
(* COMMITTED) but locked, and Commit makes all of its writes visible at    *)
(* once.  Any statement can fail (cancelled request, lost connection,      *)
(* killed process), which rolls the open transaction back.                 *)
(***************************************************************************)
EXTENDS Admission, Naturals

CONSTANTS
  Handlers,  (* HTTP requests in flight at one time                          *)
  Idle,      (* a handler slot that serves no request                        *)
  Observed   (* the notification types whose rows an instance remembers: {}  *)
             (* keeps the rows out of runs whose question is another         *)

VARIABLES
  handler,   (* what each request is doing, with the arguments it carries    *)
  inbox      (* notification rows: receiver, type, project, status           *)

vars == <<owner, role, request, handler, inbox>>

(* Where a handler stands; each name is the statement it runs next.        *)
CreatePCs  == {"insertOwner", "commitProject"}
LockingPCs == {"insertMember", "commitResponse"}
RespondPCs == {"readStatus", "updateStatus"} \cup LockingPCs
NotifyPCs  == {"notifyOwner", "notifyRequestor"}

(* One record for every kind of call: caller is the authenticated user,    *)
(* user the requestor the call is about, status the value it writes.       *)
Calls ==
  [pc : CreatePCs \cup RespondPCs \cup NotifyPCs,
   project : Projects, caller : Users, user : Users, status : Statuses]

NotificationTypes == {"join_requested", "join_responded"}

Notifications ==
  [to : Users, type : NotificationTypes,
   project : Projects, about : Users, status : Statuses]

ASSUME IdleAssumption == Idle \notin Calls
ASSUME ObservedAssumption == Observed \subseteq NotificationTypes

At(h, pc) == handler[h] # Idle /\ handler[h].pc = pc

GoTo(h, pc) == handler' = [handler EXCEPT ![h].pc = pc]
Return(h)   == handler' = [handler EXCEPT ![h] = Idle]

MInit ==
  /\ Init
  /\ handler = [h \in Handlers |-> Idle]
  /\ inbox = {}

-----------------------------------------------------------------------------
(* POST /projects: ProjectService.Create opens a transaction, inserts the  *)
(* project under a fresh uuid and the Owner membership, and commits.       *)
IdInUse(p) ==
  \/ owner[p] # NoUser
  \/ \E h \in Handlers : handler[h] # Idle /\ handler[h].pc \in CreatePCs
                                           /\ handler[h].project = p

InsertProject(h, p, u) ==
  /\ handler[h] = Idle
  /\ ~IdInUse(p)
  /\ handler' = [handler EXCEPT ![h] =
       [pc |-> "insertOwner", project |-> p, caller |-> u, user |-> u,
        status |-> "Pending"]]
  /\ UNCHANGED <<owner, role, request, inbox>>

(* Fault: the project is committed before its Owner row is inserted.       *)
InsertOwner_NoTx(h) ==
  /\ At(h, "insertOwner")
  /\ GoTo(h, "commitProject")
  /\ owner' = [owner EXCEPT ![handler[h].project] = handler[h].caller]
  /\ UNCHANGED <<role, request, inbox>>

InsertOwner(h) ==
  /\ At(h, "insertOwner")
  /\ GoTo(h, "commitProject")
  /\ UNCHANGED <<owner, role, request, inbox>>

CommitProject(h) ==
  /\ At(h, "commitProject")
  /\ LET c == handler[h] IN
       /\ owner' = [owner EXCEPT ![c.project] = c.caller]
       /\ role'  = [role EXCEPT ![c.project][c.caller] = "Owner"]
  /\ Return(h)
  /\ UNCHANGED <<request, inbox>>

-----------------------------------------------------------------------------
(* POST /projects/{id}/join-requests.  The insert is one statement: it     *)
(* fails without a trace when the project does not exist or the (project,  *)
(* user) key does.  Nothing keeps an owner from asking to join their own   *)
(* project.                                                                *)
AddJoinRequest(h, p, u) ==
  /\ handler[h] = Idle
  /\ owner[p] # NoUser
  /\ request[p][u] = "None"
  /\ request' = [request EXCEPT ![p][u] = "Pending"]
  /\ handler' = [handler EXCEPT ![h] =
       [pc |-> "notifyOwner", project |-> p, caller |-> u, user |-> u,
        status |-> "Pending"]]
  /\ UNCHANGED <<owner, role, inbox>>

-----------------------------------------------------------------------------
(* PATCH /projects/{id}/join-requests: JoinRequestService.Respond.         *)

(* NeedsToBeAnOwner reads the caller's role; a request has no effect       *)
(* before this first read, so it starts here.                              *)
CheckOwner(h, p, caller, u, s) ==
  /\ handler[h] = Idle
  /\ role[p][caller] = "Owner"
  /\ handler' = [handler EXCEPT ![h] =
       [pc |-> "readStatus", project |-> p, caller |-> caller, user |-> u,
        status |-> s]]
  /\ UNCHANGED <<owner, role, request, inbox>>

(* The checks between the read of the status and the transaction.          *)
MayBecome(from, to) ==
  /\ to # from
  /\ ~(from = "Rejected" /\ to = "Accepted")
  /\ ~(from = "Accepted" /\ to \in {"Pending", "Rejected"})

(* Fault: status and joinStatus are mixed up, and the call goes on with the *)
(* status it has read, the empty one of a request that does not exist.     *)
ReadStatus_MixedUp(h) ==
  /\ At(h, "readStatus")
  /\ LET c == handler[h]
         s == request[c.project][c.user]
     IN IF MayBecome(s, c.status)
        THEN handler' = [handler EXCEPT ![h].pc = "updateStatus", ![h].status = s]
        ELSE Return(h)
  /\ UNCHANGED <<owner, role, request, inbox>>

(* joinRepo.Status, outside the transaction.                               *)
ReadStatus(h) ==
  /\ At(h, "readStatus")
  /\ LET c == handler[h]
         s == request[c.project][c.user]
     IN IF s # "None" /\ MayBecome(s, c.status)
        THEN GoTo(h, "updateStatus")
        ELSE Return(h)
  /\ UNCHANGED <<owner, role, request, inbox>>

(* The row lock an UPDATE takes and keeps until its transaction ends.      *)
RowLocked(p, u) ==
  \E h \in Handlers : /\ handler[h] # Idle
                      /\ handler[h].pc \in LockingPCs
                      /\ handler[h].project = p
                      /\ handler[h].user = u

(* joinRepo.Update inside the transaction: the row is known to exist, the  *)
(* UPDATE waits for the row lock and does not look at the status again.    *)
UpdateStatus(h) ==
  /\ At(h, "updateStatus")
  /\ LET c == handler[h] IN
       /\ ~RowLocked(c.project, c.user)
       /\ GoTo(h, IF c.status = "Accepted" THEN "insertMember"
                                           ELSE "commitResponse")
  /\ UNCHANGED <<owner, role, request, inbox>>

(* Fault: the insert is an upsert, so a second role row replaces the first. *)
InsertMember_Upsert(h) ==
  /\ At(h, "insertMember")
  /\ GoTo(h, "commitResponse")
  /\ UNCHANGED <<owner, role, request, inbox>>

(* Fault: a failed insert neither commits nor rolls back.                  *)
InsertMember_NoRollback(h) ==
  /\ At(h, "insertMember")
  /\ LET c == handler[h] IN
       GoTo(h, IF role[c.project][c.user] = "None" THEN "commitResponse"
                                                   ELSE "insertMember")
  /\ UNCHANGED <<owner, role, request, inbox>>

(* Fault: the error of the insert is logged and the call goes on.          *)
InsertMember_IgnoreError(h) ==
  /\ At(h, "insertMember")
  /\ LET c == handler[h] IN
       GoTo(h, IF role[c.project][c.user] = "None" THEN "commitResponse"
                                                   ELSE "notifyRequestor")
  /\ UNCHANGED <<owner, role, request, inbox>>

(* memberRepo.Create inside the transaction: a (project, user) key that    *)
(* exists fails the statement and rolls the status update back.            *)
InsertMember(h) ==
  /\ At(h, "insertMember")
  /\ LET c == handler[h] IN
       IF role[c.project][c.user] = "None" THEN GoTo(h, "commitResponse")
                                           ELSE Return(h)
  /\ UNCHANGED <<owner, role, request, inbox>>

(* Fault: the member row is written outside the transaction and lost.      *)
CommitResponse_NoMember(h) ==
  /\ At(h, "commitResponse")
  /\ LET c == handler[h] IN
       request' = [request EXCEPT ![c.project][c.user] = c.status]
  /\ GoTo(h, "notifyRequestor")
  /\ UNCHANGED <<owner, role, inbox>>

CommitResponse(h) ==
  /\ At(h, "commitResponse")
  /\ LET c == handler[h] IN
       /\ request' = [request EXCEPT ![c.project][c.user] = c.status]
       /\ role' = IF c.status = "Accepted"
                  THEN [role EXCEPT ![c.project][c.user] = "Member"]
                  ELSE role
  /\ GoTo(h, "notifyRequestor")
  /\ UNCHANGED <<owner, inbox>>

-----------------------------------------------------------------------------
(* NotificationService.JoinRequested and JoinResponded: one row each, in a *)
(* statement of its own after the commit.                                  *)
AddRow(row) ==
  inbox' = IF row.type \in Observed THEN inbox \cup {row} ELSE inbox

NotifyOwner(h) ==
  /\ At(h, "notifyOwner")
  /\ LET c == handler[h] IN
       AddRow([to |-> owner[c.project], type |-> "join_requested",
               project |-> c.project, about |-> c.user, status |-> "Pending"])
  /\ Return(h)
  /\ UNCHANGED <<owner, role, request>>

NotifyRequestor(h) ==
  /\ At(h, "notifyRequestor")
  /\ LET c == handler[h] IN
       AddRow([to |-> c.user, type |-> "join_responded",
               project |-> c.project, about |-> c.user, status |-> c.status])
  /\ Return(h)
  /\ UNCHANGED <<owner, role, request>>

(* A statement fails at any point: what the open transaction wrote is      *)
(* gone, what was committed stays, and the call answers with an error (or, *)
(* past the commit, without its notification).                             *)
Fail(h) ==
  /\ handler[h] # Idle
  /\ Return(h)
  /\ UNCHANGED <<owner, role, request, inbox>>

-----------------------------------------------------------------------------
Advance(h) ==
  \/ InsertOwner(h) \/ CommitProject(h)
  \/ ReadStatus(h) \/ InsertMember(h) \/ CommitResponse(h)
  \/ NotifyOwner(h) \/ NotifyRequestor(h)

MNext ==
  \E h \in Handlers :
    \/ \E p \in Projects, u \in Users :
         \/ InsertProject(h, p, u)
         \/ AddJoinRequest(h, p, u)
         \/ \E caller \in Users, s \in Statuses :
              CheckOwner(h, p, caller, u, s)
    \/ InsertOwner(h) \/ CommitProject(h)
    \/ ReadStatus(h) \/ UpdateStatus(h) \/ InsertMember(h) \/ CommitResponse(h)
    \/ NotifyOwner(h) \/ NotifyRequestor(h)
    \/ Fail(h)

MSpec == MInit /\ [][MNext]_vars

(* The Go runtime schedules every goroutine and the database answers every *)
(* statement; waiters on a row lock are queued, so one is not passed over  *)
(* for ever.                                                               *)
Fairness ==
  \A h \in Handlers : WF_vars(Advance(h)) /\ SF_vars(UpdateStatus(h))

FairMSpec == MSpec /\ Fairness

-----------------------------------------------------------------------------
MTypeOK ==
  /\ TypeOK
  /\ handler \in [Handlers -> Calls \cup {Idle}]
  /\ inbox \subseteq Notifications

-----------------------------------------------------------------------------
(* The inductive invariant: what the committed rows owe to the handlers    *)
(* that still hold a transaction open.                                     *)
Running(h, pcs) == handler[h] # Idle /\ handler[h].pc \in pcs

(* Two open transactions never write the same request row, nor create the  *)
(* same project.                                                           *)
NoSharedWrites ==
  \A g, h \in Handlers :
    /\ Running(g, LockingPCs) /\ Running(h, LockingPCs)
       /\ handler[g].project = handler[h].project
       /\ handler[g].user = handler[h].user => g = h
    /\ Running(g, CreatePCs) /\ Running(h, CreatePCs)
       /\ handler[g].project = handler[h].project => g = h

(* What a handler has established and the others cannot undo.              *)
Established ==
  \A h \in Handlers :
    LET p == handler[h].project
        u == handler[h].user
    IN /\ Running(h, CreatePCs) => owner[p] = NoUser
       /\ Running(h, {"updateStatus"} \cup LockingPCs \cup NotifyPCs)
            => request[p][u] # "None"
       /\ Running(h, {"insertMember"}) => handler[h].status = "Accepted"
       /\ Running(h, {"commitResponse"}) /\ handler[h].status = "Accepted"
            => role[p][u] = "None"
       /\ Running(h, {"notifyRequestor"}) /\ handler[h].status = "Accepted"
            => role[p][u] = "Member"

-----------------------------------------------------------------------------
(* Nobody becomes a member of their own project: the owner may ask, but    *)
(* the second role row violates the key of project_members and takes the   *)
(* status update back with it.                                             *)
OwnerIsNeverAccepted ==
  \A p \in Projects, u \in Users :
    owner[p] = u => request[p][u] # "Accepted"

(* A notification tells of something that happened: whoever reads that     *)
(* they were accepted is a member, and whoever reads of a request owns the *)
(* project it names and finds it in the table.                             *)
NotificationsAreTrue ==
  \A n \in inbox :
    /\ n.type = "join_responded" /\ n.status = "Accepted"
         => role[n.project][n.to] = "Member"
    /\ n.type = "join_requested"
         => owner[n.project] = n.to /\ request[n.project][n.about] # "None"

MInv == MTypeOK /\ Consistent /\ NoSharedWrites /\ Established
             /\ NotificationsAreTrue

(* No step takes a role away or changes it: whatever handlers race, an     *)
(* owner stays the owner and a member stays a member.                      *)
RolesAreKept ==
  [][\A p \in Projects, u \in Users :
       role[p][u] # "None" => role'[p][u] = role[p][u]]_vars

(* The rule of core/requests/service.go:130-132: a rejected request is not *)
(* accepted without having been pending again, and an accepted one stays   *)
(* accepted.                                                               *)
StatusRule ==
  [][\A p \in Projects, u \in Users :
       /\ request[p][u] = "Rejected" => request'[p][u] # "Accepted"
       /\ request[p][u] = "Accepted" => request'[p][u] = "Accepted"]_vars

(* Handlers that wait for each other's row locks all finish.               *)
EveryCallReturns == \A h \in Handlers : handler[h] # Idle ~> handler[h] = Idle

-----------------------------------------------------------------------------
(* Between its read of the status and its commit a call answers the        *)
(* request.  The code lets two calls do so at a time, which is how         *)
(* StatusRule is broken.                                                   *)
Answering(h) == Running(h, {"updateStatus"} \cup LockingPCs)

OneAnswerAtATime ==
  \A g, h \in Handlers :
    /\ Answering(g) /\ Answering(h)
    /\ handler[g].project = handler[h].project
    /\ handler[g].user = handler[h].user
    => g = h

(* While nobody else answers, the status is still the one the checks of    *)
(* core/requests/service.go:130-132 were made with.                        *)
AnswerIsStillAllowed ==
  \A h \in Handlers :
    Answering(h) =>
      MayBecome(request[handler[h].project][handler[h].user], handler[h].status)

(* The members of a project are those whose request is accepted.           *)
MembersAreTheAccepted ==
  \A p \in Projects, u \in Users :
    role[p][u] = "Member" <=> request[p][u] = "Accepted"

(* The statements a call has before it at most.                            *)
Left(h) ==
  IF handler[h] = Idle THEN 0
  ELSE [insertOwner |-> 2, commitProject |-> 1, readStatus |-> 5,
        updateStatus |-> 4, insertMember |-> 3, commitResponse |-> 2,
        notifyOwner |-> 1, notifyRequestor |-> 1][handler[h].pc]

(* No call goes back to an earlier statement, whatever the others do: what *)
(* EveryCallReturns needs besides fairness.                                *)
CallsMoveOn ==
  [][\A h \in Handlers :
       handler[h] # Idle /\ handler'[h] # handler[h] => Left(h)' < Left(h)]_vars

(* A call that waits for a row lock waits for one other call, which is     *)
(* further on and past the only statement that waits: nobody waits in a    *)
(* circle.                                                                 *)
Waiting(h) ==
  At(h, "updateStatus") /\ RowLocked(handler[h].project, handler[h].user)

Holds(h, p, u) ==
  Running(h, LockingPCs) /\ handler[h].project = p /\ handler[h].user = u

NobodyWaitsInACircle ==
  \A g \in Handlers :
    Waiting(g) =>
      \E h \in Handlers :
        /\ Left(h) < Left(g) /\ ~Waiting(h)
        /\ \A k \in Handlers :
             Holds(k, handler[g].project, handler[g].user) <=> k = h

(* Each committed transaction is one step of the abstract admission.       *)
ImplementsAdmission == Spec
=============================================================================
