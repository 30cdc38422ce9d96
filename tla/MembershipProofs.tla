---------------------------- MODULE MembershipProofs ----------------------------
(* Proofs about the handlers of Membership.tla for any number of users,     *)
(* projects and concurrent requests: the inductive invariant MInv, the      *)
(* refinement of Admission, the safety properties that follow from it, and  *)
(* that a server which also runs pages and edits (Server.tla) runs it.      *)
EXTENDS Server, AdmissionProofs

(* What a handler may look like when it is not idle, for steps that only    *)
(* need its fields typed.                                                   *)
LEMMA CallTyping ==
  ASSUME MTypeOK, NEW h \in Handlers, handler[h] # Idle
  PROVE  /\ handler[h] \in Calls
         /\ handler[h].project \in Projects
         /\ handler[h].caller \in Users
         /\ handler[h].user \in Users
         /\ handler[h].status \in Statuses
  BY DEF MTypeOK, Calls

(* A move of the program counter keeps the record a call, with the same     *)
(* arguments.                                                               *)
LEMMA GoToTyping ==
  ASSUME MTypeOK, NEW h \in Handlers, handler[h] # Idle,
         NEW pc \in CreatePCs \cup RespondPCs \cup NotifyPCs, GoTo(h, pc)
  PROVE  /\ handler' \in [Handlers -> Calls \cup {Idle}]
         /\ handler'[h] # Idle
         /\ handler'[h].pc = pc
         /\ handler'[h].project = handler[h].project
         /\ handler'[h].user = handler[h].user
         /\ handler'[h].caller = handler[h].caller
         /\ handler'[h].status = handler[h].status
         /\ \A g \in Handlers \ {h} : handler'[g] = handler[g]
  <1>1. handler[h] \in Calls
    BY CallTyping
  <1>2. [handler[h] EXCEPT !.pc = pc] \in Calls
    BY <1>1 DEF Calls
  <1>3. handler'[h] = [handler[h] EXCEPT !.pc = pc]
    BY DEF GoTo, MTypeOK
  <1>4. handler' \in [Handlers -> Calls \cup {Idle}]
    BY <1>2, <1>3 DEF GoTo, MTypeOK
  <1>5. handler'[h] # Idle
    BY <1>2, <1>3, IdleAssumption
  <1>6. QED
    BY <1>1, <1>3, <1>4, <1>5 DEF GoTo, MTypeOK, Calls

(* A return leaves the other handlers as they were.                         *)
LEMMA ReturnTyping ==
  ASSUME MTypeOK, NEW h \in Handlers, Return(h)
  PROVE  /\ handler' \in [Handlers -> Calls \cup {Idle}]
         /\ handler'[h] = Idle
         /\ \A g \in Handlers \ {h} : handler'[g] = handler[g]
  BY DEF Return, MTypeOK

(* A new call is typed and leaves the other handlers as they were.          *)
LEMMA StartTyping ==
  ASSUME MTypeOK, NEW h \in Handlers, NEW c \in Calls,
         handler' = [handler EXCEPT ![h] = c]
  PROVE  /\ handler' \in [Handlers -> Calls \cup {Idle}]
         /\ handler'[h] = c
         /\ handler'[h] # Idle
         /\ \A g \in Handlers \ {h} : handler'[g] = handler[g]
  BY IdleAssumption DEF MTypeOK

-----------------------------------------------------------------------------
LEMMA MInvInit == MInit => MInv
  BY AdmissionTypeInit, ConsistentInit
     DEF MInit, MInv, MTypeOK, NoSharedWrites, Established, Running,
         NotificationsAreTrue, Notifications

(* Each step of a handler is a step of the abstract admission or a stutter: *)
(* the two commits and the single-statement insert are the only ones that   *)
(* show.                                                                    *)
LEMMA StepRefines == MInv /\ [MNext]_vars => [Next]_avars
  <1> SUFFICES ASSUME MInv, [MNext]_vars PROVE [Next]_avars
    OBVIOUS
  <1> USE DEF MInv
  <1>1. ASSUME NEW h \in Handlers, CommitProject(h) PROVE [Next]_avars
    <2> DEFINE p == handler[h].project
               u == handler[h].caller
    <2>1. p \in Projects /\ u \in Users /\ owner[p] = NoUser
      BY <1>1, CallTyping DEF CommitProject, At, Established, Running, CreatePCs
    <2>2. CreateProject(p, u)
      BY <1>1, <2>1 DEF CommitProject, CreateProject
    <2>3. QED
      BY <2>1, <2>2 DEF Next
  <1>2. ASSUME NEW h \in Handlers, NEW p \in Projects, NEW u \in Users,
               AddJoinRequest(h, p, u)
        PROVE  [Next]_avars
    BY <1>2 DEF AddJoinRequest, Ask, Next
  <1>3. ASSUME NEW h \in Handlers, CommitResponse(h) PROVE [Next]_avars
    <2> DEFINE p == handler[h].project
               u == handler[h].user
               s == handler[h].status
    <2>1. p \in Projects /\ u \in Users /\ s \in Statuses
      BY <1>3, CallTyping DEF CommitResponse, At
    <2>2. request[p][u] # "None"
      BY <1>3 DEF CommitResponse, At, Established, Running, LockingPCs
    <2>3. CASE s = "Accepted"
      <3>1. role[p][u] = "None"
        BY <1>3, <2>3 DEF CommitResponse, At, Established, Running
      <3>2. Accept(p, u)
        BY <1>3, <2>2, <2>3, <3>1 DEF CommitResponse, Accept
      <3>3. QED
        BY <2>1, <3>2 DEF Next
    <2>4. CASE s # "Accepted"
      <3>1. Decide(p, u, s)
        BY <1>3, <2>2, <2>4 DEF CommitResponse, Decide
      <3>2. QED
        BY <2>1, <3>1 DEF Next
    <2>5. QED
      BY <2>3, <2>4
  <1>4. ASSUME NEW h \in Handlers,
               \/ \E p \in Projects, u \in Users :
                    \/ InsertProject(h, p, u)
                    \/ \E c \in Users, s \in Statuses : CheckOwner(h, p, c, u, s)
               \/ InsertOwner(h) \/ ReadStatus(h) \/ UpdateStatus(h)
               \/ InsertMember(h) \/ NotifyOwner(h) \/ NotifyRequestor(h)
               \/ Fail(h)
        PROVE  UNCHANGED avars
    BY <1>4 DEF InsertProject, CheckOwner, InsertOwner, ReadStatus, UpdateStatus,
         InsertMember, NotifyOwner, NotifyRequestor, Fail, avars
  <1>5. CASE UNCHANGED vars
    BY <1>5 DEF vars, avars
  <1>6. QED
    BY <1>1, <1>2, <1>3, <1>4, <1>5 DEF MNext

-----------------------------------------------------------------------------
(* Preservation of the handlers' part of the invariant, action by action.   *)
(* Local is that part: the tables' part comes with the refinement.          *)
Local ==
  /\ handler \in [Handlers -> Calls \cup {Idle}]
  /\ inbox \subseteq Notifications
  /\ NoSharedWrites
  /\ Established
  /\ NotificationsAreTrue

LEMMA LocalInsertProject ==
  ASSUME MInv, NEW h \in Handlers, NEW p \in Projects, NEW u \in Users,
         InsertProject(h, p, u)
  PROVE  Local'
  <1> DEFINE c == [pc |-> "insertOwner", project |-> p, caller |-> u, user |-> u,
                   status |-> "Pending"]
  <1> USE DEF MInv
  <1>1. c \in Calls
    BY DEF Calls, CreatePCs, Statuses
  <1>2. handler' = [handler EXCEPT ![h] = c]
    BY DEF InsertProject
  <1> HIDE DEF c
  <1>3. /\ handler' \in [Handlers -> Calls \cup {Idle}]
        /\ handler'[h] = c
        /\ \A g \in Handlers \ {h} : handler'[g] = handler[g]
    BY <1>1, <1>2, StartTyping
  <1>4. c.pc = "insertOwner" /\ c.project = p
    BY DEF c
  <1>5. NoSharedWrites'
    BY <1>3, <1>4 DEF InsertProject, IdInUse, NoSharedWrites, Running,
                     CreatePCs, LockingPCs
  <1>6. Established'
    BY <1>3, <1>4 DEF InsertProject, IdInUse, Established, Running,
                     CreatePCs, LockingPCs, NotifyPCs
  <1>7. QED
    BY <1>3, <1>5, <1>6 DEF Local, InsertProject, NotificationsAreTrue, MTypeOK

LEMMA LocalAddJoinRequest ==
  ASSUME MInv, NEW h \in Handlers, NEW p \in Projects, NEW u \in Users,
         AddJoinRequest(h, p, u)
  PROVE  Local'
  <1> DEFINE c == [pc |-> "notifyOwner", project |-> p, caller |-> u, user |-> u,
                   status |-> "Pending"]
  <1> USE DEF MInv
  <1>1. c \in Calls
    BY DEF Calls, NotifyPCs, Statuses
  <1>2. handler' = [handler EXCEPT ![h] = c]
    BY DEF AddJoinRequest
  <1> HIDE DEF c
  <1>3. /\ handler' \in [Handlers -> Calls \cup {Idle}]
        /\ handler'[h] = c
        /\ \A g \in Handlers \ {h} : handler'[g] = handler[g]
    BY <1>1, <1>2, StartTyping
  <1>4. c.pc = "notifyOwner" /\ c.project = p /\ c.user = u
    BY DEF c
  <1>5. \A q \in Projects, v \in Users :
          request[q][v] # "None" => request'[q][v] # "None"
    BY DEF AddJoinRequest, MTypeOK, TypeOK
  <1>6. request'[p][u] # "None"
    BY DEF AddJoinRequest, MTypeOK, TypeOK
  <1>7. NoSharedWrites'
    BY <1>3, <1>4 DEF NoSharedWrites, Running, CreatePCs, LockingPCs
  <1>8. Established'
    BY <1>3, <1>4, <1>5, <1>6, CallTyping
       DEF AddJoinRequest, Established, Running, CreatePCs, LockingPCs, NotifyPCs
  <1>9. NotificationsAreTrue'
    BY <1>5 DEF AddJoinRequest, NotificationsAreTrue, MTypeOK, Notifications
  <1>10. QED
    BY <1>3, <1>7, <1>8, <1>9 DEF Local, AddJoinRequest, MTypeOK

LEMMA LocalCheckOwner ==
  ASSUME MInv, NEW h \in Handlers, NEW p \in Projects, NEW u \in Users,
         NEW caller \in Users, NEW s \in Statuses, CheckOwner(h, p, caller, u, s)
  PROVE  Local'
  <1> DEFINE c == [pc |-> "readStatus", project |-> p, caller |-> caller,
                   user |-> u, status |-> s]
  <1> USE DEF MInv
  <1>1. c \in Calls
    BY DEF Calls, RespondPCs
  <1>2. handler' = [handler EXCEPT ![h] = c]
    BY DEF CheckOwner
  <1> HIDE DEF c
  <1>3. /\ handler' \in [Handlers -> Calls \cup {Idle}]
        /\ handler'[h] = c
        /\ \A g \in Handlers \ {h} : handler'[g] = handler[g]
    BY <1>1, <1>2, StartTyping
  <1>4. c.pc = "readStatus"
    BY DEF c
  <1>5. NoSharedWrites'
    BY <1>3, <1>4 DEF NoSharedWrites, Running, CreatePCs, LockingPCs
  <1>6. Established'
    BY <1>3, <1>4 DEF CheckOwner, Established, Running, CreatePCs, LockingPCs,
                     NotifyPCs
  <1>7. QED
    BY <1>3, <1>5, <1>6 DEF Local, CheckOwner, NotificationsAreTrue, MTypeOK

(* A handler that returns without having written anything keeps Local.      *)
LEMMA LocalReturn ==
  ASSUME MInv, NEW h \in Handlers, Return(h),
         UNCHANGED <<owner, role, request, inbox>>
  PROVE  Local'
  <1> USE DEF MInv
  <1>1. /\ handler' \in [Handlers -> Calls \cup {Idle}]
        /\ handler'[h] = Idle
        /\ \A g \in Handlers \ {h} : handler'[g] = handler[g]
    BY ReturnTyping
  <1>2. NoSharedWrites'
    BY <1>1 DEF NoSharedWrites, Running
  <1>3. Established'
    BY <1>1 DEF Established, Running
  <1>4. QED
    BY <1>1, <1>2, <1>3 DEF Local, NotificationsAreTrue, MTypeOK

LEMMA LocalInsertOwner ==
  ASSUME MInv, NEW h \in Handlers, InsertOwner(h)
  PROVE  Local'
  <1> USE DEF MInv
  <1>1. handler[h] # Idle /\ handler[h].pc = "insertOwner" /\ GoTo(h, "commitProject")
    BY DEF InsertOwner, At
  <1>2. /\ handler' \in [Handlers -> Calls \cup {Idle}]
        /\ handler'[h] # Idle /\ handler'[h].pc = "commitProject"
        /\ handler'[h].project = handler[h].project
        /\ \A g \in Handlers \ {h} : handler'[g] = handler[g]
    BY <1>1, GoToTyping DEF CreatePCs
  <1>3. NoSharedWrites'
    BY <1>1, <1>2 DEF NoSharedWrites, Running, CreatePCs, LockingPCs
  <1>4. Established'
    BY <1>1, <1>2 DEF InsertOwner, Established, Running, CreatePCs, LockingPCs,
                     NotifyPCs
  <1>5. QED
    BY <1>2, <1>3, <1>4 DEF Local, InsertOwner, NotificationsAreTrue, MTypeOK

LEMMA LocalReadStatus ==
  ASSUME MInv, NEW h \in Handlers, ReadStatus(h)
  PROVE  Local'
  <1> USE DEF MInv
  <1>1. CASE Return(h)
    BY <1>1, LocalReturn DEF ReadStatus
  <1>2. CASE ~Return(h)
    <2>1. /\ handler[h] # Idle /\ handler[h].pc = "readStatus"
          /\ request[handler[h].project][handler[h].user] # "None"
          /\ GoTo(h, "updateStatus")
      BY <1>2 DEF ReadStatus, At
    <2>2. /\ handler' \in [Handlers -> Calls \cup {Idle}]
          /\ handler'[h] # Idle /\ handler'[h].pc = "updateStatus"
          /\ handler'[h].project = handler[h].project
          /\ handler'[h].user = handler[h].user
          /\ \A g \in Handlers \ {h} : handler'[g] = handler[g]
      BY <2>1, GoToTyping DEF RespondPCs
    <2>3. NoSharedWrites'
      BY <2>1, <2>2 DEF NoSharedWrites, Running, CreatePCs, LockingPCs
    <2>4. Established'
      BY <2>1, <2>2 DEF ReadStatus, Established, Running, CreatePCs, LockingPCs,
                       NotifyPCs
    <2>5. QED
      BY <2>2, <2>3, <2>4 DEF Local, ReadStatus, NotificationsAreTrue, MTypeOK
  <1>3. QED
    BY <1>1, <1>2

(* The row lock makes the updater the only writer of its request row.       *)
LEMMA LocalUpdateStatus ==
  ASSUME MInv, NEW h \in Handlers, UpdateStatus(h)
  PROVE  Local'
  <1> USE DEF MInv
  <1> DEFINE pc == IF handler[h].status = "Accepted" THEN "insertMember"
                                                     ELSE "commitResponse"
  <1>1. /\ handler[h] # Idle /\ handler[h].pc = "updateStatus"
        /\ ~RowLocked(handler[h].project, handler[h].user)
        /\ GoTo(h, pc)
    BY DEF UpdateStatus, At
  <1>2. pc \in LockingPCs /\ pc \in CreatePCs \cup RespondPCs \cup NotifyPCs
    BY DEF RespondPCs, LockingPCs
  <1>3. /\ pc = "insertMember" => handler[h].status = "Accepted"
        /\ pc = "commitResponse" => handler[h].status # "Accepted"
    OBVIOUS
  <1> HIDE DEF pc
  <1>4. /\ handler' \in [Handlers -> Calls \cup {Idle}]
        /\ handler'[h] # Idle /\ handler'[h].pc = pc
        /\ handler'[h].project = handler[h].project
        /\ handler'[h].user = handler[h].user
        /\ handler'[h].status = handler[h].status
        /\ \A g \in Handlers \ {h} : handler'[g] = handler[g]
    BY <1>1, <1>2, GoToTyping
  <1>5. NoSharedWrites'
    BY <1>1, <1>2, <1>4 DEF RowLocked, NoSharedWrites, Running, CreatePCs,
                           LockingPCs
  <1>6. Established'
    BY <1>1, <1>2, <1>3, <1>4
       DEF UpdateStatus, Established, Running, CreatePCs, LockingPCs, NotifyPCs
  <1>7. QED
    BY <1>4, <1>5, <1>6 DEF Local, UpdateStatus, NotificationsAreTrue, MTypeOK

LEMMA LocalInsertMember ==
  ASSUME MInv, NEW h \in Handlers, InsertMember(h)
  PROVE  Local'
  <1> USE DEF MInv
  <1>1. CASE Return(h)
    BY <1>1, LocalReturn DEF InsertMember
  <1>2. CASE ~Return(h)
    <2>1. /\ handler[h] # Idle /\ handler[h].pc = "insertMember"
          /\ role[handler[h].project][handler[h].user] = "None"
          /\ GoTo(h, "commitResponse")
      BY <1>2 DEF InsertMember, At
    <2>2. /\ handler' \in [Handlers -> Calls \cup {Idle}]
          /\ handler'[h] # Idle /\ handler'[h].pc = "commitResponse"
          /\ handler'[h].project = handler[h].project
          /\ handler'[h].user = handler[h].user
          /\ handler'[h].status = handler[h].status
          /\ \A g \in Handlers \ {h} : handler'[g] = handler[g]
      BY <2>1, GoToTyping DEF RespondPCs, LockingPCs
    <2>3. NoSharedWrites'
      BY <2>1, <2>2 DEF NoSharedWrites, Running, CreatePCs, LockingPCs
    <2>4. Established'
      BY <2>1, <2>2 DEF InsertMember, Established, Running, CreatePCs, LockingPCs,
                       NotifyPCs
    <2>5. QED
      BY <2>2, <2>3, <2>4 DEF Local, InsertMember, NotificationsAreTrue, MTypeOK
  <1>3. QED
    BY <1>1, <1>2

(* A project's commit changes tables no other transaction counts on: its id *)
(* had no rows.                                                             *)
LEMMA LocalCommitProject ==
  ASSUME MInv, NEW h \in Handlers, CommitProject(h)
  PROVE  Local'
  <1> USE DEF MInv
  <1> DEFINE p == handler[h].project
             u == handler[h].caller
  <1>1. /\ handler[h] # Idle /\ handler[h].pc = "commitProject"
        /\ owner' = [owner EXCEPT ![p] = u]
        /\ role' = [role EXCEPT ![p][u] = "Owner"]
        /\ request' = request /\ inbox' = inbox /\ Return(h)
    BY DEF CommitProject, At
  <1>2. p \in Projects /\ u \in Users
    BY <1>1, CallTyping
  <1>3. owner[p] = NoUser
    BY <1>1 DEF Established, Running, CreatePCs
  <1>4. /\ handler' \in [Handlers -> Calls \cup {Idle}]
        /\ handler'[h] = Idle
        /\ \A g \in Handlers \ {h} : handler'[g] = handler[g]
    BY <1>1, ReturnTyping
  <1> HIDE DEF p, u
  <1>5. \A q \in Projects \ {p} : owner'[q] = owner[q] /\ role'[q] = role[q]
    BY <1>1, <1>2 DEF MTypeOK, TypeOK
  <1>6. \A v \in Users : request[p][v] = "None" /\ role[p][v] = "None"
    BY <1>2, <1>3 DEF Consistent, ExactlyOneOwner
  <1>7. NoSharedWrites'
    BY <1>4 DEF NoSharedWrites, Running
  <1>8. Established'
    <2> SUFFICES ASSUME NEW g \in Handlers, handler'[g] # Idle
                 PROVE  LET q == handler[g].project
                            v == handler[g].user
                        IN /\ Running(g, CreatePCs) => owner'[q] = NoUser
                           /\ Running(g, {"updateStatus"} \cup LockingPCs \cup NotifyPCs)
                                => q # p
      BY <1>1, <1>4, <1>5, CallTyping DEF Established, Running, LockingPCs, NotifyPCs
    <2>1. g # h /\ handler[g] # Idle /\ handler[g].project \in Projects
          /\ handler[g].user \in Users
      BY <1>4, CallTyping
    <2>2. Running(g, CreatePCs) => handler[g].project # p
      BY <1>1, <2>1 DEF NoSharedWrites, Running, CreatePCs, p
    <2>3. Running(g, {"updateStatus"} \cup LockingPCs \cup NotifyPCs)
             => handler[g].project # p
      BY <1>6, <2>1 DEF Established
    <2>4. QED
      BY <1>5, <2>1, <2>2, <2>3 DEF Established
  <1>9. NotificationsAreTrue'
    BY <1>1, <1>2, <1>3, <1>5, <1>6
       DEF NotificationsAreTrue, MTypeOK, Notifications
  <1>10. QED
    BY <1>1, <1>4, <1>7, <1>8, <1>9 DEF Local, MTypeOK

(* A decision's commit: the lock kept every other transaction from counting *)
(* on the role row that an acceptance creates.                              *)
LEMMA LocalCommitResponse ==
  ASSUME MInv, NEW h \in Handlers, CommitResponse(h)
  PROVE  Local'
  <1> USE DEF MInv
  <1> DEFINE p == handler[h].project
             u == handler[h].user
             s == handler[h].status
  <1>1. /\ handler[h] # Idle /\ handler[h].pc = "commitResponse"
        /\ request' = [request EXCEPT ![p][u] = s]
        /\ role' = IF s = "Accepted" THEN [role EXCEPT ![p][u] = "Member"] ELSE role
        /\ owner' = owner /\ inbox' = inbox /\ GoTo(h, "notifyRequestor")
    BY DEF CommitResponse, At
  <1>2. p \in Projects /\ u \in Users /\ s \in Statuses
    BY <1>1, CallTyping
  <1>3. s = "Accepted" => role[p][u] = "None"
    BY <1>1 DEF Established, Running
  <1>4. /\ handler' \in [Handlers -> Calls \cup {Idle}]
        /\ handler'[h] # Idle /\ handler'[h].pc = "notifyRequestor"
        /\ handler'[h].project = p /\ handler'[h].user = u
        /\ handler'[h].status = s
        /\ \A g \in Handlers \ {h} : handler'[g] = handler[g]
    BY <1>1, GoToTyping DEF NotifyPCs
  <1>5. \A g \in Handlers \ {h} :
          Running(g, LockingPCs) => handler[g].project # p \/ handler[g].user # u
    BY <1>1 DEF NoSharedWrites, Running, LockingPCs
  <1> HIDE DEF p, u, s
  <1>6. \A q \in Projects, v \in Users :
          /\ request[q][v] # "None" => request'[q][v] # "None"
          /\ role[q][v] = "Member" => role'[q][v] = "Member"
          /\ q # p \/ v # u => role'[q][v] = role[q][v]
    BY <1>1, <1>2, <1>3 DEF MTypeOK, TypeOK, Statuses
  <1>7. request'[p][u] # "None" /\ (s = "Accepted" => role'[p][u] = "Member")
    BY <1>1, <1>2 DEF MTypeOK, TypeOK, Statuses
  <1>8. NoSharedWrites'
    BY <1>4 DEF NoSharedWrites, Running, CreatePCs, LockingPCs
  <1>9. Established'
    <2> SUFFICES ASSUME NEW g \in Handlers, handler'[g] # Idle
                 PROVE  LET q == handler'[g].project
                            v == handler'[g].user
                            pc == handler'[g].pc
                        IN /\ pc \in CreatePCs => owner'[q] = NoUser
                           /\ pc \in {"updateStatus"} \cup LockingPCs \cup NotifyPCs
                                => request'[q][v] # "None"
                           /\ pc = "insertMember" => handler'[g].status = "Accepted"
                           /\ pc = "commitResponse" /\ handler'[g].status = "Accepted"
                                => role'[q][v] = "None"
                           /\ pc = "notifyRequestor" /\ handler'[g].status = "Accepted"
                                => role'[q][v] = "Member"
      BY DEF Established, Running
    <2>1. CASE g = h
      BY <1>4, <1>7, <2>1 DEF CreatePCs
    <2>2. CASE g # h
      <3>1. handler'[g] = handler[g] /\ handler[g] # Idle
            /\ handler[g].project \in Projects /\ handler[g].user \in Users
        BY <1>4, <2>2, CallTyping
      <3>2. QED
        BY <1>1, <1>5, <1>6, <2>2, <3>1 DEF Established, Running, LockingPCs
    <2>3. QED
      BY <2>1, <2>2
  <1>10. NotificationsAreTrue'
    BY <1>1, <1>6 DEF NotificationsAreTrue, MTypeOK, Notifications
  <1>11. QED
    BY <1>1, <1>4, <1>8, <1>9, <1>10 DEF Local, MTypeOK

(* What a notification says was committed before it was written.            *)
LEMMA LocalNotify ==
  ASSUME MInv, NEW h \in Handlers, NotifyOwner(h) \/ NotifyRequestor(h)
  PROVE  Local'
  <1> USE DEF MInv
  <1> DEFINE p == handler[h].project
             u == handler[h].user
             s == handler[h].status
  <1>1. /\ handler[h] # Idle /\ handler[h].pc \in NotifyPCs /\ Return(h)
        /\ owner' = owner /\ role' = role /\ request' = request
    BY DEF NotifyOwner, NotifyRequestor, At, NotifyPCs
  <1>2. p \in Projects /\ u \in Users /\ s \in Statuses /\ request[p][u] # "None"
    BY <1>1, CallTyping DEF Established, Running
  <1>3. owner[p] \in Users
    BY <1>2 DEF Consistent, ExactlyOneOwner, MTypeOK, TypeOK
  <1>4. /\ handler' \in [Handlers -> Calls \cup {Idle}]
        /\ handler'[h] = Idle
        /\ \A g \in Handlers \ {h} : handler'[g] = handler[g]
    BY <1>1, ReturnTyping
  <1>5. NoSharedWrites' /\ Established'
    BY <1>1, <1>4 DEF NoSharedWrites, Established, Running
  <1>6. inbox' \subseteq Notifications /\ NotificationsAreTrue'
    <2>1. CASE NotifyOwner(h)
      BY <1>1, <1>2, <1>3, <2>1 DEF NotifyOwner, AddRow, Notifications,
         NotificationTypes, Statuses, NotificationsAreTrue, MTypeOK
    <2>2. CASE NotifyRequestor(h)
      <3>1. s = "Accepted" => role[p][u] = "Member"
        BY <1>1, <2>2 DEF NotifyRequestor, At, Established, Running
      <3>2. QED
        BY <1>1, <1>2, <2>2, <3>1 DEF NotifyRequestor, AddRow, Notifications,
           NotificationTypes, Statuses, NotificationsAreTrue, MTypeOK
    <2>3. QED
      BY <2>1, <2>2
  <1>7. QED
    BY <1>4, <1>5, <1>6 DEF Local

(* The inductive step, from the actions' lemmas and the refinement.         *)
LEMMA MInvStep == MInv /\ [MNext]_vars => MInv'
  <1> SUFFICES ASSUME MInv, [MNext]_vars PROVE MInv'
    OBVIOUS
  <1>1. TypeOK' /\ Consistent'
    BY StepRefines, AdmissionTypeStep, ConsistentStep DEF MInv, MTypeOK
  <1>2. Local'
    <2>1. CASE UNCHANGED vars
      BY <2>1 DEF vars, MInv, MTypeOK, Local, NoSharedWrites, Established, Running,
         NotificationsAreTrue
    <2>2. ASSUME NEW h \in Handlers, Fail(h) PROVE Local'
      BY <2>2, LocalReturn DEF Fail
    <2>3. QED
      BY <2>1, <2>2, LocalInsertProject, LocalAddJoinRequest, LocalCheckOwner,
         LocalInsertOwner, LocalCommitProject, LocalReadStatus, LocalUpdateStatus,
         LocalInsertMember, LocalCommitResponse, LocalNotify DEF MNext
  <1>3. QED
    BY <1>1, <1>2 DEF Local, MInv, MTypeOK

-----------------------------------------------------------------------------
(* The inductive invariant holds in every reachable state.                  *)
THEOREM MembershipInvariant == MSpec => []MInv
  BY MInvInit, MInvStep, PTL DEF MSpec

(* The state stays within its types.                                        *)
THEOREM MembershipTyping == MSpec => []MTypeOK
  <1>1. MInv => MTypeOK
    BY DEF MInv
  <1>2. QED
    BY <1>1, MembershipInvariant, PTL

(* The handlers implement the atomic admission, however they interleave and *)
(* wherever they fail.                                                      *)
THEOREM MembershipRefinesAdmission == MSpec => ImplementsAdmission
  <1>1. MInit => Init
    BY DEF MInit
  <1>2. QED
    BY <1>1, StepRefines, MembershipInvariant, PTL
       DEF MSpec, Spec, ImplementsAdmission

(* An accepted requestor is a member in every reachable state.              *)
THEOREM AcceptedIsMemberHolds == MSpec => []AcceptedIsMember
  <1>1. MInv => AcceptedIsMember
    BY DEF MInv, Consistent
  <1>2. QED
    BY <1>1, MembershipInvariant, PTL

(* A project has exactly one Owner row, that of its owner_id.               *)
THEOREM ExactlyOneOwnerHolds == MSpec => []ExactlyOneOwner
  <1>1. MInv => ExactlyOneOwner
    BY DEF MInv, Consistent
  <1>2. QED
    BY <1>1, MembershipInvariant, PTL

(* No owner's own request is ever recorded as accepted.                     *)
THEOREM OwnerIsNeverAcceptedHolds == MSpec => []OwnerIsNeverAccepted
  <1>1. MInv => OwnerIsNeverAccepted
    BY NoUserAssumption DEF MInv, Consistent, AcceptedIsMember, ExactlyOneOwner,
       OwnerIsNeverAccepted
  <1>2. QED
    BY <1>1, MembershipInvariant, PTL

(* What a notification row says is true for as long as the row exists.      *)
THEOREM NotificationsAreTrueHolds == MSpec => []NotificationsAreTrue
  <1>1. MInv => NotificationsAreTrue
    BY DEF MInv
  <1>2. QED
    BY <1>1, MembershipInvariant, PTL

(* No step removes or changes a role row.                                   *)
THEOREM RolesAreKeptHolds == MSpec => RolesAreKept
  <1>1. MInv /\ [MNext]_vars =>
          [\A p \in Projects, u \in Users :
             role[p][u] # "None" => role'[p][u] = role[p][u]]_vars
    <2> SUFFICES ASSUME MInv, [MNext]_vars,
                        NEW p \in Projects, NEW u \in Users, role[p][u] # "None"
                 PROVE  role'[p][u] = role[p][u]
      OBVIOUS
    <2>1. TypeOK /\ Consistent /\ [Next]_avars
      BY StepRefines DEF MInv, MTypeOK
    <2>2. QED
      BY <2>1 DEF TypeOK, Consistent, ExactlyOneOwner, Next, avars,
         CreateProject, Ask, Accept, Decide
  <1>2. QED
    BY <1>1, MembershipInvariant, PTL DEF MSpec, RolesAreKept
-----------------------------------------------------------------------------
(* The overlap of two answers is the only way to break the status rule.     *)

(* Nobody else answers: what the call has read of the request stays true    *)
(* until its commit.                                                        *)
LEMMA AnswerStep ==
  ASSUME MInv, OneAnswerAtATime, AnswerIsStillAllowed, [MNext]_vars
  PROVE  AnswerIsStillAllowed'
  <1> SUFFICES ASSUME NEW g \in Handlers, Answering(g)'
               PROVE  MayBecome(request'[handler'[g].project][handler'[g].user],
                                handler'[g].status)
    BY DEF AnswerIsStillAllowed
  <1> USE DEF MInv
  <1>1. ASSUME NEW h \in Handlers, CommitResponse(h) PROVE g # h /\ Answering(g)
               /\ handler'[g] = handler[g]
               /\ request'[handler[g].project][handler[g].user]
                    = request[handler[g].project][handler[g].user]
    <2>1. /\ handler[h] # Idle /\ handler[h].pc = "commitResponse"
          /\ GoTo(h, "notifyRequestor")
          /\ request' = [request EXCEPT ![handler[h].project][handler[h].user]
                                          = handler[h].status]
      BY <1>1 DEF CommitResponse, At
    <2>2. handler'[h].pc = "notifyRequestor"
          /\ \A k \in Handlers \ {h} : handler'[k] = handler[k]
      BY <2>1, GoToTyping DEF NotifyPCs
    <2>3. g # h
      BY <2>2 DEF Answering, Running, LockingPCs
    <2>4. Answering(h) /\ Answering(g) /\ handler'[g] = handler[g]
      BY <2>1, <2>2, <2>3 DEF Answering, Running, LockingPCs
    <2>5. handler[g].project # handler[h].project \/ handler[g].user # handler[h].user
      BY <2>3, <2>4 DEF OneAnswerAtATime
    <2>6. handler[g].project \in Projects /\ handler[g].user \in Users
      BY <2>4, CallTyping DEF Answering, Running
    <2>7. QED
      BY <2>1, <2>3, <2>4, <2>5, <2>6 DEF MTypeOK, TypeOK
  <1>2. ASSUME NEW h \in Handlers, NEW p \in Projects, NEW u \in Users,
               AddJoinRequest(h, p, u)
        PROVE  /\ Answering(g) /\ handler'[g] = handler[g]
               /\ request'[handler[g].project][handler[g].user]
                    = request[handler[g].project][handler[g].user]
    <2>1. g # h
      BY <1>2 DEF AddJoinRequest, Answering, Running, LockingPCs, MTypeOK
    <2>2. Answering(g) /\ handler'[g] = handler[g]
      BY <1>2, <2>1 DEF AddJoinRequest, Answering, Running, MTypeOK
    <2>3. /\ handler[g].project \in Projects /\ handler[g].user \in Users
          /\ request[handler[g].project][handler[g].user] # "None"
      BY <2>2, CallTyping DEF Answering, Running, Established
    <2>4. QED
      BY <1>2, <2>2, <2>3 DEF AddJoinRequest, MTypeOK, TypeOK
  <1>3. ASSUME NEW h \in Handlers, ReadStatus(h), g = h
        PROVE  MayBecome(request'[handler'[g].project][handler'[g].user],
                         handler'[g].status)
    <2>1. handler[h] # Idle /\ request' = request
      BY <1>3 DEF ReadStatus, At
    <2>2. ~Return(h)
      BY <1>3 DEF Return, Answering, Running, MTypeOK
    <2>3. /\ GoTo(h, "updateStatus")
          /\ MayBecome(request[handler[h].project][handler[h].user], handler[h].status)
      BY <1>3, <2>2 DEF ReadStatus
    <2>4. QED
      BY <1>3, <2>1, <2>3, GoToTyping DEF RespondPCs
  <1>4. ASSUME \/ \E h \in Handlers :
                    \/ \E p \in Projects, u \in Users :
                         \/ InsertProject(h, p, u)
                         \/ \E c \in Users, s \in Statuses : CheckOwner(h, p, c, u, s)
                    \/ InsertOwner(h) \/ CommitProject(h) \/ UpdateStatus(h)
                    \/ InsertMember(h) \/ NotifyOwner(h) \/ NotifyRequestor(h)
                    \/ Fail(h)
                    \/ ReadStatus(h) /\ g # h
               \/ UNCHANGED vars
        PROVE  /\ Answering(g) /\ request' = request
               /\ handler'[g].project = handler[g].project
               /\ handler'[g].user = handler[g].user
               /\ handler'[g].status = handler[g].status
    <2>1. ASSUME NEW h \in Handlers, NEW p \in Projects, NEW u \in Users,
                 \/ InsertProject(h, p, u)
                 \/ \E c \in Users, s \in Statuses : CheckOwner(h, p, c, u, s)
          PROVE  g # h /\ handler'[g] = handler[g] /\ request' = request
      BY <2>1 DEF InsertProject, CheckOwner, Answering, Running, LockingPCs, MTypeOK
    <2>2. ASSUME NEW h \in Handlers, UpdateStatus(h) \/ InsertMember(h)
          PROVE  /\ Answering(g) /\ request' = request
                 /\ handler'[g].project = handler[g].project
                 /\ handler'[g].user = handler[g].user
                 /\ handler'[g].status = handler[g].status
      <3>1. Answering(h) /\ handler[h] # Idle /\ request' = request
        BY <2>2 DEF UpdateStatus, InsertMember, At, Answering, Running, LockingPCs
      <3>2. CASE Return(h)
        BY <3>1, <3>2 DEF Return, Answering, Running, MTypeOK
      <3>3. CASE ~Return(h)
        <4>1. PICK pc \in LockingPCs : GoTo(h, pc)
          BY <2>2, <3>3 DEF UpdateStatus, InsertMember, LockingPCs
        <4>2. pc \in CreatePCs \cup RespondPCs \cup NotifyPCs
          BY DEF RespondPCs
        <4>3. QED
          BY <3>1, <4>1, <4>2, GoToTyping DEF Answering, Running
      <3>4. QED
        BY <3>2, <3>3
    <2>3. ASSUME NEW h \in Handlers,
                 \/ CommitProject(h) \/ NotifyOwner(h) \/ NotifyRequestor(h) \/ Fail(h)
          PROVE  g # h /\ handler'[g] = handler[g] /\ request' = request
      BY <2>3 DEF CommitProject, NotifyOwner, NotifyRequestor, Fail, Return,
         Answering, Running, MTypeOK
    <2>4. ASSUME NEW h \in Handlers, InsertOwner(h)
          PROVE  g # h /\ handler'[g] = handler[g] /\ request' = request
      <3>1. handler[h] # Idle /\ GoTo(h, "commitProject") /\ request' = request
        BY <2>4 DEF InsertOwner, At
      <3>2. QED
        BY <3>1, GoToTyping DEF CreatePCs, Answering, Running, LockingPCs
    <2>5. ASSUME NEW h \in Handlers, ReadStatus(h), g # h
          PROVE  handler'[g] = handler[g] /\ request' = request
      BY <2>5 DEF ReadStatus, GoTo, Return, MTypeOK
    <2>6. CASE UNCHANGED vars
      BY <2>6 DEF vars, Answering, Running
    <2>7. QED
      BY <1>4, <2>1, <2>2, <2>3, <2>4, <2>5, <2>6 DEF Answering, Running
  <1>5. QED
    BY <1>1, <1>2, <1>3, <1>4 DEF MNext, AnswerIsStillAllowed

(* A commit that was not overtaken follows the rule.                        *)
LEMMA RuleStep ==
  ASSUME MInv, AnswerIsStillAllowed, [MNext]_vars,
         NEW p \in Projects, NEW u \in Users
  PROVE  /\ request[p][u] = "Rejected" => request'[p][u] # "Accepted"
         /\ request[p][u] = "Accepted" => request'[p][u] = "Accepted"
  <1> USE DEF MInv
  <1>1. ASSUME NEW h \in Handlers, CommitResponse(h)
        PROVE  /\ request[p][u] = "Rejected" => request'[p][u] # "Accepted"
               /\ request[p][u] = "Accepted" => request'[p][u] = "Accepted"
    <2> DEFINE q == handler[h].project
               v == handler[h].user
               s == handler[h].status
    <2>1. Answering(h) /\ request' = [request EXCEPT ![q][v] = s]
      BY <1>1 DEF CommitResponse, At, Answering, Running, LockingPCs
    <2>2. q \in Projects /\ v \in Users /\ s \in Statuses
      BY <2>1, CallTyping DEF Answering, Running
    <2>3. MayBecome(request[q][v], s)
      BY <2>1 DEF AnswerIsStillAllowed
    <2> HIDE DEF q, v, s
    <2>4. CASE p = q /\ u = v
      <3>1. request'[p][u] = s
        BY <2>1, <2>2, <2>4 DEF MTypeOK, TypeOK
      <3>2. QED
        BY <2>2, <2>3, <2>4, <3>1 DEF MayBecome, Statuses
    <2>5. CASE p # q \/ u # v
      BY <2>1, <2>2, <2>5 DEF MTypeOK, TypeOK
    <2>6. QED
      BY <2>4, <2>5
  <1>2. ASSUME NEW h \in Handlers, NEW q \in Projects, NEW v \in Users,
               AddJoinRequest(h, q, v)
        PROVE  request[p][u] # "None" => request'[p][u] = request[p][u]
    BY <1>2 DEF AddJoinRequest, MTypeOK, TypeOK
  <1>3. ASSUME \/ \E h \in Handlers :
                    \/ \E q \in Projects, v \in Users :
                         \/ InsertProject(h, q, v)
                         \/ \E c \in Users, s \in Statuses : CheckOwner(h, q, c, v, s)
                    \/ InsertOwner(h) \/ CommitProject(h) \/ ReadStatus(h)
                    \/ UpdateStatus(h) \/ InsertMember(h) \/ NotifyOwner(h)
                    \/ NotifyRequestor(h) \/ Fail(h)
               \/ UNCHANGED vars
        PROVE  request' = request
    BY <1>3 DEF InsertProject, CheckOwner, InsertOwner, CommitProject, ReadStatus,
       UpdateStatus, InsertMember, NotifyOwner, NotifyRequestor, Fail, vars
  <1>4. QED
    BY <1>1, <1>2, <1>3 DEF MNext

(* In every behaviour in which no two answers to one request overlap, what  *)
(* a call has read of the status is true until it commits.                  *)
LEMMA AnswersWithoutOverlap ==
  MSpec /\ []OneAnswerAtATime => []AnswerIsStillAllowed
  <1>1. MInit => AnswerIsStillAllowed
    BY DEF MInit, AnswerIsStillAllowed, Answering, Running
  <1>2. MInv /\ OneAnswerAtATime /\ AnswerIsStillAllowed /\ [MNext]_vars
          => AnswerIsStillAllowed'
    BY AnswerStep
  <1>3. QED
    BY <1>1, <1>2, MembershipInvariant, PTL DEF MSpec

(* The status rule of core/requests/service.go:130-132 holds in every       *)
(* behaviour in which no two answers to one request overlap: the overlap,   *)
(* and no failure, retry or other call, is what breaks it.                  *)
THEOREM StatusRuleWithoutOverlap ==
  MSpec /\ []OneAnswerAtATime => StatusRule
  <1>1. MInv /\ AnswerIsStillAllowed /\ [MNext]_vars =>
          [\A p \in Projects, u \in Users :
             /\ request[p][u] = "Rejected" => request'[p][u] # "Accepted"
             /\ request[p][u] = "Accepted" => request'[p][u] = "Accepted"]_vars
    BY RuleStep
  <1>2. QED
    BY <1>1, AnswersWithoutOverlap, MembershipInvariant, PTL DEF MSpec, StatusRule

(* Without such an overlap the members of a project are exactly the users   *)
(* whose request is accepted; with it, a member's request may be rejected.  *)
THEOREM MembersAreTheAcceptedWithoutOverlap ==
  MSpec /\ []OneAnswerAtATime => []MembersAreTheAccepted
  <1>1. MInit => MembersAreTheAccepted
    BY DEF MInit, Init, MembersAreTheAccepted
  <1>2. MInv /\ AnswerIsStillAllowed /\ MembersAreTheAccepted /\ MInv' /\ [MNext]_vars
          => MembersAreTheAccepted'
    <2> SUFFICES ASSUME MInv, AnswerIsStillAllowed, MembersAreTheAccepted, MInv',
                        [MNext]_vars, NEW p \in Projects, NEW u \in Users,
                        role'[p][u] = "Member"
                 PROVE  request'[p][u] = "Accepted"
      BY DEF MembersAreTheAccepted, MInv, Consistent, AcceptedIsMember
    <2>1. CASE role[p][u] = "Member"
      BY <2>1, RuleStep DEF MembersAreTheAccepted
    <2>2. CASE role[p][u] # "Member"
      <3>1. TypeOK /\ [Next]_avars
        BY StepRefines DEF MInv, MTypeOK
      <3>2. QED
        BY <2>2, <3>1 DEF TypeOK, Next, avars, CreateProject, Ask, Accept, Decide
    <2>3. QED
      BY <2>1, <2>2
  <1>3. QED
    BY <1>1, <1>2, AnswersWithoutOverlap, MembershipInvariant, PTL DEF MSpec

-----------------------------------------------------------------------------
(* How a call that goes on from one statement to another gets closer to its *)
(* end.                                                                     *)
LEMMA GoToLeft ==
  ASSUME MTypeOK, NEW h \in Handlers, handler[h] # Idle,
         NEW pc \in CreatePCs \cup RespondPCs \cup NotifyPCs, GoTo(h, pc)
  PROVE  /\ \A g \in Handlers \ {h} : handler'[g] = handler[g]
         /\ Left(h)' = [insertOwner |-> 2, commitProject |-> 1, readStatus |-> 5,
                        updateStatus |-> 4, insertMember |-> 3, commitResponse |-> 2,
                        notifyOwner |-> 1, notifyRequestor |-> 1][pc]
  BY GoToTyping DEF Left

(* A call has a number of statements before it, none when it has returned.  *)
LEMMA LeftTyping ==
  ASSUME MTypeOK, NEW h \in Handlers
  PROVE  Left(h) \in 0..5 /\ (Left(h) = 0 <=> handler[h] = Idle)
  <1>1. handler[h] # Idle => handler[h].pc \in CreatePCs \cup RespondPCs \cup NotifyPCs
    BY DEF MTypeOK, Calls
  <1>2. QED
    BY <1>1 DEF Left, CreatePCs, RespondPCs, LockingPCs, NotifyPCs

(* Every call moves towards its return and never back: after at most five   *)
(* statements of its own it has returned.                                   *)
THEOREM CallsMoveOnHolds == MSpec => CallsMoveOn
  <1>1. ASSUME MInv, [MNext]_vars, NEW g \in Handlers,
               handler[g] # Idle, handler'[g] # handler[g]
        PROVE  Left(g)' < Left(g)
    <2> USE DEF MInv
    <2>1. ASSUME NEW h \in Handlers, Return(h)
          PROVE  Left(g)' < Left(g)
      <3>1. handler'[g] = Idle
        BY <1>1, <2>1, ReturnTyping
      <3>2. Left(g)' = 0
        BY <3>1 DEF Left
      <3>3. QED
        BY <1>1, <3>2, LeftTyping
    <2>2. ASSUME NEW h \in Handlers, InsertOwner(h) PROVE Left(g)' < Left(g)
      <3>1. /\ handler[h] # Idle /\ handler[h].pc = "insertOwner"
            /\ GoTo(h, "commitProject")
        BY <2>2 DEF InsertOwner, At
      <3>2. QED
        BY <1>1, <3>1, GoToLeft DEF Left, CreatePCs
    <2>3. ASSUME NEW h \in Handlers, ReadStatus(h), ~Return(h)
          PROVE  Left(g)' < Left(g)
      <3>1. handler[h] # Idle /\ handler[h].pc = "readStatus" /\ GoTo(h, "updateStatus")
        BY <2>3 DEF ReadStatus, At
      <3>2. QED
        BY <1>1, <3>1, GoToLeft DEF Left, RespondPCs
    <2>4. ASSUME NEW h \in Handlers, UpdateStatus(h) PROVE Left(g)' < Left(g)
      <3>1. PICK pc \in LockingPCs :
              handler[h] # Idle /\ handler[h].pc = "updateStatus" /\ GoTo(h, pc)
        BY <2>4 DEF UpdateStatus, At, LockingPCs
      <3>2. QED
        BY <1>1, <3>1, GoToLeft DEF Left, RespondPCs, LockingPCs
    <2>5. ASSUME NEW h \in Handlers, InsertMember(h), ~Return(h)
          PROVE  Left(g)' < Left(g)
      <3>1. /\ handler[h] # Idle /\ handler[h].pc = "insertMember"
            /\ GoTo(h, "commitResponse")
        BY <2>5 DEF InsertMember, At
      <3>2. QED
        BY <1>1, <3>1, GoToLeft DEF Left, RespondPCs, LockingPCs
    <2>6. ASSUME NEW h \in Handlers, CommitResponse(h) PROVE Left(g)' < Left(g)
      <3>1. /\ handler[h] # Idle /\ handler[h].pc = "commitResponse"
            /\ GoTo(h, "notifyRequestor")
        BY <2>6 DEF CommitResponse, At
      <3>2. QED
        BY <1>1, <3>1, GoToLeft DEF Left, NotifyPCs
    <2>7. ASSUME NEW h \in Handlers, NEW p \in Projects, NEW u \in Users,
                 \/ InsertProject(h, p, u)
                 \/ AddJoinRequest(h, p, u)
                 \/ \E c \in Users, s \in Statuses : CheckOwner(h, p, c, u, s)
          PROVE  FALSE
      BY <1>1, <2>7 DEF InsertProject, AddJoinRequest, CheckOwner, MTypeOK
    <2>8. QED
      BY <1>1, <2>1, <2>2, <2>3, <2>4, <2>5, <2>6, <2>7
         DEF MNext, vars, CommitProject, NotifyOwner, NotifyRequestor, Fail
  <1>2. MInv /\ [MNext]_vars =>
          [\A h \in Handlers :
             handler[h] # Idle /\ handler'[h] # handler[h] => Left(h)' < Left(h)]_vars
    BY <1>1
  <1>3. QED
    BY <1>2, MembershipInvariant, PTL DEF MSpec, CallsMoveOn

(* Whoever waits for a row lock waits for exactly one call, which does not  *)
(* wait itself and has fewer statements before it.                          *)
THEOREM NobodyWaitsInACircleHolds == MSpec => []NobodyWaitsInACircle
  <1>1. MInv => NobodyWaitsInACircle
    <2> SUFFICES ASSUME MInv, NEW g \in Handlers, Waiting(g)
                 PROVE  \E h \in Handlers :
                          /\ Left(h) < Left(g) /\ ~Waiting(h)
                          /\ \A k \in Handlers :
                               Holds(k, handler[g].project, handler[g].user) <=> k = h
      BY DEF NobodyWaitsInACircle
    <2>1. PICK h \in Handlers : Holds(h, handler[g].project, handler[g].user)
      BY DEF Waiting, RowLocked, Holds, Running
    <2>2. Left(h) < Left(g) /\ ~Waiting(h)
      BY <2>1 DEF Waiting, Holds, At, Running, LockingPCs, Left
    <2>3. \A k \in Handlers :
            Holds(k, handler[g].project, handler[g].user) <=> k = h
      BY <2>1 DEF MInv, NoSharedWrites, Holds
    <2>4. QED
      BY <2>2, <2>3
  <1>2. QED
    BY <1>1, MembershipInvariant, PTL

-----------------------------------------------------------------------------
(* The server.  Edits speaks of the tables through a copy of Admission.     *)
LEMMA SameAdmission == Next <=> E!Next
  BY DEF Next, E!Next, CreateProject, E!CreateProject, Ask, E!Ask, Accept, E!Accept,
     Decide, E!Decide, Statuses, E!Statuses

(* Pages and edits only read the tables.                                    *)
LEMMA PagesAndEditsRead ==
  ASSUME PageStep \/ EditStep
  PROVE  UNCHANGED vars
  <1>1. CASE PageStep
    <2>1. E!PageStep => UNCHANGED E!avars
      BY DEF E!PageStep, E!OpenProject, E!OpenRequests, E!OpenMembers, E!OpenProfile,
         E!Open, E!ReadRole, E!CountMembers, E!ReadStatus, E!ListRequests,
         E!ListMembers, E!CountProjects, E!Leave
    <2>2. QED
      BY <1>1, <2>1 DEF PageStep, vars, E!avars
  <1>2. CASE EditStep
    <2>1. ASSUME NEW h \in Editors, E!EditStep(h)
          PROVE  UNCHANGED E!pageVars
      BY <2>1 DEF E!EditStep, E!EditProfile, E!EditProject, E!MarkAsRead,
         E!StoreObject, E!Begin, E!ReadRow, E!SaveRow, E!CreateDocument, E!ReadUser,
         E!FailEdit
    <2>2. QED
      BY <1>2, <2>1 DEF EditStep, vars, E!pageVars, E!avars
  <1>3. QED
    BY <1>1, <1>2

LEMMA ServerStep ==
  ASSUME MInv, [ServerNext]_serverVars
  PROVE  [MNext]_vars /\ [E!EditsNext]_E!allVars
  <1>1. CASE MembershipStep
    <2>1. [Next]_avars
      BY <1>1, StepRefines DEF MembershipStep
    <2>2. [E!Next]_E!avars /\ UNCHANGED <<page, E!editVars>>
      BY <1>1, <2>1, SameAdmission DEF MembershipStep, rowVars, avars, E!avars, E!editVars
    <2>3. [E!EditsNext]_E!allVars
      BY <2>2 DEF E!EditsNext, E!PagesNext, E!allVars, E!pageVars
    <2>4. QED
      BY <1>1, <2>3 DEF MembershipStep
  <1>2. CASE PageStep
    BY <1>2, PagesAndEditsRead
       DEF PageStep, rowVars, E!editVars, E!EditsNext, E!PagesNext
  <1>3. CASE EditStep
    BY <1>3, PagesAndEditsRead DEF EditStep, E!EditsNext
  <1>4. CASE UNCHANGED serverVars
    BY <1>4 DEF serverVars, rowVars, vars, E!allVars, E!pageVars, E!avars, E!editVars
  <1>5. QED
    BY <1>1, <1>2, <1>3, <1>4 DEF ServerNext

(* The services, statement by statement, beside pages and edits that take   *)
(* several statements themselves: the services run as Membership says, and  *)
(* the pages and edits as Edits says.  So every theorem about MSpec and     *)
(* every theorem about EditsSpec is one about the server.                   *)
THEOREM ServerRunsMembershipAndEdits ==
  ServerSpec => MSpec /\ ImplementsEdits
  <1>1. ServerInit => MInit /\ E!EditsInit /\ MInv
    BY MInvInit DEF ServerInit
  <1>2. MInv /\ [ServerNext]_serverVars => MInv'
    BY ServerStep, MInvStep
  <1>3. MInv /\ [ServerNext]_serverVars => [MNext]_vars /\ [E!EditsNext]_E!allVars
    BY ServerStep
  <1>4. QED
    BY <1>1, <1>2, <1>3, PTL
       DEF ServerSpec, MSpec, ImplementsEdits, E!EditsSpec
=============================================================================
