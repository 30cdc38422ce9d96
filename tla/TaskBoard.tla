------------------------------- MODULE TaskBoard -------------------------------
(***************************************************************************)
(* The tasks of one project: TaskApi.Create, Update and AddComment with    *)
(* the services they call, down to the notification rows and the realtime  *)
(* events of everyone concerned.  No transaction spans two statements      *)
(* here: every statement is a step, and calls interleave between any two.  *)
(*                                                                         *)
(* Calls name a task of the project of their path; a call that is refused  *)
(* before its first write leaves no trace and is not a step.               *)
(***************************************************************************)
EXTENDS Naturals

CONSTANTS
  Users,
  Owner,     (* the owner of the project                                     *)
  Tasks,     (* task ids (uuid.NewString)                                    *)
  Values,    (* what a title, description or status can be set to            *)
  None,      (* no tasks row, no value, no copy                              *)
  Updates,   (* the sets of fields the updates of an instance name           *)
  Named,     (* the users whom calls add to a task or remove from it         *)
  Observed,  (* the notification types an instance remembers                 *)
  Handlers,  (* HTTP requests in flight at one time                          *)
  Idle,      (* a handler slot that serves no request                        *)
  MaxCalls   (* bound: calls made in an instance                             *)

Fields == {"title", "description", "status"}

ASSUME TaskAssumption ==
  /\ Owner \in Users /\ Named \subseteq Users
  /\ None \notin Values
  /\ Updates \subseteq SUBSET Fields
  /\ MaxCalls \in Nat

VARIABLES
  members,   (* project_members, the owner included                          *)
  task,      (* the tasks rows                                               *)
  assigned,  (* the assignees rows: task, user                               *)
  comments,  (* the comments rows: task, user                                *)
  inbox,     (* the notifications rows: to, type, task, by                   *)
  pushed,    (* the same, as events handed to the notifier                   *)
  handler,
  calls      (* number of calls made so far                                  *)

rowVars == <<members, task, assigned, comments>>
vars    == <<rowVars, inbox, pushed, handler, calls>>

Rows == [Fields -> Values]

NotificationTypes ==
  {"task_added", "task_updated", "assignee_added", "assignee_removed",
   "comment_added"}

Notices == [to : Users, type : NotificationTypes, task : Tasks, by : Users]

(* fields, toAdd and toRemove are what the call has still to do; copy is   *)
(* the task row it works on; left and told are the receivers of the        *)
(* notification it is writing, without and with a row.                     *)
PCs == {"readTask", "saveTask", "load", "notify", "assign", "createAssignee",
        "deleteAssignee"}
Calls ==
  [pc : PCs, caller : Users, task : Tasks,
   fields : SUBSET Fields, value : Values \cup {None}, badStatus : BOOLEAN,
   copy : Rows \cup {None},
   toAdd : SUBSET Users, toRemove : SUBSET Users, target : Users,
   type : NotificationTypes, left : SUBSET Users, told : SUBSET Users]

ASSUME ObservedAssumption == Observed \subseteq NotificationTypes

ASSUME TaskIdleAssumption == None \notin Rows /\ Idle \notin Calls

At(h, pc) == handler[h] # Idle /\ handler[h].pc = pc
Return(h) == handler' = [handler EXCEPT ![h] = Idle]

(* A call in its first state after the checks.                             *)
Begin(h, pc, u, t) ==
  [pc |-> pc, caller |-> u, task |-> t,
   fields |-> {}, value |-> None, badStatus |-> FALSE,
   copy |-> None, toAdd |-> {}, toRemove |-> {}, target |-> u,
   type |-> "task_added", left |-> {}, told |-> {}]

Start(h, call) ==
  /\ handler[h] = Idle
  /\ calls < MaxCalls
  /\ calls' = calls + 1
  /\ handler' = [handler EXCEPT ![h] = call]

(* The write that a notification tells of is done: go and fetch receivers. *)
ThenNotify(h, type) ==
  handler' = [handler EXCEPT ![h].pc = "load", ![h].type = type,
                             ![h].copy = None]

Init ==
  /\ members = {Owner}
  /\ task = [t \in Tasks |-> None]
  /\ assigned = {} /\ comments = {} /\ inbox = {} /\ pushed = {}
  /\ handler = [h \in Handlers |-> Idle]
  /\ calls = 0

(* Accepted join requests, as Membership.tla has them: members only grow.  *)
Join(u) ==
  /\ members' = members \cup {u}
  /\ UNCHANGED <<task, assigned, comments, inbox, pushed, handler, calls>>

AssigneesOf(t) == {u \in Users : <<t, u>> \in assigned}

-----------------------------------------------------------------------------
(* TaskService.Create: the owner inserts the row.                          *)
CreateTask(h, t, v, toAdd) ==
  /\ task[t] = None
  /\ task' = [task EXCEPT ![t] = [f \in Fields |-> v]]
  /\ Start(h, [Begin(h, "load", Owner, t) EXCEPT !.toAdd = toAdd])
  /\ UNCHANGED <<members, assigned, comments, inbox, pushed>>

(* TaskApi.Update with something to set: TaskService.Update asks once for  *)
(* the owner or an assignee.  badStatus: the new status is none of the     *)
(* four, which is found out only when its turn comes.                      *)
UpdateTask(h, u, t, fields, v, badStatus, toAdd, toRemove) ==
  /\ task[t] # None
  /\ fields # {} /\ (badStatus => "status" \in fields)
  /\ u = Owner \/ u \in AssigneesOf(t)
  /\ Start(h, [Begin(h, "readTask", u, t) EXCEPT
                 !.fields = fields, !.value = v, !.badStatus = badStatus,
                 !.toAdd = toAdd, !.toRemove = toRemove])
  /\ UNCHANGED <<rowVars, inbox, pushed>>

(* TaskApi.Update of the assignees alone.                                  *)
UpdateAssignees(h, t, toAdd, toRemove) ==
  /\ task[t] # None
  /\ toAdd \cup toRemove # {}
  /\ Start(h, [Begin(h, "assign", Owner, t) EXCEPT
                 !.toAdd = toAdd, !.toRemove = toRemove])
  /\ UNCHANGED <<rowVars, inbox, pushed>>

(* CommentService.Create: any member inserts a comment.                    *)
AddComment(h, u, t) ==
  /\ task[t] # None
  /\ u \in members
  /\ comments' = comments \cup {<<t, u>>}
  /\ Start(h, [Begin(h, "load", u, t) EXCEPT !.type = "comment_added"])
  /\ UNCHANGED <<members, task, assigned, inbox, pushed>>

-----------------------------------------------------------------------------
(* TaskService.Update saves field by field; TaskRepository.Update reads    *)
(* the whole row and saves the whole row.                                  *)
NextField(fields) ==
  CASE "title" \in fields       -> "title"
    [] "description" \in fields -> "description"
    [] OTHER                    -> "status"

Field(h) == NextField(handler[h].fields)

BadStatusNext(h) == Field(h) = "status" /\ handler[h].badStatus

(* Fault: a status that is none of the four is stored as it comes.         *)
ReadTask_AnyStatus(h) ==
  /\ At(h, "readTask")
  /\ handler' = [handler EXCEPT ![h].pc = "saveTask",
                                ![h].copy = task[handler[h].task],
                                ![h].value = IF BadStatusNext(h) THEN None
                                                                 ELSE @]
  /\ UNCHANGED <<rowVars, inbox, pushed, calls>>

ReadTask(h) ==
  /\ At(h, "readTask")
  /\ ~BadStatusNext(h)
  /\ handler' = [handler EXCEPT ![h].pc = "saveTask",
                                ![h].copy = task[handler[h].task]]
  /\ UNCHANGED <<rowVars, inbox, pushed, calls>>

(* The call fails with the other fields already saved, and nobody is told. *)
RefuseStatus(h) ==
  /\ At(h, "readTask")
  /\ BadStatusNext(h)
  /\ Return(h)
  /\ UNCHANGED <<rowVars, inbox, pushed, calls>>

AfterSave(h) ==
  LET rest == handler[h].fields \ {Field(h)} IN
  IF rest = {}
  THEN handler' = [handler EXCEPT ![h].pc = "load", ![h].type = "task_updated",
                                  ![h].fields = {}, ![h].copy = None]
  ELSE handler' = [handler EXCEPT ![h].pc = "readTask", ![h].fields = rest,
                                  ![h].copy = None]

(* Fault: every field gets the new value.                                  *)
SaveTask_AllFields(h) ==
  /\ At(h, "saveTask")
  /\ task' = [task EXCEPT ![handler[h].task] =
                [f \in Fields |-> handler[h].value]]
  /\ AfterSave(h)
  /\ UNCHANGED <<members, assigned, comments, inbox, pushed, calls>>

SaveTask(h) ==
  /\ At(h, "saveTask")
  /\ task' = [task EXCEPT ![handler[h].task] =
                [handler[h].copy EXCEPT ![Field(h)] = handler[h].value]]
  /\ AfterSave(h)
  /\ UNCHANGED <<members, assigned, comments, inbox, pushed, calls>>

-----------------------------------------------------------------------------
(* The notification service: who is told, one row each, and what is handed *)
(* to BatchNotify at the end.                                              *)

ReceiversOf(type, t, caller) ==
  CASE type = "task_added"    -> members \ {Owner}
    [] type = "task_updated"  -> (AssigneesOf(t) \cup {Owner}) \ {caller}
    [] type = "comment_added" -> AssigneesOf(t) \ {caller}
    [] OTHER                  -> AssigneesOf(t) \ {Owner}

LoadReceivers(h) ==
  /\ At(h, "load")
  /\ LET c == handler[h] IN
       handler' = [handler EXCEPT ![h].pc = "notify",
                     ![h].left = ReceiversOf(c.type, c.task, c.caller)]
  /\ UNCHANGED <<rowVars, inbox, pushed, calls>>

Notice(h, u) == [to |-> u, type |-> handler[h].type,
                 task |-> handler[h].task, by |-> handler[h].caller]

(* The notices of types an instance remembers.                             *)
Kept(notices) == {n \in notices : n.type \in Observed}

(* Fault: the receiver is recorded although the row was not stored.        *)
InsertNotice_Unstored(h, u) ==
  /\ At(h, "notify")
  /\ u \in handler[h].left
  /\ inbox' \in {inbox, inbox \cup Kept({Notice(h, u)})}
  /\ handler' = [handler EXCEPT ![h].left = @ \ {u}, ![h].told = @ \cup {u}]
  /\ UNCHANGED <<rowVars, pushed, calls>>

InsertNotice(h, u) ==
  /\ At(h, "notify")
  /\ u \in handler[h].left
  /\ inbox' = inbox \cup Kept({Notice(h, u)})
  /\ handler' = [handler EXCEPT ![h].left = @ \ {u}, ![h].told = @ \cup {u}]
  /\ UNCHANGED <<rowVars, pushed, calls>>

(* What follows the notification: the next assignee, or the response.      *)
ThenAssign(h) ==
  handler' = [handler EXCEPT ![h].pc = "assign",
                             ![h].left = {}, ![h].told = {},
                             ![h].target = handler[h].caller]

Push(h) ==
  /\ At(h, "notify")
  /\ handler[h].left = {}
  /\ pushed' = pushed \cup Kept({Notice(h, u) : u \in handler[h].told})
  /\ ThenAssign(h)
  /\ UNCHANGED <<rowVars, inbox, calls>>

(* A query or an insert fails: the service returns no receivers, so those  *)
(* who have their row already get no event; the call goes on.              *)
NotifyFails(h) ==
  /\ At(h, "load") \/ (At(h, "notify") /\ handler[h].left # {})
  /\ ThenAssign(h)
  /\ UNCHANGED <<rowVars, inbox, pushed, calls>>

-----------------------------------------------------------------------------
(* The assignee loops: all additions, then all removals.  Only the owner's *)
(* have an effect; what is refused becomes a warning of the response.      *)
AssignDone(h) ==
  /\ At(h, "assign")
  /\ \/ handler[h].caller # Owner
     \/ handler[h].toAdd \cup handler[h].toRemove = {}
  /\ Return(h)
  /\ UNCHANGED <<rowVars, inbox, pushed, calls>>

(* AddAssignee looks the row up first.                                     *)
CheckAddition(h, u) ==
  /\ At(h, "assign") /\ handler[h].caller = Owner
  /\ u \in handler[h].toAdd
  /\ handler' = [handler EXCEPT ![h].toAdd = @ \ {u},
       ![h].pc = IF u \in AssigneesOf(handler[h].task) THEN "assign"
                                                       ELSE "createAssignee",
       ![h].target = u]
  /\ UNCHANGED <<rowVars, inbox, pushed, calls>>

(* The insert fails on the key when another call was faster.               *)
CreateAssignee(h) ==
  /\ At(h, "createAssignee")
  /\ LET c == handler[h] IN
       IF c.target \in AssigneesOf(c.task)
       THEN ThenAssign(h) /\ UNCHANGED assigned
       ELSE /\ assigned' = assigned \cup {<<c.task, c.target>>}
            /\ ThenNotify(h, "assignee_added")
  /\ UNCHANGED <<members, task, comments, inbox, pushed, calls>>

CheckRemoval(h, u) ==
  /\ At(h, "assign") /\ handler[h].caller = Owner
  /\ handler[h].toAdd = {}
  /\ u \in handler[h].toRemove
  /\ handler' = [handler EXCEPT ![h].toRemove = @ \ {u},
       ![h].pc = IF u \in AssigneesOf(handler[h].task) THEN "deleteAssignee"
                                                       ELSE "assign",
       ![h].target = u]
  /\ UNCHANGED <<rowVars, inbox, pushed, calls>>

(* A DELETE of a row that is gone is no error: both calls tell of it.      *)
DeleteAssignee(h) ==
  /\ At(h, "deleteAssignee")
  /\ assigned' = assigned \ {<<handler[h].task, handler[h].target>>}
  /\ ThenNotify(h, "assignee_removed")
  /\ UNCHANGED <<members, task, comments, inbox, pushed, calls>>

(* A statement of an assignee step fails: a warning.                       *)
AssigneeFails(h) ==
  /\ At(h, "createAssignee") \/ At(h, "deleteAssignee")
  /\ ThenAssign(h)
  /\ UNCHANGED <<rowVars, inbox, pushed, calls>>

(* A statement of the update fails, or the server goes down.               *)
Fail(h) ==
  /\ handler[h] # Idle
  /\ Return(h)
  /\ UNCHANGED <<rowVars, inbox, pushed, calls>>

-----------------------------------------------------------------------------
Next ==
  \/ \E u \in Users : Join(u)
  \/ \E h \in Handlers :
       \/ \E t \in Tasks, v \in Values, toAdd \in SUBSET Named :
            CreateTask(h, t, v, toAdd)
       \/ \E t \in Tasks, toAdd, toRemove \in SUBSET Named :
            \/ UpdateAssignees(h, t, toAdd, toRemove)
            \/ \E u \in Users, fields \in Updates, v \in Values :
                 \E bad \in BOOLEAN :
                   UpdateTask(h, u, t, fields, v, bad, toAdd, toRemove)
       \/ \E u \in Users, t \in Tasks : AddComment(h, u, t)
       \/ ReadTask(h) \/ RefuseStatus(h) \/ SaveTask(h)
       \/ LoadReceivers(h) \/ Push(h) \/ NotifyFails(h)
       \/ CreateAssignee(h) \/ DeleteAssignee(h) \/ AssigneeFails(h)
       \/ \E u \in Users :
            InsertNotice(h, u) \/ CheckAddition(h, u) \/ CheckRemoval(h, u)
       \/ AssignDone(h) \/ Fail(h)

Spec == Init /\ [][Next]_vars

-----------------------------------------------------------------------------
TypeOK ==
  /\ members \subseteq Users
  /\ task \in [Tasks -> Rows \cup {None}]
  /\ assigned \subseteq Tasks \X Users /\ comments \subseteq Tasks \X Users
  /\ inbox \subseteq Notices /\ pushed \subseteq Notices
  /\ handler \in [Handlers -> Calls \cup {Idle}]
  /\ calls \in 0..MaxCalls

(* Whatever insert of a fan-out fails, a realtime event is handed to the   *)
(* notifier only for a user whose notification row is stored, so nobody    *)
(* sees an event that is missing from the list of messages.                *)
EventHasRow == pushed \subseteq inbox

(* Where a call stands in its notification: those it counts as told have   *)
(* their row, and it starts with nobody.                                   *)
Told ==
  \A h \in Handlers :
    /\ At(h, "notify") => Kept({Notice(h, u) : u \in handler[h].told}) \subseteq inbox
    /\ handler[h] # Idle /\ handler[h].pc # "notify" => handler[h].told = {}

(* An update works on a task that exists, with a value to set: rows are    *)
(* never removed and TaskService.Update has looked.                        *)
Working ==
  \A h \in Handlers :
    /\ At(h, "readTask") \/ At(h, "saveTask") => handler[h].value # None
    /\ At(h, "readTask") => task[handler[h].task] # None
    /\ At(h, "saveTask") => handler[h].copy # None

TInv == TypeOK /\ Working /\ Told /\ EventHasRow

(* A call saves task t in this step, and sets field f or leaves it as it   *)
(* has read it.                                                            *)
Saves(h, t, f) ==
  /\ At(h, "saveTask") /\ handler[h].task = t /\ handler'[h] # handler[h]
  /\ \/ Field(h) = f /\ task'[t][f] = handler[h].value
     \/ task'[t][f] = handler[h].copy[f]

(* A field changes only by a save of a call that sets it, to what the call *)
(* says, or back to what the field was when the call that saves read the   *)
(* row.                                                                    *)
FieldsAreKept ==
  [][\A t \in Tasks, f \in Fields :
       task[t] # None /\ task'[t][f] # task[t][f]
         => \E h \in Handlers : Saves(h, t, f)]_vars

-----------------------------------------------------------------------------
(* No two calls have both read a task row and not yet saved it.            *)
OneSavePerTask ==
  \A g, h \in Handlers :
    At(g, "saveTask") /\ At(h, "saveTask") /\ handler[g].task = handler[h].task
      => g = h

(* A call holds a copy of a task row that has changed since.               *)
Stale ==
  \E h \in Handlers :
    At(h, "saveTask") /\ handler[h].copy # task[handler[h].task]

(* A call is setting this field.                                           *)
SetBy(t, f) ==
  \E h \in Handlers :
    At(h, "saveTask") /\ handler[h].task = t /\ Field(h) = f

(* A field of a task changes only by a call that sets this field.          *)
NoFieldIsLost ==
  [][\A t \in Tasks, f \in Fields :
       task[t] # None /\ task'[t][f] # task[t][f] => SetBy(t, f)]_vars

-----------------------------------------------------------------------------
(* What only the owner can do, so that only the owner can be told of.      *)
OwnersTypes == {"task_added", "assignee_added", "assignee_removed"}

(* A notification tells of something that happened to a task that exists:  *)
(* nobody is told of what they did themselves, whoever is named as the     *)
(* commenter has commented, and what only the owner may do is told as the  *)
(* owner's doing - however late the row is written.                        *)
NoticesAreTrue ==
  \A n \in inbox :
    /\ task[n.task] # None
    /\ n.to # n.by
    /\ n.type = "comment_added" => <<n.task, n.by>> \in comments
    /\ n.type \in OwnersTypes => n.by = Owner

(* What a call must carry from its write to the rows that tell of it.      *)
CarriesTruth(c) ==
  c # Idle =>
    /\ task[c.task] # None
    /\ c.pc \in {"createAssignee", "deleteAssignee"} => c.caller = Owner
    /\ c.pc \in {"load", "notify"} =>
         /\ c.type = "comment_added" => <<c.task, c.caller>> \in comments
         /\ c.type \in OwnersTypes => c.caller = Owner
    /\ c.pc = "notify" => c.caller \notin c.left

NInv == NoticesAreTrue /\ \A h \in Handlers : CarriesTruth(handler[h])
=============================================================================
