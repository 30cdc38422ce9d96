---------------------------- MODULE TaskBoardProofs ----------------------------
(***************************************************************************)
(* Proofs about TaskBoard, for any number of users, tasks and overlapping  *)
(* calls: types, and that nobody is handed an event without its row.       *)
(***************************************************************************)
EXTENDS TaskBoard, TLAPS

LEMMA TaskTypeInit == Init => TypeOK
  BY TaskAssumption DEF Init, TypeOK

(* A slot is taken, left or given another state of a call.                 *)
LEMMA SlotType ==
  ASSUME handler \in [Handlers -> Calls \cup {Idle}], NEW h \in Handlers,
         NEW c \in Calls \cup {Idle}, handler' = [handler EXCEPT ![h] = c]
  PROVE  handler' \in [Handlers -> Calls \cup {Idle}]
  OBVIOUS


-----------------------------------------------------------------------------
LEMMA TaskTypeStep == TypeOK /\ Working /\ [Next]_vars => TypeOK'
<1> SUFFICES ASSUME TypeOK, Working, [Next]_vars PROVE TypeOK'
  OBVIOUS
<1> USE DEF TypeOK, rowVars
<1>s. ASSUME NEW h \in Handlers, NEW c \in Calls, Start(h, c)
      PROVE  /\ handler' \in [Handlers -> Calls \cup {Idle}]
             /\ calls' \in 0..MaxCalls
  BY <1>s, TaskAssumption DEF Start
<1>0. ASSUME NEW u \in Users, Join(u) PROVE TypeOK'
  BY <1>0 DEF Join
<1>1. ASSUME NEW h \in Handlers, NEW t \in Tasks, NEW v \in Values,
             NEW toAdd \in SUBSET Named, CreateTask(h, t, v, toAdd)
      PROVE  TypeOK'
  <2>1. [Begin(h, "load", Owner, t) EXCEPT !.toAdd = toAdd] \in Calls
    BY TaskAssumption DEF Begin, Calls, PCs, NotificationTypes
  <2>2. task' \in [Tasks -> Rows \cup {None}]
    BY <1>1 DEF CreateTask, Rows
  <2> QED
    BY <1>1, <1>s, <2>1, <2>2 DEF CreateTask
<1>2. ASSUME NEW h \in Handlers, NEW u \in Users, NEW t \in Tasks,
             NEW fields \in Updates, NEW v \in Values, NEW bad \in BOOLEAN,
             NEW toAdd \in SUBSET Named, NEW toRemove \in SUBSET Named,
             UpdateTask(h, u, t, fields, v, bad, toAdd, toRemove)
      PROVE  TypeOK'
  <2>1. [Begin(h, "readTask", u, t) EXCEPT
           !.fields = fields, !.value = v, !.badStatus = bad,
           !.toAdd = toAdd, !.toRemove = toRemove] \in Calls
    BY TaskAssumption DEF Begin, Calls, PCs, NotificationTypes
  <2> QED
    BY <1>2, <1>s, <2>1 DEF UpdateTask
<1>3. ASSUME NEW h \in Handlers, NEW t \in Tasks,
             NEW toAdd \in SUBSET Named, NEW toRemove \in SUBSET Named,
             UpdateAssignees(h, t, toAdd, toRemove)
      PROVE  TypeOK'
  <2>1. [Begin(h, "assign", Owner, t) EXCEPT
           !.toAdd = toAdd, !.toRemove = toRemove] \in Calls
    BY TaskAssumption DEF Begin, Calls, PCs, NotificationTypes
  <2> QED
    BY <1>3, <1>s, <2>1 DEF UpdateAssignees
<1>4. ASSUME NEW h \in Handlers, NEW u \in Users, NEW t \in Tasks,
             AddComment(h, u, t)
      PROVE  TypeOK'
  <2>1. [Begin(h, "load", u, t) EXCEPT !.type = "comment_added"] \in Calls
    BY DEF Begin, Calls, PCs, NotificationTypes
  <2> QED
    BY <1>4, <1>s, <2>1 DEF AddComment
<1>5. ASSUME NEW h \in Handlers, ReadTask(h) PROVE TypeOK'
  <2>1. [handler[h] EXCEPT !.pc = "saveTask", !.copy = task[handler[h].task]]
          \in Calls
    BY <1>5 DEF ReadTask, At, Calls, PCs
  <2> QED
    BY <1>5, <2>1, SlotType DEF ReadTask
<1>6. ASSUME NEW h \in Handlers, RefuseStatus(h) \/ AssignDone(h) \/ Fail(h)
      PROVE  TypeOK'
  BY <1>6 DEF RefuseStatus, AssignDone, Fail, Return
<1>7. ASSUME NEW h \in Handlers, LoadReceivers(h) PROVE TypeOK'
  <2>1. ReceiversOf(handler[h].type, handler[h].task, handler[h].caller)
          \subseteq Users
    BY <1>7, TaskAssumption
    DEF LoadReceivers, At, Calls, ReceiversOf, AssigneesOf
  <2>2. [handler[h] EXCEPT !.pc = "notify", !.left =
           ReceiversOf(handler[h].type, handler[h].task, handler[h].caller)]
          \in Calls
    BY <1>7, <2>1 DEF LoadReceivers, At, Calls, PCs
  <2> QED
    BY <1>7, <2>2 DEF LoadReceivers
<1>8. ASSUME NEW h \in Handlers, handler[h] # Idle, ThenAssign(h)
      PROVE  handler' \in [Handlers -> Calls \cup {Idle}]
  <2>1. [handler[h] EXCEPT !.pc = "assign", !.left = {}, !.told = {},
                           !.target = handler[h].caller] \in Calls
    BY <1>8 DEF Calls, PCs
  <2> QED
    BY <1>8, <2>1 DEF ThenAssign
<1>9. ASSUME NEW h \in Handlers, NEW u \in handler[h].told, At(h, "notify")
      PROVE  Notice(h, u) \in Notices
  BY <1>9 DEF At, Notice, Notices, Calls
<1>10. ASSUME NEW h \in Handlers, NEW u \in Users, InsertNotice(h, u)
       PROVE  TypeOK'
  <2>1. handler[h] \in Calls /\ u \in handler[h].left
    BY <1>10 DEF InsertNotice, At
  <2>2. Notice(h, u) \in Notices
    BY <2>1 DEF Notice, Notices, Calls
  <2>3. [handler[h] EXCEPT !.left = @ \ {u}, !.told = @ \cup {u}] \in Calls
    BY <2>1 DEF Calls
  <2>4. handler' \in [Handlers -> Calls \cup {Idle}]
    BY <1>10, <2>3 DEF InsertNotice
  <2> QED
    BY <1>10, <2>2, <2>4 DEF InsertNotice, Kept
<1>11. ASSUME NEW h \in Handlers, Push(h) PROVE TypeOK'
  <2>1. {Notice(h, u) : u \in handler[h].told} \subseteq Notices
    BY <1>11, <1>9 DEF Push
  <2> QED
    BY <1>8, <1>11, <2>1 DEF Push, At, Kept
<1>12. ASSUME NEW h \in Handlers, NotifyFails(h) \/ AssigneeFails(h)
       PROVE  TypeOK'
  BY <1>8, <1>12 DEF NotifyFails, AssigneeFails, At
<1>13. ASSUME NEW h \in Handlers, NEW type \in NotificationTypes,
              handler[h] # Idle, ThenNotify(h, type)
       PROVE  handler' \in [Handlers -> Calls \cup {Idle}]
  <2>1. [handler[h] EXCEPT !.pc = "load", !.type = type, !.copy = None] \in Calls
    BY <1>13 DEF Calls, PCs
  <2> QED
    BY <1>13, <2>1 DEF ThenNotify
<1>14. ASSUME NEW h \in Handlers, CreateAssignee(h) PROVE TypeOK'
  <2>1. handler[h] \in Calls /\ handler[h] # Idle
    BY <1>14, TaskIdleAssumption DEF CreateAssignee, At
  <2>2. <<handler[h].task, handler[h].target>> \in Tasks \X Users
    BY <2>1 DEF Calls
  <2>3. CASE handler[h].target \in AssigneesOf(handler[h].task)
    BY <1>8, <1>14, <2>1, <2>3 DEF CreateAssignee
  <2>4. CASE handler[h].target \notin AssigneesOf(handler[h].task)
    BY <1>13, <1>14, <2>1, <2>2, <2>4 DEF CreateAssignee, NotificationTypes
  <2> QED
    BY <2>3, <2>4
<1>15. ASSUME NEW h \in Handlers, DeleteAssignee(h) PROVE TypeOK'
  BY <1>13, <1>15 DEF DeleteAssignee, At, NotificationTypes
<1>16. ASSUME NEW h \in Handlers, NEW u \in Users,
              CheckAddition(h, u) \/ CheckRemoval(h, u)
       PROVE  TypeOK'
  <2>1. handler[h] \in Calls
    BY <1>16 DEF CheckAddition, CheckRemoval, At
  <2>2. \A pc \in PCs :
          /\ [handler[h] EXCEPT !.toAdd = @ \ {u}, !.pc = pc, !.target = u]
               \in Calls
          /\ [handler[h] EXCEPT !.toRemove = @ \ {u}, !.pc = pc, !.target = u]
               \in Calls
    BY <2>1 DEF Calls
  <2>3. handler' \in [Handlers -> Calls \cup {Idle}]
    BY <1>16, <2>2 DEF CheckAddition, CheckRemoval, PCs
  <2> QED
    BY <1>16, <2>3 DEF CheckAddition, CheckRemoval
<1>17. ASSUME NEW h \in Handlers, SaveTask(h) PROVE TypeOK'
  <2>1. handler[h] \in Calls
    BY <1>17 DEF SaveTask, At
  <2>2. [handler[h].copy EXCEPT ![Field(h)] = handler[h].value] \in Rows
    BY <1>17, <2>1 DEF SaveTask, At, Working, Calls, Rows
  <2>3. task' \in [Tasks -> Rows \cup {None}]
    BY <1>17, <2>1, <2>2 DEF SaveTask, Calls
  <2>4. /\ [handler[h] EXCEPT !.pc = "load", !.type = "task_updated",
                               !.fields = {}, !.copy = None] \in Calls
        /\ [handler[h] EXCEPT !.pc = "readTask",
               !.fields = handler[h].fields \ {Field(h)}, !.copy = None]
             \in Calls
    BY <2>1 DEF Calls, PCs, NotificationTypes
  <2>5. handler' \in [Handlers -> Calls \cup {Idle}]
    BY <1>17, <2>4 DEF SaveTask, AfterSave
  <2> QED
    BY <1>17, <2>3, <2>5 DEF SaveTask
<1>18. CASE UNCHANGED vars
  BY <1>18 DEF vars
<1> HIDE DEF TypeOK
<1> QED
  BY <1>0, <1>1, <1>2, <1>3, <1>4, <1>5, <1>6, <1>7, <1>10, <1>11, <1>12, <1>14,
     <1>15, <1>16, <1>17, <1>18
  DEF Next

-----------------------------------------------------------------------------
(* Rows stay: the only write to an existing row saves a row.               *)
LEMMA RowsStay ==
  ASSUME TypeOK, Working, [Next]_vars, NEW t \in Tasks, task[t] # None
  PROVE  task'[t] # None
<1>1. ASSUME NEW h \in Handlers, SaveTask(h) PROVE task'[t] # None
  <2>1. [handler[h].copy EXCEPT ![Field(h)] = handler[h].value] \in Rows
    BY <1>1 DEF SaveTask, At, Working, TypeOK, Calls, Rows
  <2> QED
    BY <1>1, <2>1, TaskIdleAssumption DEF SaveTask, TypeOK
<1>2. ASSUME NEW h \in Handlers, NEW k \in Tasks, NEW v \in Values,
             NEW toAdd \in SUBSET Named, CreateTask(h, k, v, toAdd)
      PROVE  task'[t] # None
  BY <1>2 DEF CreateTask, TypeOK
<1>3. ASSUME NEW h \in Handlers,
             \/ ReadTask(h) \/ RefuseStatus(h) \/ LoadReceivers(h) \/ Push(h)
             \/ NotifyFails(h) \/ CreateAssignee(h) \/ DeleteAssignee(h)
             \/ AssigneeFails(h) \/ AssignDone(h) \/ Fail(h)
      PROVE  task' = task
  BY <1>3
  DEF rowVars, ReadTask, RefuseStatus, LoadReceivers, Push, NotifyFails,
      CreateAssignee, DeleteAssignee, AssigneeFails, AssignDone, Fail
<1>4. ASSUME NEW h \in Handlers, NEW u \in Users,
             InsertNotice(h, u) \/ CheckAddition(h, u) \/ CheckRemoval(h, u)
      PROVE  task' = task
  BY <1>4 DEF rowVars, InsertNotice, CheckAddition, CheckRemoval
<1>5. ASSUME NEW u \in Users, Join(u) PROVE task' = task
  BY <1>5 DEF Join
<1>6. ASSUME NEW h, NEW u, NEW k, NEW fields, NEW v, NEW bad, NEW toAdd,
             NEW toRemove,
             \/ UpdateAssignees(h, k, toAdd, toRemove)
             \/ UpdateTask(h, u, k, fields, v, bad, toAdd, toRemove)
             \/ AddComment(h, u, k)
      PROVE  task' = task
  BY <1>6 DEF rowVars, UpdateAssignees, UpdateTask, AddComment
<1>7. CASE UNCHANGED vars
  BY <1>7 DEF vars, rowVars
<1> QED
  BY <1>1, <1>2, <1>3, <1>4, <1>5, <1>6, <1>7 DEF Next

(* What Working and Told ask of the state of one call.                     *)
WorkingCall(c) ==
  c # Idle =>
    /\ c.pc \in {"readTask", "saveTask"} => c.value # None
    /\ c.pc = "readTask" => task[c.task] # None
    /\ c.pc = "saveTask" => c.copy # None

ToldCall(c) ==
  c # Idle =>
    /\ c.pc = "notify" =>
         \A u \in c.told :
           c.type \in Observed =>
             [to |-> u, type |-> c.type, task |-> c.task, by |-> c.caller] \in inbox
    /\ c.pc # "notify" => c.told = {}

LEMMA PerCall ==
  /\ Working <=> \A h \in Handlers : WorkingCall(handler[h])
  /\ Told <=> \A h \in Handlers : ToldCall(handler[h])
<1>1. Working <=> \A h \in Handlers : WorkingCall(handler[h])
  BY DEF Working, WorkingCall, At
<1>2. ASSUME NEW h \in Handlers
      PROVE  Kept({Notice(h, u) : u \in handler[h].told}) \subseteq inbox
               <=> \A u \in handler[h].told :
                     handler[h].type \in Observed => Notice(h, u) \in inbox
  BY DEF Kept, Notice
<1>3. Told <=> \A h \in Handlers : ToldCall(handler[h])
  BY <1>2 DEF Told, ToldCall, At, Notice
<1> QED
  BY <1>1, <1>3

(* One call moves; what the others rely on is still there.                 *)
LEMMA OneCallMoves ==
  ASSUME Working, Told, NEW h \in Handlers,
         \A g \in Handlers \ {h} : handler'[g] = handler[g],
         WorkingCall(handler[h])', ToldCall(handler[h])',
         \A t \in Tasks : task[t] # None => task'[t] # None,
         \A g \in Handlers : handler[g] # Idle => handler[g].task \in Tasks,
         inbox \subseteq inbox'
  PROVE  Working' /\ Told'
<1>1. \A g \in Handlers : WorkingCall(handler[g])' /\ ToldCall(handler[g])'
  <2>1. ASSUME NEW g \in Handlers, g # h
        PROVE  WorkingCall(handler[g])' /\ ToldCall(handler[g])'
    <3>1. WorkingCall(handler[g]) /\ ToldCall(handler[g])
      BY PerCall
    <3>2. handler'[g] = handler[g]
      BY <2>1
    <3> QED
      BY <3>1, <3>2 DEF WorkingCall, ToldCall
  <2> QED
    BY <2>1
<1>2. Working' <=> \A g \in Handlers : WorkingCall(handler[g])'
  BY DEF Working, WorkingCall, At
<1>3. ASSUME NEW g \in Handlers
      PROVE  Kept({Notice(g, u) : u \in handler[g].told})' \subseteq inbox'
               <=> \A u \in handler'[g].told :
                     handler'[g].type \in Observed => Notice(g, u)' \in inbox'
  BY DEF Kept, Notice
<1>4. Told' <=> \A g \in Handlers : ToldCall(handler[g])'
  BY <1>3 DEF Told, ToldCall, At, Notice
<1> QED
  BY <1>1, <1>2, <1>4

-----------------------------------------------------------------------------
LEMMA ToldStep == TInv /\ [Next]_vars => Working' /\ Told'
<1> SUFFICES ASSUME TInv, [Next]_vars PROVE Working' /\ Told'
  OBVIOUS
<1>a. \A t \in Tasks : task[t] # None => task'[t] # None
  BY RowsStay DEF TInv
<1>b. \A g \in Handlers : handler[g] # Idle => /\ handler[g].task \in Tasks
                                              /\ handler[g] \in Calls
  BY DEF TInv, TypeOK, Calls
<1>c. \A g \in Handlers : WorkingCall(handler[g]) /\ ToldCall(handler[g])
  BY PerCall DEF TInv
<1>d. Working /\ Told /\ handler \in [Handlers -> Calls \cup {Idle}]
  BY DEF TInv, TypeOK
<1>1. ASSUME NEW h \in Handlers, inbox' = inbox,
             \A g \in Handlers \ {h} : handler'[g] = handler[g],
             WorkingCall(handler[h])', ToldCall(handler[h])'
      PROVE  Working' /\ Told'
  BY <1>1, <1>a, <1>b, <1>d, OneCallMoves
<1>2. ASSUME NEW h \in Handlers, NEW u \in Users, InsertNotice(h, u)
      PROVE  Working' /\ Told'
  <2>1. handler[h] \in Calls /\ handler[h].pc = "notify"
    BY <1>2, <1>b DEF InsertNotice, At
  <2>2. /\ \A g \in Handlers \ {h} : handler'[g] = handler[g]
        /\ handler'[h] = [handler[h] EXCEPT !.left = @ \ {u},
                                            !.told = @ \cup {u}]
    BY <1>2, <1>d DEF InsertNotice
  <2>3. /\ handler'[h].told = handler[h].told \cup {u}
        /\ handler'[h].type = handler[h].type
        /\ handler'[h].task = handler[h].task
        /\ handler'[h].caller = handler[h].caller
        /\ handler'[h].pc = "notify"
    BY <2>1, <2>2 DEF Calls
  <2>4. inbox' = inbox \cup Kept({Notice(h, u)})
    BY <1>2 DEF InsertNotice
  <2>5. handler[h].type \in Observed => Notice(h, u) \in inbox'
    BY <2>4 DEF Kept, Notice
  <2>6. ToldCall(handler[h])'
    BY <1>c, <2>1, <2>3, <2>4, <2>5, TaskIdleAssumption DEF ToldCall, Notice
  <2>7. WorkingCall(handler[h])'
    BY <2>3 DEF WorkingCall
  <2> QED
    BY <1>a, <1>b, <1>d, <2>2, <2>4, <2>6, <2>7, OneCallMoves
<1>3. ASSUME NEW h \in Handlers, LoadReceivers(h) PROVE Working' /\ Told'
  <2>1. handler[h] \in Calls /\ handler[h].told = {}
    BY <1>3, <1>b, <1>c DEF LoadReceivers, At, ToldCall
  <2>2. handler'[h].told = {} /\ handler'[h].pc = "notify"
    BY <1>3, <1>d, <2>1 DEF LoadReceivers, Calls
  <2> QED
    BY <1>1, <1>3, <2>2, <1>d DEF LoadReceivers, WorkingCall, ToldCall
<1>4. ASSUME NEW h \in Handlers, ThenAssign(h), handler[h] # Idle, inbox' = inbox
      PROVE  Working' /\ Told'
  <2>1. handler'[h].told = {} /\ handler'[h].pc = "assign"
    BY <1>4, <1>b, <1>d DEF ThenAssign, Calls
  <2> QED
    BY <1>1, <1>4, <1>d, <2>1 DEF ThenAssign, WorkingCall, ToldCall
<1>5. ASSUME NEW h \in Handlers, Return(h), inbox' = inbox
      PROVE  Working' /\ Told'
  BY <1>1, <1>5, <1>d DEF Return, WorkingCall, ToldCall
<1>6. ASSUME NEW h \in Handlers, NEW type, ThenNotify(h, type), inbox' = inbox,
             handler[h] # Idle, handler[h].pc # "notify"
      PROVE  Working' /\ Told'
  <2>1. handler'[h].told = {} /\ handler'[h].pc = "load"
    BY <1>6, <1>b, <1>c, <1>d DEF ThenNotify, Calls, ToldCall
  <2> QED
    BY <1>1, <1>6, <1>d, <2>1 DEF ThenNotify, WorkingCall, ToldCall
<1>7. ASSUME NEW h \in Handlers, NEW c, Start(h, c), c.told = {}, c.pc # "notify",
             WorkingCall(c)', inbox' = inbox
      PROVE  Working' /\ Told'
  <2>1. handler'[h] = c /\ \A g \in Handlers \ {h} : handler'[g] = handler[g]
    BY <1>7, <1>d DEF Start
  <2> QED
    BY <1>1, <1>7, <2>1 DEF WorkingCall, ToldCall
<1>8. ASSUME NEW h \in Handlers, NEW k \in Tasks, NEW v \in Values,
             NEW toAdd \in SUBSET Named, CreateTask(h, k, v, toAdd)
      PROVE  Working' /\ Told'
  BY <1>7, <1>8 DEF CreateTask, Begin, WorkingCall
<1>9. ASSUME NEW h \in Handlers, NEW u \in Users, NEW t \in Tasks,
             NEW fields \in Updates, NEW v \in Values, NEW bad \in BOOLEAN,
             NEW toAdd \in SUBSET Named, NEW toRemove \in SUBSET Named,
             UpdateTask(h, u, t, fields, v, bad, toAdd, toRemove)
      PROVE  Working' /\ Told'
  <2>1. task'[t] # None /\ v # None
    BY <1>9, <1>a, TaskAssumption DEF UpdateTask
  <2>2. WorkingCall([Begin(h, "readTask", u, t) EXCEPT
                       !.fields = fields, !.value = v, !.badStatus = bad,
                       !.toAdd = toAdd, !.toRemove = toRemove])'
    BY <2>1 DEF WorkingCall, Begin
  <2> QED
    BY <1>7, <1>9, <2>2 DEF UpdateTask, Begin
<1>10. ASSUME NEW h \in Handlers, NEW t \in Tasks, NEW toAdd \in SUBSET Named,
              NEW toRemove \in SUBSET Named, UpdateAssignees(h, t, toAdd, toRemove)
       PROVE  Working' /\ Told'
  BY <1>7, <1>10 DEF UpdateAssignees, Begin, WorkingCall
<1>11. ASSUME NEW h \in Handlers, NEW u \in Users, NEW t \in Tasks,
              AddComment(h, u, t)
       PROVE  Working' /\ Told'
  BY <1>7, <1>11 DEF AddComment, Begin, WorkingCall
<1>12. ASSUME NEW h \in Handlers, ReadTask(h) PROVE Working' /\ Told'
  <2>1. /\ handler[h] \in Calls /\ handler[h].told = {}
        /\ handler[h].value # None /\ task[handler[h].task] # None
    BY <1>12, <1>b, <1>c DEF ReadTask, At, ToldCall, WorkingCall
  <2>2. /\ handler'[h].pc = "saveTask" /\ handler'[h].told = {}
        /\ handler'[h].value # None /\ handler'[h].copy # None
    BY <1>12, <1>d, <2>1 DEF ReadTask, Calls
  <2> QED
    BY <1>1, <1>12, <1>d, <2>2 DEF ReadTask, WorkingCall, ToldCall
<1>13. ASSUME NEW h \in Handlers, RefuseStatus(h) \/ AssignDone(h) \/ Fail(h)
       PROVE  Working' /\ Told'
  BY <1>5, <1>13 DEF RefuseStatus, AssignDone, Fail
<1>14. ASSUME NEW h \in Handlers, SaveTask(h) PROVE Working' /\ Told'
  <2>1. /\ handler[h] \in Calls /\ handler[h].told = {}
        /\ handler[h].value # None
        /\ handler[h].task \in Tasks
    BY <1>14, <1>b, <1>c DEF SaveTask, At, ToldCall, WorkingCall
  <2>2. task'[handler[h].task] # None
    <3>1. [handler[h].copy EXCEPT ![Field(h)] = handler[h].value] \in Rows
      BY <1>14, <2>1, <1>c DEF SaveTask, At, WorkingCall, Calls, Rows
    <3> QED
      BY <1>14, <2>1, <3>1, TaskIdleAssumption DEF SaveTask, TInv, TypeOK
  <2>3. /\ handler'[h].pc \in {"load", "readTask"} /\ handler'[h].told = {}
        /\ handler'[h].value = handler[h].value
        /\ handler'[h].task = handler[h].task
    BY <1>14, <1>d, <2>1 DEF SaveTask, AfterSave, Calls
  <2> QED
    BY <1>1, <1>14, <1>d, <2>1, <2>2, <2>3
    DEF SaveTask, AfterSave, WorkingCall, ToldCall
<1>15. ASSUME NEW h \in Handlers, Push(h) \/ NotifyFails(h) \/ AssigneeFails(h)
       PROVE  Working' /\ Told'
  BY <1>4, <1>15 DEF Push, NotifyFails, AssigneeFails, At
<1>16. ASSUME NEW h \in Handlers, CreateAssignee(h) \/ DeleteAssignee(h)
       PROVE  Working' /\ Told'
  BY <1>4, <1>6, <1>16 DEF CreateAssignee, DeleteAssignee, At
<1>17. ASSUME NEW h \in Handlers, NEW u \in Users,
              CheckAddition(h, u) \/ CheckRemoval(h, u)
       PROVE  Working' /\ Told'
  <2>1. handler[h] \in Calls /\ handler[h].told = {}
    BY <1>17, <1>b, <1>c DEF CheckAddition, CheckRemoval, At, ToldCall
  <2>2. /\ handler'[h].pc \in {"assign", "createAssignee", "deleteAssignee"}
        /\ handler'[h].told = {}
    BY <1>17, <1>d, <2>1 DEF CheckAddition, CheckRemoval, Calls
  <2> QED
    BY <1>1, <1>17, <1>d, <2>2
    DEF CheckAddition, CheckRemoval, WorkingCall, ToldCall
<1>18. ASSUME NEW u \in Users, Join(u) PROVE Working' /\ Told'
  BY <1>18, <1>d DEF Join, Working, Told, At, Notice, Kept
<1>19. CASE UNCHANGED vars
  BY <1>19, <1>d DEF vars, rowVars, Working, Told, At, Notice, Kept
<1> QED
  BY <1>2, <1>3, <1>8, <1>9, <1>10, <1>11, <1>12, <1>13, <1>14, <1>15, <1>16,
     <1>17, <1>18, <1>19
  DEF Next

(* Rows of notifications stay, and Push hands on what the call has stored. *)
LEMMA EventHasRowStep == TInv /\ [Next]_vars => EventHasRow'
<1> SUFFICES ASSUME TInv, [Next]_vars PROVE EventHasRow'
  OBVIOUS
<1>1. ASSUME NEW h \in Handlers, Push(h) PROVE EventHasRow'
  BY <1>1 DEF Push, TInv, Told, EventHasRow
<1>2. ASSUME NEW h \in Handlers, NEW u \in Users, InsertNotice(h, u)
      PROVE  EventHasRow'
  BY <1>2 DEF InsertNotice, TInv, EventHasRow
<1>3. CASE UNCHANGED <<inbox, pushed>>
  BY <1>3 DEF TInv, EventHasRow
<1>4. ASSUME NEW h \in Handlers,
             \/ ReadTask(h) \/ RefuseStatus(h) \/ SaveTask(h) \/ LoadReceivers(h)
             \/ NotifyFails(h) \/ CreateAssignee(h) \/ DeleteAssignee(h)
             \/ AssigneeFails(h) \/ AssignDone(h) \/ Fail(h)
      PROVE  UNCHANGED <<inbox, pushed>>
  BY <1>4
  DEF ReadTask, RefuseStatus, SaveTask, LoadReceivers, NotifyFails,
      CreateAssignee, DeleteAssignee, AssigneeFails, AssignDone, Fail
<1>5. ASSUME NEW h, NEW u, NEW t, NEW fields, NEW v, NEW bad, NEW toAdd,
             NEW toRemove,
             \/ CreateTask(h, t, v, toAdd)
             \/ UpdateAssignees(h, t, toAdd, toRemove)
             \/ UpdateTask(h, u, t, fields, v, bad, toAdd, toRemove)
             \/ AddComment(h, u, t) \/ Join(u)
             \/ CheckAddition(h, u) \/ CheckRemoval(h, u)
      PROVE  UNCHANGED <<inbox, pushed>>
  BY <1>5
  DEF CreateTask, UpdateAssignees, UpdateTask, AddComment, Join, CheckAddition,
      CheckRemoval
<1>6. UNCHANGED vars => UNCHANGED <<inbox, pushed>>
  BY DEF vars
<1> QED
  BY <1>1, <1>2, <1>3, <1>4, <1>5, <1>6 DEF Next

-----------------------------------------------------------------------------
(* TInv holds for any number of overlapping calls.                         *)
THEOREM TaskBoardInvariant == Spec => []TInv
<1>1. Init => TInv
  BY TaskTypeInit DEF Init, TInv, Working, Told, EventHasRow, At
<1>2. TInv /\ [Next]_vars => TInv'
  BY TaskTypeStep, ToldStep, EventHasRowStep DEF TInv
<1> QED
  BY <1>1, <1>2, PTL DEF Spec

(* Rows, notices and calls keep their types.                               *)
THEOREM TaskBoardTyping == Spec => []TypeOK
<1>1. TInv => TypeOK
  BY DEF TInv
<1> QED
  BY TaskBoardInvariant, <1>1, PTL

(* Nobody is handed an event whose notification row is not stored          *)
(* (notifications/service.go, every fan-out).                              *)
THEOREM EventHasRowHolds == Spec => []EventHasRow
<1>1. TInv => EventHasRow
  BY DEF TInv
<1> QED
  BY TaskBoardInvariant, <1>1, PTL

(* What a call does not set it writes back as it has read it               *)
(* (core/tasks/repository.go:157-185).                                     *)
LEMMA FieldChange ==
  ASSUME TInv, [Next]_vars, NEW t \in Tasks, NEW f \in Fields,
         task[t] # None, task'[t][f] # task[t][f]
  PROVE  \E h \in Handlers : Saves(h, t, f)
<1>1. ASSUME NEW h \in Handlers, SaveTask(h)
      PROVE  Saves(h, t, f)
  <2>1. At(h, "saveTask") /\ handler[h] \in Calls
    BY <1>1 DEF SaveTask, At, TInv, TypeOK
  <2>2. handler[h].task \in Tasks /\ handler[h].copy \in Rows
    BY <2>1 DEF At, TInv, Working, Calls
  <2>3. handler[h].task = t
    BY <1>1, <2>2 DEF SaveTask, TInv, TypeOK
  <2>4. task'[t] = [handler[h].copy EXCEPT ![Field(h)] = handler[h].value]
    BY <1>1, <2>2, <2>3 DEF SaveTask, TInv, TypeOK
  <2>5. \/ Field(h) = f /\ task'[t][f] = handler[h].value
        \/ task'[t][f] = handler[h].copy[f]
    BY <2>2, <2>4 DEF Rows
  <2>6. handler'[h] # handler[h]
    BY <1>1, <2>1 DEF SaveTask, AfterSave, At, Calls, TInv, TypeOK
  <2> QED
    BY <2>1, <2>3, <2>5, <2>6 DEF Saves
<1>2. ASSUME NEW h \in Handlers, NEW k \in Tasks, NEW v \in Values,
             NEW toAdd \in SUBSET Named, CreateTask(h, k, v, toAdd)
      PROVE  FALSE
  BY <1>2 DEF CreateTask, TInv, TypeOK
<1>3. task' # task
  OBVIOUS
<1>4. ASSUME NEW h \in Handlers,
             \/ ReadTask(h) \/ RefuseStatus(h) \/ LoadReceivers(h) \/ Push(h)
             \/ NotifyFails(h) \/ CreateAssignee(h) \/ DeleteAssignee(h)
             \/ AssigneeFails(h) \/ AssignDone(h) \/ Fail(h)
      PROVE  task' = task
  BY <1>4
  DEF rowVars, ReadTask, RefuseStatus, LoadReceivers, Push, NotifyFails,
      CreateAssignee, DeleteAssignee, AssigneeFails, AssignDone, Fail
<1>5. ASSUME NEW h, NEW u, NEW k, NEW fields, NEW v, NEW bad, NEW toAdd,
             NEW toRemove,
             \/ UpdateAssignees(h, k, toAdd, toRemove)
             \/ UpdateTask(h, u, k, fields, v, bad, toAdd, toRemove)
             \/ AddComment(h, u, k) \/ Join(u)
             \/ InsertNotice(h, u) \/ CheckAddition(h, u) \/ CheckRemoval(h, u)
      PROVE  task' = task
  BY <1>5
  DEF rowVars, UpdateAssignees, UpdateTask, AddComment, Join, InsertNotice,
      CheckAddition, CheckRemoval
<1>6. UNCHANGED vars => task' = task
  BY DEF vars, rowVars
<1> QED
  BY <1>1, <1>2, <1>3, <1>4, <1>5, <1>6 DEF Next

(* The property of the run task_board, for every instance.                 *)
THEOREM FieldsAreKeptHolds == Spec => FieldsAreKept
<1>1. TInv /\ [Next]_vars
        => [\A t \in Tasks, f \in Fields :
              task[t] # None /\ task'[t][f] # task[t][f]
                => \E h \in Handlers : Saves(h, t, f)]_vars
  BY FieldChange
<1> QED
  BY TaskBoardInvariant, <1>1, PTL DEF Spec, FieldsAreKept

-----------------------------------------------------------------------------
(* Which steps write task rows, comments and notification rows.            *)
LEMMA Writers ==
  ASSUME [Next]_vars
  PROVE  /\ \/ task' = task
            \/ \E h \in Handlers : SaveTask(h)
            \/ \E h \in Handlers, t \in Tasks, v \in Values, a \in SUBSET Named :
                 CreateTask(h, t, v, a)
         /\ comments \subseteq comments'
         /\ inbox' = inbox \/ \E h \in Handlers, u \in Users : InsertNotice(h, u)
<1>1. ASSUME NEW h \in Handlers,
             \/ ReadTask(h) \/ RefuseStatus(h) \/ LoadReceivers(h) \/ Push(h)
             \/ NotifyFails(h) \/ CreateAssignee(h) \/ DeleteAssignee(h)
             \/ AssigneeFails(h) \/ AssignDone(h) \/ Fail(h)
      PROVE  UNCHANGED <<task, comments, inbox>>
  BY <1>1
  DEF rowVars, ReadTask, RefuseStatus, LoadReceivers, Push, NotifyFails,
      CreateAssignee, DeleteAssignee, AssigneeFails, AssignDone, Fail
<1>2. ASSUME NEW h, NEW u, NEW k, NEW fields, NEW v, NEW bad, NEW toAdd,
             NEW toRemove,
             \/ UpdateAssignees(h, k, toAdd, toRemove)
             \/ UpdateTask(h, u, k, fields, v, bad, toAdd, toRemove)
             \/ Join(u) \/ CheckAddition(h, u) \/ CheckRemoval(h, u)
      PROVE  UNCHANGED <<task, comments, inbox>>
  BY <1>2
  DEF rowVars, UpdateAssignees, UpdateTask, Join, CheckAddition, CheckRemoval
<1>3. ASSUME NEW h, NEW u, NEW t, AddComment(h, u, t)
      PROVE  UNCHANGED <<task, inbox>> /\ comments \subseteq comments'
  BY <1>3 DEF AddComment
<1>4. ASSUME NEW h, NEW u, InsertNotice(h, u)
      PROVE  UNCHANGED <<task, comments>>
  BY <1>4 DEF InsertNotice, rowVars
<1>5. ASSUME NEW h, NEW t, NEW v, NEW a, SaveTask(h) \/ CreateTask(h, t, v, a)
      PROVE  UNCHANGED <<comments, inbox>>
  BY <1>5 DEF SaveTask, CreateTask
<1>6. UNCHANGED vars => UNCHANGED <<task, comments, inbox>>
  BY DEF vars, rowVars
<1> QED
  BY <1>1, <1>2, <1>3, <1>4, <1>5, <1>6 DEF Next

-----------------------------------------------------------------------------
(* Without an overlap between read and save no copy grows old.             *)

(* How a call comes to hold a copy.                                        *)
LEMMA CopyChange ==
  ASSUME TInv, [Next]_vars, NEW g \in Handlers, At(g, "saveTask")'
  PROVE  \/ ReadTask(g)
         \/ At(g, "saveTask") /\ handler'[g] = handler[g]
<1>a. /\ handler \in [Handlers -> Calls \cup {Idle}]
      /\ \A h \in Handlers : handler[h] # Idle => handler[h] \in Calls
  BY DEF TInv, TypeOK
<1>1. ASSUME NEW h \in Handlers, NEW c, Start(h, c), c.pc # "saveTask"
      PROVE  handler'[g] = handler[g]
  BY <1>1, <1>a DEF Start, At
<1>2. ASSUME NEW h \in Handlers, NEW t \in Tasks, NEW u \in Users, NEW fields,
             NEW v, NEW bad, NEW toAdd, NEW toRemove,
             \/ CreateTask(h, t, v, toAdd)
             \/ UpdateAssignees(h, t, toAdd, toRemove)
             \/ UpdateTask(h, u, t, fields, v, bad, toAdd, toRemove)
             \/ AddComment(h, u, t)
      PROVE  handler'[g] = handler[g]
  <2>1. CASE CreateTask(h, t, v, toAdd)
    BY <1>1, <2>1 DEF CreateTask, Begin
  <2>2. CASE UpdateAssignees(h, t, toAdd, toRemove)
    BY <1>1, <2>2 DEF UpdateAssignees, Begin
  <2>3. CASE UpdateTask(h, u, t, fields, v, bad, toAdd, toRemove)
    BY <1>1, <2>3 DEF UpdateTask, Begin
  <2>4. CASE AddComment(h, u, t)
    BY <1>1, <2>4 DEF AddComment, Begin
  <2> QED
    BY <1>2, <2>1, <2>2, <2>3, <2>4
<1>3. ASSUME NEW h \in Handlers, RefuseStatus(h) \/ AssignDone(h) \/ Fail(h)
      PROVE  handler'[g] = handler[g]
  BY <1>3, <1>a DEF RefuseStatus, AssignDone, Fail, Return, At
<1>4. ASSUME NEW h \in Handlers, ThenAssign(h), handler[h] # Idle
      PROVE  handler'[g] = handler[g]
  <2>1. handler'[h].pc = "assign"
    BY <1>4, <1>a DEF ThenAssign, Calls
  <2> QED
    BY <1>4, <1>a, <2>1 DEF ThenAssign, At
<1>5. ASSUME NEW h \in Handlers, NEW type, ThenNotify(h, type), handler[h] # Idle
      PROVE  handler'[g] = handler[g]
  <2>1. handler'[h].pc = "load"
    BY <1>5, <1>a DEF ThenNotify, Calls
  <2> QED
    BY <1>5, <1>a, <2>1 DEF ThenNotify, At
<1>6. ASSUME NEW h \in Handlers,
             \/ Push(h) \/ NotifyFails(h) \/ AssigneeFails(h)
             \/ CreateAssignee(h) \/ DeleteAssignee(h)
      PROVE  handler'[g] = handler[g]
  BY <1>4, <1>5, <1>6
  DEF Push, NotifyFails, AssigneeFails, CreateAssignee, DeleteAssignee, At
<1>7. ASSUME NEW h \in Handlers, LoadReceivers(h) PROVE handler'[g] = handler[g]
  <2>1. handler[h] \in Calls
    BY <1>7, <1>a DEF LoadReceivers, At
  <2>2. h # g
    BY <1>7, <1>a, <2>1 DEF LoadReceivers, At, Calls
  <2> QED
    BY <1>7, <1>a, <2>2 DEF LoadReceivers
<1>8. ASSUME NEW h \in Handlers, NEW u \in Users,
             InsertNotice(h, u) \/ CheckAddition(h, u) \/ CheckRemoval(h, u)
      PROVE  handler'[g] = handler[g]
  <2>1. handler[h] \in Calls /\ handler[h].pc \in {"notify", "assign"}
    BY <1>8, <1>a DEF InsertNotice, CheckAddition, CheckRemoval, At
  <2>2. h # g
    BY <1>8, <1>a, <2>1
    DEF InsertNotice, CheckAddition, CheckRemoval, At, Calls
  <2> QED
    BY <1>8, <1>a, <2>2 DEF InsertNotice, CheckAddition, CheckRemoval
<1>9. ASSUME NEW h \in Handlers, SaveTask(h) PROVE handler'[g] = handler[g]
  <2>1. handler[h] \in Calls
    BY <1>9, <1>a DEF SaveTask, At
  <2>2. h # g
    BY <1>9, <1>a, <2>1 DEF SaveTask, AfterSave, At, Calls
  <2> QED
    BY <1>9, <1>a, <2>2 DEF SaveTask, AfterSave
<1>10. ASSUME NEW h \in Handlers, ReadTask(h), h # g
       PROVE  handler'[g] = handler[g]
  BY <1>10, <1>a DEF ReadTask
<1>11. ASSUME NEW u \in Users, Join(u) PROVE handler'[g] = handler[g]
  BY <1>11 DEF Join
<1>12. CASE UNCHANGED vars
  BY <1>12 DEF vars, At
<1>13. ReadTask(g) \/ handler'[g] = handler[g]
  BY <1>2, <1>3, <1>6, <1>7, <1>8, <1>9, <1>10, <1>11, <1>12, TaskAssumption
  DEF Next, vars
<1> QED
  BY <1>13 DEF At

(* While nobody else is between read and save, the copy is the row.        *)
LEMMA StaleStep == TInv /\ OneSavePerTask /\ ~Stale /\ [Next]_vars => ~Stale'
<1> SUFFICES ASSUME TInv, OneSavePerTask, ~Stale, [Next]_vars,
                    NEW g \in Handlers, At(g, "saveTask")'
             PROVE  handler'[g].copy = task'[handler'[g].task]
  BY DEF Stale, At
<1>a. /\ handler \in [Handlers -> Calls \cup {Idle}] /\ DOMAIN task = Tasks
      /\ \A h \in Handlers : handler[h] # Idle => handler[h] \in Calls
  BY DEF TInv, TypeOK
<1>1. CASE ReadTask(g)
  BY <1>1, <1>a DEF ReadTask, At, rowVars, Calls
<1>2. CASE At(g, "saveTask") /\ handler'[g] = handler[g]
  <2>1. PICK t \in Tasks : t = handler[g].task
    BY <1>2, <1>a DEF At, Calls
  <2>2. handler[g].copy = task[t] /\ task[t] # None
    BY <1>2, <2>1 DEF Stale, TInv, Working
  <2>3. ASSUME NEW h \in Handlers, SaveTask(h) PROVE task'[t] = task[t]
    <3>1. h # g
      BY <1>2, <1>a, <2>3 DEF SaveTask, AfterSave, At, Calls
    <3>2. handler[h].task # t
      BY <1>2, <2>1, <2>3, <3>1 DEF OneSavePerTask, SaveTask
    <3> QED
      BY <1>a, <2>3, <3>2 DEF SaveTask
  <2>4. ASSUME NEW h \in Handlers, NEW k \in Tasks, NEW v \in Values,
               NEW a \in SUBSET Named, CreateTask(h, k, v, a)
        PROVE  task'[t] = task[t]
    BY <1>a, <2>2, <2>4 DEF CreateTask
  <2>5. task'[t] = task[t]
    BY <2>3, <2>4, Writers
  <2> QED
    BY <1>2, <2>1, <2>2, <2>5
<1> QED
  BY <1>1, <1>2, CopyChange

(* In a behaviour in which no two updates of one task are between read and *)
(* save at the same time, a field changes only by a call that sets it:     *)
(* the failed, half-done and refused updates lose nothing                  *)
(* (core/tasks/repository.go:157-185).                                     *)
THEOREM NoFieldIsLostWithoutOverlap ==
  Spec /\ []OneSavePerTask => NoFieldIsLost
<1>1. Init => ~Stale
  BY DEF Init, Stale, At
<1>2. TInv /\ ~Stale /\ [Next]_vars
        => [\A t \in Tasks, f \in Fields :
              task[t] # None /\ task'[t][f] # task[t][f] => SetBy(t, f)]_vars
  BY FieldChange DEF Stale, SetBy, Saves
<1> QED
  BY <1>1, <1>2, StaleStep, TaskBoardInvariant, PTL DEF Spec, NoFieldIsLost

-----------------------------------------------------------------------------
(* The truth of notices.  One call moves; rows of tasks and comments stay, *)
(* so what the other calls carry stays true.                               *)
LEMMA OthersCarryTruth ==
  ASSUME TInv, NInv, [Next]_vars, inbox' = inbox, NEW h \in Handlers,
         \A g \in Handlers \ {h} : handler'[g] = handler[g],
         CarriesTruth(handler[h])'
  PROVE  NInv'
<1>1. /\ \A t \in Tasks : task[t] # None => task'[t] # None
      /\ comments \subseteq comments'
  BY RowsStay, Writers DEF TInv
<1>2. ASSUME NEW g \in Handlers PROVE CarriesTruth(handler[g])'
  <2>1. CASE g = h
    BY <2>1
  <2>2. CASE g # h
    <3>1. handler'[g] = handler[g] /\ CarriesTruth(handler[g])
      BY <2>2 DEF NInv
    <3>2. handler[g] # Idle => handler[g].task \in Tasks
      BY DEF TInv, TypeOK, Calls
    <3> QED
      BY <1>1, <3>1, <3>2 DEF CarriesTruth
  <2> QED
    BY <2>1, <2>2
<1>3. NoticesAreTrue'
  BY <1>1 DEF NInv, NoticesAreTrue, TInv, TypeOK, Notices
<1> QED
  BY <1>2, <1>3 DEF NInv

(* A call that is started after its first write carries the truth of it.   *)
LEMMA StartCarriesTruth ==
  ASSUME TInv, NInv, [Next]_vars, inbox' = inbox, NEW h \in Handlers, NEW c,
         Start(h, c), CarriesTruth(c)'
  PROVE  NInv'
<1>1. /\ handler'[h] = c
      /\ \A g \in Handlers \ {h} : handler'[g] = handler[g]
  BY DEF Start, TInv, TypeOK
<1>2. CarriesTruth(handler[h])'
  BY <1>1 DEF CarriesTruth
<1> QED
  BY <1>1, <1>2, OthersCarryTruth

(* The row written tells of what the call carries.                         *)
LEMMA InsertNoticeTrue ==
  ASSUME TInv, NInv, [Next]_vars, NEW h \in Handlers, NEW u \in Users,
         InsertNotice(h, u)
  PROVE  NInv'
<1>1. /\ handler[h] \in Calls /\ handler[h] # Idle /\ handler[h].pc = "notify"
      /\ u \in handler[h].left /\ UNCHANGED <<task, comments>>
      /\ inbox' = inbox \cup Kept({Notice(h, u)})
  BY DEF InsertNotice, At, TInv, TypeOK, rowVars
<1>2. CarriesTruth(handler[h])
  BY DEF NInv
<1>3. /\ handler'[h] # Idle => handler'[h].pc = "notify"
      /\ handler'[h].task = handler[h].task /\ handler'[h].type = handler[h].type
      /\ handler'[h].caller = handler[h].caller
      /\ handler'[h].left \subseteq handler[h].left
      /\ \A g \in Handlers \ {h} : handler'[g] = handler[g]
  BY <1>1 DEF InsertNotice, TInv, TypeOK, Calls
<1>4. CarriesTruth(handler[h])'
  BY <1>1, <1>2, <1>3 DEF CarriesTruth
<1>5. \A g \in Handlers : CarriesTruth(handler[g])'
  <2>1. ASSUME NEW g \in Handlers, g # h PROVE CarriesTruth(handler[g])'
    BY <1>1, <1>3, <2>1 DEF NInv, CarriesTruth
  <2> QED
    BY <1>4, <2>1
<1>6. NoticesAreTrue'
  <2> SUFFICES ASSUME NEW n \in inbox'
               PROVE  /\ task[n.task] # None /\ n.to # n.by
                      /\ n.type = "comment_added" => <<n.task, n.by>> \in comments
                      /\ n.type \in OwnersTypes => n.by = Owner
    BY <1>1 DEF NoticesAreTrue
  <2>1. CASE n \in inbox
    BY <2>1 DEF NInv, NoticesAreTrue
  <2>2. CASE n = Notice(h, u)
    <3>1. /\ n.to = u /\ n.type = handler[h].type
          /\ n.task = handler[h].task /\ n.by = handler[h].caller
      BY <2>2 DEF Notice
    <3> QED
      BY <1>1, <1>2, <3>1 DEF CarriesTruth
  <2> QED
    BY <1>1, <2>1, <2>2 DEF Kept
<1> QED
  BY <1>5, <1>6 DEF NInv

(* The receivers of a notification never include its caller.               *)
LEMMA LoadCarriesTruth ==
  ASSUME TInv, NInv, [Next]_vars, NEW h \in Handlers, LoadReceivers(h)
  PROVE  NInv'
<1>1. /\ handler[h] \in Calls /\ handler[h] # Idle /\ handler[h].pc = "load"
      /\ UNCHANGED <<task, comments, inbox>>
  BY DEF LoadReceivers, At, TInv, TypeOK, rowVars
<1>2. CarriesTruth(handler[h])
  BY DEF NInv
<1>3. /\ handler'[h].pc = "notify"
      /\ handler'[h].task = handler[h].task /\ handler'[h].type = handler[h].type
      /\ handler'[h].caller = handler[h].caller
      /\ handler'[h].left
           = ReceiversOf(handler[h].type, handler[h].task, handler[h].caller)
      /\ \A g \in Handlers \ {h} : handler'[g] = handler[g]
  BY <1>1 DEF LoadReceivers, TInv, TypeOK, Calls
<1>4. handler[h].type \in NotificationTypes
  BY <1>1 DEF Calls
<1>5. handler[h].caller
        \notin ReceiversOf(handler[h].type, handler[h].task, handler[h].caller)
  BY <1>1, <1>2, <1>4
  DEF CarriesTruth, ReceiversOf, OwnersTypes, NotificationTypes
<1>6. CarriesTruth(handler[h])'
  BY <1>1, <1>2, <1>3, <1>5 DEF CarriesTruth
<1> QED
  BY <1>1, <1>3, <1>6, OthersCarryTruth

(* The moves of a call that write no notification row.                     *)
LEMMA NoticesStep == TInv /\ NInv /\ [Next]_vars => NInv'
<1> SUFFICES ASSUME TInv, NInv, [Next]_vars PROVE NInv'
  OBVIOUS
<1>a. /\ handler \in [Handlers -> Calls \cup {Idle}]
      /\ \A h \in Handlers : handler[h] # Idle => /\ handler[h] \in Calls
                                                 /\ handler[h].task \in Tasks
  BY DEF TInv, TypeOK, Calls
<1>b. /\ \A t \in Tasks : task[t] # None => task'[t] # None
      /\ comments \subseteq comments'
  BY RowsStay, Writers DEF TInv
<1>c. \A h \in Handlers : CarriesTruth(handler[h])
  BY DEF NInv
<1>1. ASSUME NEW h \in Handlers, NEW t \in Tasks, NEW v \in Values,
             NEW a \in SUBSET Named, CreateTask(h, t, v, a)
      PROVE  NInv'
  <2>1. task'[t] # None
    BY <1>1, TaskIdleAssumption DEF CreateTask, TInv, TypeOK, Rows
  <2> QED
    BY <1>1, <2>1, StartCarriesTruth DEF CreateTask, Begin, CarriesTruth
<1>2. ASSUME NEW h \in Handlers, NEW u \in Users, NEW t \in Tasks,
             NEW fields \in Updates, NEW v \in Values, NEW bad \in BOOLEAN,
             NEW a \in SUBSET Named, NEW r \in SUBSET Named,
             UpdateTask(h, u, t, fields, v, bad, a, r)
      PROVE  NInv'
  BY <1>2, <1>b, StartCarriesTruth DEF UpdateTask, Begin, CarriesTruth
<1>3. ASSUME NEW h \in Handlers, NEW t \in Tasks,
             NEW a \in SUBSET Named, NEW r \in SUBSET Named,
             UpdateAssignees(h, t, a, r)
      PROVE  NInv'
  BY <1>3, <1>b, StartCarriesTruth DEF UpdateAssignees, Begin, CarriesTruth
<1>4. ASSUME NEW h \in Handlers, NEW u \in Users, NEW t \in Tasks,
             AddComment(h, u, t)
      PROVE  NInv'
  BY <1>4, <1>b, StartCarriesTruth
  DEF AddComment, Begin, CarriesTruth, OwnersTypes
<1>5. ASSUME NEW h \in Handlers, Return(h), inbox' = inbox
      PROVE  NInv'
  BY <1>5, <1>a, OthersCarryTruth DEF Return, CarriesTruth
<1>6. ASSUME NEW h \in Handlers, ThenAssign(h), handler[h] # Idle, inbox' = inbox
      PROVE  NInv'
  <2>1. /\ handler'[h].pc = "assign" /\ handler'[h].task = handler[h].task
        /\ \A g \in Handlers \ {h} : handler'[g] = handler[g]
    BY <1>6, <1>a DEF ThenAssign, Calls
  <2>2. CarriesTruth(handler[h])'
    BY <1>6, <1>a, <1>b, <1>c, <2>1 DEF CarriesTruth
  <2> QED
    BY <1>6, <2>1, <2>2, OthersCarryTruth
<1>7. ASSUME NEW h \in Handlers, inbox' = inbox,
             NEW type \in {"assignee_added", "assignee_removed"},
             ThenNotify(h, type), handler[h] # Idle,
             handler[h].pc \in {"createAssignee", "deleteAssignee"}
      PROVE  NInv'
  <2>1. /\ handler'[h].pc = "load" /\ handler'[h].type = type
        /\ handler'[h].task = handler[h].task
        /\ handler'[h].caller = handler[h].caller
        /\ \A g \in Handlers \ {h} : handler'[g] = handler[g]
    BY <1>7, <1>a DEF ThenNotify, Calls
  <2>2. CarriesTruth(handler[h])'
    BY <1>7, <1>a, <1>b, <1>c, <2>1 DEF CarriesTruth, OwnersTypes
  <2> QED
    BY <1>7, <2>1, <2>2, OthersCarryTruth
<1>8. ASSUME NEW h \in Handlers, CreateAssignee(h) \/ DeleteAssignee(h)
      PROVE  NInv'
  BY <1>6, <1>7, <1>8 DEF CreateAssignee, DeleteAssignee, At
<1>9. ASSUME NEW h \in Handlers, ReadTask(h) \/ SaveTask(h) PROVE NInv'
  <2>1. /\ handler[h] \in Calls /\ handler[h] # Idle /\ inbox' = inbox
    BY <1>9, <1>a DEF ReadTask, SaveTask, At
  <2>2. /\ handler'[h].pc \in {"saveTask", "readTask", "load"}
        /\ handler'[h].pc = "load" => handler'[h].type = "task_updated"
        /\ handler'[h].task = handler[h].task
        /\ \A g \in Handlers \ {h} : handler'[g] = handler[g]
    BY <1>9, <1>a, <2>1 DEF ReadTask, SaveTask, AfterSave, Calls
  <2>3. CarriesTruth(handler[h])'
    BY <1>a, <1>b, <1>c, <2>1, <2>2 DEF CarriesTruth, OwnersTypes
  <2> QED
    BY <2>1, <2>2, <2>3, OthersCarryTruth
<1>10. ASSUME NEW h \in Handlers, NEW u \in Users,
              CheckAddition(h, u) \/ CheckRemoval(h, u)
       PROVE  NInv'
  <2>1. /\ handler[h] \in Calls /\ handler[h] # Idle /\ inbox' = inbox
        /\ handler[h].caller = Owner
    BY <1>10, <1>a DEF CheckAddition, CheckRemoval, At
  <2>2. /\ handler'[h].pc \in {"assign", "createAssignee", "deleteAssignee"}
        /\ handler'[h].task = handler[h].task /\ handler'[h].caller = Owner
        /\ \A g \in Handlers \ {h} : handler'[g] = handler[g]
    BY <1>10, <1>a, <2>1 DEF CheckAddition, CheckRemoval, Calls
  <2>3. CarriesTruth(handler[h])'
    BY <1>a, <1>b, <1>c, <2>1, <2>2 DEF CarriesTruth
  <2> QED
    BY <2>1, <2>2, <2>3, OthersCarryTruth
<1>11. ASSUME NEW h \in Handlers,
              \/ RefuseStatus(h) \/ AssignDone(h) \/ Fail(h)
              \/ Push(h) \/ NotifyFails(h) \/ AssigneeFails(h)
       PROVE  NInv'
  BY <1>5, <1>6, <1>11
  DEF RefuseStatus, AssignDone, Fail, Push, NotifyFails, AssigneeFails, At
<1>12. ASSUME NEW u \in Users, Join(u) PROVE NInv'
  BY <1>12 DEF Join, NInv, NoticesAreTrue, CarriesTruth
<1>13. CASE UNCHANGED vars
  BY <1>13 DEF vars, rowVars, NInv, NoticesAreTrue, CarriesTruth
<1> QED
  BY <1>1, <1>2, <1>3, <1>4, <1>8, <1>9, <1>10, <1>11, <1>12, <1>13,
     InsertNoticeTrue, LoadCarriesTruth
  DEF Next

(* Whatever statements of a call fail or are overtaken, a notification row *)
(* of a task tells the truth about what was done and by whom               *)
(* (notifications/service.go).                                             *)
THEOREM NoticesAreTrueHolds == Spec => []NoticesAreTrue
<1>1. Init => NInv
  BY DEF Init, NInv, NoticesAreTrue, CarriesTruth
<1>2. NInv => NoticesAreTrue
  BY DEF NInv
<1> QED
  BY <1>1, <1>2, NoticesStep, TaskBoardInvariant, PTL DEF Spec
=============================================================================
