--------------------------------- MODULE Edits ---------------------------------
(***************************************************************************)
(* The rows people edit outside the task board: their profile              *)
(* (UserApi.UpdateProfile), the text of their projects (ProjectApi.Update) *)
(* and the read mark of their messages (MessageApi.MarkAsRead), each read  *)
(* as a whole, changed, and saved as a whole in another statement; and the *)
(* avatar upload, which leaves an object in S3 and a documents row.        *)
(*                                                                         *)
(* A call that is refused before its first write leaves no trace and is    *)
(* not a step.                                                             *)
(***************************************************************************)
EXTENDS Pages

CONSTANTS
  Messages,  (* notification rows, written by the time they are marked       *)
  Values,    (* what an edit sets a field to                                 *)
  Unedited,  (* what a field holds at first                                  *)
  Files,     (* names of the image files uploaded                            *)
  Types,     (* their content types                                          *)
  Editors,   (* HTTP requests in flight at one time                          *)
  NoEdit,    (* a slot that serves no request                                *)
  NoRow,     (* no copy of a row                                             *)
  MaxEdits   (* bound: calls made in an instance                             *)

VARIABLES
  row,       (* the users, projects and notifications rows                   *)
  objects,   (* the keys of the S3 bucket under which something is stored,   *)
             (* content types all of them                                    *)
  documents, (* the s3_documents rows: user and file (the key), type         *)
  edit,      (* what each request is doing                                   *)
  edits      (* number of calls made so far                                  *)

editVars == <<row, objects, documents, edit, edits>>
allVars  == <<pageVars, editVars>>

RowIds == Users \cup Projects \cup Messages

(* "details" is any of the other columns that are edited alike: display    *)
(* name, skills and timezone of a user, description and skills of a        *)
(* project.                                                                *)
Fields == {"name", "details", "avatar", "read"}
Words  == Values \cup Users \cup {Unedited, "yes"}
Rows   == [Fields -> Words]

(* target is the row, fields and value what the call sets, copy what it    *)
(* has read; an upload has its file and type instead.                      *)
EditCalls ==
  [pc : {"readRow", "saveRow"}, caller : Users, target : RowIds,
   fields : SUBSET Fields, value : Words, copy : Rows \cup {NoRow}]
Uploads ==
  [pc : {"createDocument", "readUser"}, caller : Users, file : Files, type : Types]

ASSUME EditsAssumption ==
  /\ Users \cap Projects = {} /\ Users \cap Messages = {}
  /\ Projects \cap Messages = {}
  /\ MaxEdits \in Nat
  /\ NoRow \notin Rows
  /\ NoEdit \notin EditCalls \cup Uploads

Doing(h, pc) == edit[h] # NoEdit /\ edit[h].pc = pc
Done(h)      == edit' = [edit EXCEPT ![h] = NoEdit]

Begin(h, call) ==
  /\ edit[h] = NoEdit
  /\ edits < MaxEdits
  /\ edits' = edits + 1
  /\ edit' = [edit EXCEPT ![h] = call]
  /\ UNCHANGED pageVars

(* Users signed up under different names.                                  *)
FirstRow(r) ==
  [f \in Fields |-> IF r \in Users /\ f = "name" THEN r ELSE Unedited]

EditsInit ==
  /\ PagesInit
  /\ row = [r \in RowIds |-> FirstRow(r)]
  /\ objects = {} /\ documents = {}
  /\ edit = [h \in Editors |-> NoEdit]
  /\ edits = 0

-----------------------------------------------------------------------------
(* PATCH /profile: UserService.Update reads the row of the user first.     *)
EditProfile(h, u, fields, v) ==
  /\ fields # {} /\ fields \subseteq {"name", "details"}
  /\ Begin(h, [pc |-> "saveRow", caller |-> u, target |-> u,
               fields |-> fields, value |-> v, copy |-> row[u]])
  /\ UNCHANGED <<row, objects, documents>>

(* Fault: members may edit the project.                                    *)
MayEdit_Member(p, u) == role[p][u] # "None"

(* NeedsToBeAnOwner of ProjectService.Update.                              *)
MayEdit(p, u) == role[p][u] = "Owner"

(* PATCH /projects/{id}: the check comes first.                            *)
EditProject(h, p, u, fields, v) ==
  /\ fields # {} /\ fields \subseteq {"name", "details"}
  /\ MayEdit(p, u)
  /\ Begin(h, [pc |-> "readRow", caller |-> u, target |-> p,
               fields |-> fields, value |-> v, copy |-> NoRow])
  /\ UNCHANGED <<row, objects, documents>>

(* Fault: the read mark is turned over.                                    *)
MarkAsRead_Toggle(h, u, n) ==
  /\ Begin(h, [pc |-> "saveRow", caller |-> u, target |-> n,
               fields |-> {"read"}, copy |-> row[n],
               value |-> IF row[n]["read"] = "yes" THEN Unedited ELSE "yes"])
  /\ UNCHANGED <<row, objects, documents>>

(* PATCH /messages/{id}, which does not ask whose message it is.           *)
MarkAsRead(h, u, n) ==
  /\ Begin(h, [pc |-> "saveRow", caller |-> u, target |-> n,
               fields |-> {"read"}, value |-> "yes", copy |-> row[n]])
  /\ UNCHANGED <<row, objects, documents>>

ReadRow(h) ==
  /\ Doing(h, "readRow")
  /\ edit' = [edit EXCEPT ![h].pc = "saveRow", ![h].copy = row[edit[h].target]]
  /\ UNCHANGED <<pageVars, row, objects, documents, edits>>

(* The row as the call saves it.                                           *)
Saved(c) == [f \in Fields |-> IF f \in c.fields THEN c.value ELSE c.copy[f]]

(* The unique index on users.username.                                     *)
NameIsTaken(c) ==
  /\ c.target \in Users
  /\ \E u \in Users \ {c.target} : row[u]["name"] = Saved(c)["name"]

(* Fault: the fields the call does not name are saved as given, empty.     *)
SaveRow_AllFields(h) ==
  /\ Doing(h, "saveRow")
  /\ LET c == edit[h] IN
       row' = IF NameIsTaken(c) THEN row
              ELSE [row EXCEPT ![c.target] =
                      [f \in Fields |-> IF f \in c.fields THEN c.value
                                                          ELSE Unedited]]
  /\ Done(h)
  /\ UNCHANGED <<pageVars, objects, documents, edits>>

SaveRow(h) ==
  /\ Doing(h, "saveRow")
  /\ LET c == edit[h] IN
       row' = IF NameIsTaken(c) THEN row
                                ELSE [row EXCEPT ![c.target] = Saved(c)]
  /\ Done(h)
  /\ UNCHANGED <<pageVars, objects, documents, edits>>

-----------------------------------------------------------------------------
(* POST /profile/avatar: UserService.UploadAvatar.                         *)

(* StoreObject takes the key and the type in this order and is given the   *)
(* type and the key: every image of one type is stored under the type, and *)
(* nothing under the key that the row is given below.                      *)
StoreObject(h, u, f, t) ==
  /\ Begin(h, [pc |-> "createDocument", caller |-> u, file |-> f, type |-> t])
  /\ objects' = objects \cup {t}
  /\ UNCHANGED <<row, documents>>

(* The row is given the key of user and file, which is unique.             *)
CreateDocument(h) ==
  /\ Doing(h, "createDocument")
  /\ LET c == edit[h] IN
       IF \E d \in documents : d.user = c.caller /\ d.file = c.file
       THEN Done(h) /\ UNCHANGED documents
       ELSE /\ documents' = documents \cup
                 {[user |-> c.caller, file |-> c.file, type |-> c.type]}
            /\ edit' = [edit EXCEPT ![h].pc = "readUser"]
  /\ UNCHANGED <<pageVars, row, objects, edits>>

(* The user is looked for under the fresh id of the document, which no     *)
(* user has: the call ends here, with an error.                            *)
ReadUser(h) ==
  /\ Doing(h, "readUser")
  /\ Done(h)
  /\ UNCHANGED <<pageVars, row, objects, documents, edits>>

(* A statement fails, or the server goes down.                             *)
FailEdit(h) ==
  /\ edit[h] # NoEdit
  /\ Done(h)
  /\ UNCHANGED <<pageVars, row, objects, documents, edits>>

-----------------------------------------------------------------------------
EditStep(h) ==
  \/ \E u \in Users :
       \/ \E fields \in SUBSET Fields, v \in Values :
            \/ EditProfile(h, u, fields, v)
            \/ \E p \in Projects : EditProject(h, p, u, fields, v)
       \/ \E n \in Messages : MarkAsRead(h, u, n)
       \/ \E f \in Files, t \in Types : StoreObject(h, u, f, t)
  \/ ReadRow(h) \/ SaveRow(h)
  \/ CreateDocument(h) \/ ReadUser(h)
  \/ FailEdit(h)

EditsNext ==
  \/ PagesNext /\ UNCHANGED editVars
  \/ \E h \in Editors : EditStep(h)

EditsSpec == EditsInit /\ [][EditsNext]_allVars

-----------------------------------------------------------------------------
EditsTypeOK ==
  /\ PagesTypeOK
  /\ row \in [RowIds -> Rows]
  /\ objects \subseteq Types
  /\ documents \subseteq [user : Users, file : Files, type : Types]
  /\ edit \in [Editors -> EditCalls \cup Uploads \cup {NoEdit}]
  /\ edits \in 0..MaxEdits

(* An edit writes the row whose copy it holds, and its caller was allowed  *)
(* to: their own profile, the project they own, any message.               *)
EditIsAllowed ==
  \A h \in Editors :
    /\ Doing(h, "saveRow") => edit[h].copy # NoRow
    /\ Doing(h, "readRow") => edit[h].target \in Projects
    /\ Doing(h, "readRow") \/ Doing(h, "saveRow") =>
         /\ edit[h].target \in Users => edit[h].target = edit[h].caller
         /\ edit[h].target \in Projects =>
              role[edit[h].target][edit[h].caller] = "Owner"

(* No two users share a name, however their edits overlap: the check is    *)
(* the unique index, at the save.                                          *)
NamesAreDistinct ==
  \A u, v \in Users : row[u]["name"] = row[v]["name"] => u = v

EditsInv ==
  /\ EditsTypeOK /\ PagesInv /\ EditIsAllowed /\ NamesAreDistinct

(* A profile changes only by a call of its user, and the text of a project *)
(* only by a call of somebody who owns it when the row is saved, two       *)
(* statements after NeedsToBeAnOwner was asked.                            *)
ChangedByItsOwner ==
  [][\A r \in RowIds :
       row'[r] # row[r] =>
         \E h \in Editors :
           /\ Doing(h, "saveRow") /\ edit[h].target = r
           /\ r \in Users => edit[h].caller = r
           /\ r \in Projects => owner[r] = edit[h].caller]_allVars

(* A field changes only by a save of a call that sets it, to what the call *)
(* says, or back to what the field was when the call that saves read the   *)
(* row.  (What such a save from an old copy may not undo is said by        *)
(* MessagesStayRead and NoAvatarIsEverSet.)                                *)
EditsAreKept ==
  [][\A r \in RowIds, f \in Fields :
       row'[r][f] # row[r][f] =>
         \E h \in Editors :
           /\ Doing(h, "saveRow") /\ edit[h].target = r /\ edit'[h] = NoEdit
           /\ \/ f \in edit[h].fields /\ row'[r][f] = edit[h].value
              \/ row'[r][f] = edit[h].copy[f]]_allVars

(* The copies of one row that are about to be saved are never two: the     *)
(* order in which people edit one row one after the other, which nothing   *)
(* in the code enforces.                                                   *)
OneSavePerRow ==
  \A g, h \in Editors :
    /\ Doing(g, "saveRow") /\ Doing(h, "saveRow")
    /\ edit[g].target = edit[h].target
    => g = h

(* A call holds a copy of a row that has changed since.                    *)
OldCopy ==
  \E h \in Editors : Doing(h, "saveRow") /\ edit[h].copy # row[edit[h].target]

(* A call is setting this field.                                           *)
BeingSet(r, f) ==
  \E h \in Editors : Doing(h, "saveRow") /\ edit[h].target = r /\ f \in edit[h].fields

(* A field changes only because a call set it: no edit undoes another.     *)
NoEditIsLost ==
  [][\A r \in RowIds, f \in Fields :
       row'[r][f] # row[r][f] => BeingSet(r, f)]_allVars

(* However edits and read marks overlap, old copies included, a message    *)
(* that was read is never unread again.                                    *)
MessagesStayRead ==
  [][\A n \in Messages :
       row[n]["read"] = "yes" => row'[n]["read"] = "yes"]_allVars

(* Whatever is uploaded and edited, nobody ever gets an avatar: the call   *)
(* that stores an image ends before it names it in the row of the user     *)
(* (core/users/service.go:152-190).                                        *)
NoAvatarIsEverSet == \A r \in RowIds : row[r]["avatar"] = Unedited

(* What those two rest on: no call sets an avatar or has read one, and a   *)
(* call that saves a message marks it as read.                             *)
EditsSetNoAvatar ==
  \A h \in Editors :
    /\ Doing(h, "readRow") => "avatar" \notin edit[h].fields
    /\ Doing(h, "saveRow") =>
         /\ "avatar" \notin edit[h].fields
         /\ edit[h].copy["avatar"] = Unedited
         /\ edit[h].target \in Messages =>
              "read" \in edit[h].fields /\ edit[h].value = "yes"

FieldsInv == EditsInv /\ NoAvatarIsEverSet /\ EditsSetNoAvatar
=============================================================================
