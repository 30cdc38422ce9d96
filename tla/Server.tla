-------------------------------- MODULE Server --------------------------------
(***************************************************************************)
(* The routes of Membership and of Edits in one server, on one database:   *)
(* the statements of the calls that change projects, requests and members  *)
(* interleave with those of the pages that show them and of the edits that *)
(* ask for a role first.  Pages and Edits are written over Admission, in   *)
(* which a call is one step; here the calls take all their steps.          *)
(***************************************************************************)
EXTENDS Membership

CONSTANTS
  Nothing, Messages, Values, Unedited, Files, Types, Editors, NoEdit, NoRow,
  MaxEdits   (* as in Pages and Edits                                        *)

VARIABLES
  page, row, objects, documents, edit, edits

E == INSTANCE Edits

rowVars    == <<row, objects, documents, edit, edits>>
serverVars == <<vars, page, rowVars>>

ServerInit == MInit /\ E!EditsInit

(* A statement of a call that changes the tables, of a page, or of an edit. *)
MembershipStep == MNext /\ UNCHANGED <<page, rowVars>>
PageStep       == E!PageStep /\ UNCHANGED <<handler, inbox, rowVars>>
EditStep       == (\E h \in Editors : E!EditStep(h)) /\ UNCHANGED <<handler, inbox>>

ServerNext == MembershipStep \/ PageStep \/ EditStep

ServerSpec == ServerInit /\ [][ServerNext]_serverVars

(* Whatever is true of pages and edits beside the services that decide in   *)
(* one step is true of them beside the services as they run.               *)
ImplementsEdits == E!EditsSpec
=============================================================================
