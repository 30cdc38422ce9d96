------------------------------ MODULE Admission ------------------------------
(***************************************************************************)
(* What the projects, join-requests and members services promise together, *)
(* without handlers, statements or transactions: a project appears with    *)
(* its owner, a user asks to join, and the decision on a request is one    *)
(* atomic event in which an acceptance and the membership it grants cannot *)
(* be told apart.  Membership.tla is shown to implement this module.       *)
(***************************************************************************)
CONSTANTS
  Users,     (* user ids                                                     *)
  Projects,  (* project ids (uuid.NewString)                                 *)
  NoUser     (* owner of a project id that has no row yet                    *)

ASSUME NoUserAssumption == NoUser \notin Users

VARIABLES
  owner,     (* projects.owner_id, NoUser while there is no row              *)
  role,      (* project_members.role per project and user, "None" = no row   *)
  request    (* join_requests.status per project and user, "None" = no row   *)

avars == <<owner, role, request>>

Statuses == {"Pending", "Accepted", "Rejected"}
Roles    == {"Owner", "Member"}

Init ==
  /\ owner   = [p \in Projects |-> NoUser]
  /\ role    = [p \in Projects |-> [u \in Users |-> "None"]]
  /\ request = [p \in Projects |-> [u \in Users |-> "None"]]

(* A project and its Owner membership appear together.                     *)
CreateProject(p, u) ==
  /\ owner[p] = NoUser
  /\ owner' = [owner EXCEPT ![p] = u]
  /\ role'  = [role EXCEPT ![p][u] = "Owner"]
  /\ UNCHANGED request

(* Any user may ask once to join a project that exists.                    *)
Ask(p, u) ==
  /\ owner[p] # NoUser
  /\ request[p][u] = "None"
  /\ request' = [request EXCEPT ![p][u] = "Pending"]
  /\ UNCHANGED <<owner, role>>

(* Fault: the acceptance is recorded and grants nothing.                   *)
Accept_NoMember(p, u) ==
  /\ request[p][u] # "None"
  /\ role[p][u] = "None"
  /\ request' = [request EXCEPT ![p][u] = "Accepted"]
  /\ UNCHANGED <<owner, role>>

(* Acceptance grants the membership, once, to a user who had no role.      *)
Accept(p, u) ==
  /\ request[p][u] # "None"
  /\ role[p][u] = "None"
  /\ request' = [request EXCEPT ![p][u] = "Accepted"]
  /\ role'    = [role EXCEPT ![p][u] = "Member"]
  /\ UNCHANGED owner

(* Any other decision touches the request alone.                           *)
Decide(p, u, s) ==
  /\ s # "Accepted"
  /\ request[p][u] # "None"
  /\ request' = [request EXCEPT ![p][u] = s]
  /\ UNCHANGED <<owner, role>>

Next ==
  \E p \in Projects, u \in Users :
    \/ CreateProject(p, u)
    \/ Ask(p, u)
    \/ Accept(p, u)
    \/ \E s \in Statuses : Decide(p, u, s)

Spec == Init /\ [][Next]_avars

-----------------------------------------------------------------------------
TypeOK ==
  /\ owner   \in [Projects -> Users \cup {NoUser}]
  /\ role    \in [Projects -> [Users -> Roles \cup {"None"}]]
  /\ request \in [Projects -> [Users -> Statuses \cup {"None"}]]

(* A request recorded as accepted belongs to a member: Respond writes both *)
(* rows in one transaction (core/requests/service.go:144-161).             *)
AcceptedIsMember ==
  \A p \in Projects, u \in Users :
    request[p][u] = "Accepted" => role[p][u] = "Member"

(* Every project that exists has exactly one Owner membership, held by its *)
(* owner_id, and a project id without a row has no members and no requests *)
(* (core/projects/service.go:60-76).                                       *)
ExactlyOneOwner ==
  \A p \in Projects, u \in Users :
    /\ role[p][u] = "Owner" <=> owner[p] = u
    /\ owner[p] = NoUser => role[p][u] = "None" /\ request[p][u] = "None"

(* A plain member always got in through a join request.                    *)
MemberHasRequest ==
  \A p \in Projects, u \in Users :
    role[p][u] = "Member" => request[p][u] # "None"

Consistent == AcceptedIsMember /\ ExactlyOneOwner /\ MemberHasRequest
=============================================================================
