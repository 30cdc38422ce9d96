--------------------------------- MODULE Pages ---------------------------------
(***************************************************************************)
(* The routes that show projects: ProjectApi.Get, ListMembers,             *)
(* ListJoinRequests, the four lists of projects, and the profile summary   *)
(* of UserApi.  A page is put together from several statements without a   *)
(* transaction, while the services of Admission.tla commit in between; a   *)
(* page that is shown may therefore mix several states of the tables.      *)
(*                                                                         *)
(* Pages change nothing, so one of them at a time is enough.               *)
(***************************************************************************)
EXTENDS Admission, FiniteSets, Integers

CONSTANT
  Nothing    (* no page is being made                                        *)

VARIABLE
  page       (* the page one viewer is being served                          *)

(* What the next statement of the handler is, then what is shown.          *)
Making == {"readRole", "countMembers", "readStatus", "listMembers",
           "listRequests", "countProjects"}
Shown  == {"detail", "public", "members", "requests", "profile"}

(* role, count, status and rows are what the statements have returned.     *)
PageStates ==
  [pc : Making \cup Shown, viewer : Users, project : Projects,
   role : Roles \cup {"None"}, count : Nat, status : Statuses \cup {"None"},
   rows : [Users -> Roles \cup Statuses \cup {"None"}]]

ASSUME UsersAreFinite == IsFiniteSet(Users) /\ IsFiniteSet(Projects)
ASSUME NothingAssumption == Nothing \notin PageStates

pageVars == <<avars, page>>

PagesInit == Init /\ page = Nothing

-----------------------------------------------------------------------------
(* The queries.                                                            *)
MembersOf(p) == {u \in Users : role[p][u] # "None"}

(* ProjectRepository.List and Public.                                      *)
MyProjects(u) == {p \in Projects : role[p][u] # "None"}

(* Fault: the membership of the viewer is not looked at.                   *)
PublicProjects_AllOthers(u) ==
  {p \in Projects : owner[p] \notin {NoUser, u}}

PublicProjects(u) ==
  {p \in Projects : owner[p] \notin {NoUser, u} /\ role[p][u] = "None"}

(* RecentlyCreated and RecentlyJoined, of which the ten newest are shown.  *)
CreatedProjects(u) == {p \in Projects : owner[p] = u}
JoinedProjects(u)  == {p \in Projects : role[p][u] = "Member"}

-----------------------------------------------------------------------------
Open(u, p, pc) ==
  /\ page = Nothing
  /\ page' = [pc |-> pc, viewer |-> u, project |-> p, role |-> "None",
              count |-> 0, status |-> "None", rows |-> [v \in Users |-> "None"]]
  /\ UNCHANGED avars

(* GET /projects/{id}: the project and its owner's row are there.          *)
OpenProject(u, p) == owner[p] # NoUser /\ Open(u, p, "readRole")

(* Which page it will be is decided by the role alone.                     *)
ReadRole ==
  /\ page # Nothing /\ page.pc = "readRole"
  /\ LET r == role[page.project][page.viewer] IN
       page' = [page EXCEPT !.role = r,
                  !.pc = IF r = "None" THEN "readStatus" ELSE "countMembers"]
  /\ UNCHANGED avars

(* Fault: the owner is not counted.                                        *)
CountMembers_Joined ==
  /\ page # Nothing /\ page.pc = "countMembers"
  /\ page' = [page EXCEPT !.pc = "detail",
       !.count = Cardinality({u \in Users : role[page.project][u] = "Member"})]
  /\ UNCHANGED avars

(* Fault: the -1 that comes with an error is shown.                        *)
CountMembers_IgnoreError ==
  /\ page # Nothing /\ page.pc = "countMembers"
  /\ \E n \in {-1, Cardinality(MembersOf(page.project))} :
       page' = [page EXCEPT !.pc = "detail", !.count = n]
  /\ UNCHANGED avars

CountMembers ==
  /\ page # Nothing /\ page.pc = "countMembers"
  /\ page' = [page EXCEPT !.pc = "detail",
                          !.count = Cardinality(MembersOf(page.project))]
  /\ UNCHANGED avars

ReadStatus ==
  /\ page # Nothing /\ page.pc = "readStatus"
  /\ page' = [page EXCEPT !.pc = "public",
                          !.status = request[page.project][page.viewer]]
  /\ UNCHANGED avars

(* Fault: any member sees the requests.                                    *)
OpenRequests_AnyMember(u, p) ==
  role[p][u] # "None" /\ Open(u, p, "listRequests")

(* GET /projects/{id}/join-requests: NeedsToBeAnOwner, then the list.      *)
OpenRequests(u, p) == role[p][u] = "Owner" /\ Open(u, p, "listRequests")

ListRequests ==
  /\ page # Nothing /\ page.pc = "listRequests"
  /\ page' = [page EXCEPT !.pc = "requests", !.rows = request[page.project]]
  /\ UNCHANGED avars

(* GET /projects/{id}/members: NeedsToBeAMember, then the list.            *)
OpenMembers(u, p) == role[p][u] # "None" /\ Open(u, p, "listMembers")

ListMembers ==
  /\ page # Nothing /\ page.pc = "listMembers"
  /\ page' = [page EXCEPT !.pc = "members", !.rows = role[page.project]]
  /\ UNCHANGED avars

(* GET /profile: the user's own row, then how many members rows name them. *)
OpenProfile(u, p) == Open(u, p, "countProjects")

CountProjects ==
  /\ page # Nothing /\ page.pc = "countProjects"
  /\ page' = [page EXCEPT !.pc = "profile",
                          !.count = Cardinality(MyProjects(page.viewer))]
  /\ UNCHANGED avars

(* The viewer leaves a page, or a statement of it has failed.              *)
Leave ==
  /\ page # Nothing
  /\ page' = Nothing
  /\ UNCHANGED avars

PageStep ==
  \/ \E u \in Users, p \in Projects :
       \/ OpenProject(u, p) \/ OpenRequests(u, p) \/ OpenMembers(u, p)
       \/ OpenProfile(u, p)
  \/ ReadRole \/ CountMembers \/ ReadStatus \/ ListRequests \/ ListMembers
  \/ CountProjects \/ Leave

PagesNext == (Next /\ UNCHANGED page) \/ PageStep

PagesSpec == PagesInit /\ [][PagesNext]_pageVars

-----------------------------------------------------------------------------
PagesTypeOK == TypeOK /\ page \in PageStates \cup {Nothing}

Showing(pcs) == page # Nothing /\ page.pc \in pcs

(* The member's page of a project (api/project.go:195-221) shows the role  *)
(* the viewer still has, and its count, taken by a later statement,        *)
(* includes the owner and the viewer and is never more than have joined;   *)
(* the projects counted on a profile are still the user's own.             *)
MemberPageIsTrue ==
  /\ Showing({"detail"}) =>
       /\ page.role = role[page.project][page.viewer]
       /\ page.role # "None"
       /\ page.count >= IF page.role = "Owner" THEN 1 ELSE 2
       /\ page.count <= Cardinality(MembersOf(page.project))
  /\ Showing({"profile"}) =>
       page.count <= Cardinality(MyProjects(page.viewer))

(* Nobody is shown the public page of their own project, not even while it *)
(* is being created; and a page that says Accepted, although it was        *)
(* decided earlier that the viewer is no member (api/project.go:200-238),  *)
(* is shown to somebody who is one by then.                                *)
PublicPageIsTrue ==
  Showing({"public"}) =>
    /\ owner[page.project] # page.viewer
    /\ page.status = "Accepted" => role[page.project][page.viewer] = "Member"
    /\ page.status # "None" => request[page.project][page.viewer] # "None"

(* The list of members is as good when it is shown as when it was read:    *)
(* it names the owner and the viewer, and nobody who is not a member with  *)
(* that role; the list of requests is shown to the owner, and who is       *)
(* listed as accepted is a member.  Both checks were made a statement      *)
(* before the list (core/members/service.go:63, core/requests/service.go   *)
(* :72).                                                                   *)
ListsAreTrue ==
  LET p == page.project
      u == page.viewer
  IN /\ Showing({"members"}) =>
          /\ page.rows[owner[p]] = "Owner" /\ page.rows[u] # "None"
          /\ \A v \in Users : page.rows[v] # "None" => page.rows[v] = role[p][v]
     /\ Showing({"requests"}) =>
          /\ owner[p] = u
          /\ \A v \in Users :
               page.rows[v] = "Accepted" => role[p][v] = "Member"

(* Whoever looks finds every project that exists in exactly one of their   *)
(* own list and the public one, and their own list on the dashboard as     *)
(* created or joined: the queries go by owner_id and by the members rows,  *)
(* which have to agree (core/projects/repository.go:135-223).              *)
EveryProjectIsListedOnce ==
  \A u \in Users, p \in Projects :
    /\ owner[p] # NoUser <=> p \in MyProjects(u) \cup PublicProjects(u)
    /\ p \notin MyProjects(u) \cap PublicProjects(u)
    /\ p \in MyProjects(u) <=> p \in CreatedProjects(u) \cup JoinedProjects(u)
    /\ p \notin CreatedProjects(u) \cap JoinedProjects(u)

-----------------------------------------------------------------------------
(* What the first statement of a page has found stays true until it is     *)
(* shown.                                                                  *)
PageIsFounded ==
  LET p == page.project
      u == page.viewer
  IN /\ Showing({"readRole", "readStatus", "public"}) => owner[p] # NoUser
     /\ Showing({"readStatus", "public"}) => owner[p] # u
     /\ Showing({"countMembers"}) =>
          page.role = role[p][u] /\ page.role # "None"
     /\ Showing({"listMembers"}) => role[p][u] # "None"
     /\ Showing({"listRequests"}) => role[p][u] = "Owner"

PagesInv ==
  /\ PagesTypeOK /\ Consistent /\ PageIsFounded
  /\ MemberPageIsTrue /\ PublicPageIsTrue /\ ListsAreTrue
=============================================================================
