------------------------------ MODULE EditsProofs ------------------------------
(* Proofs about the pages and the edits: what a page has read stays true    *)
(* until it is shown because the tables of Admission only grow, and what a  *)
(* call may write is settled when it starts.                                *)
EXTENDS Edits, AdmissionProofs, FiniteSetTheorems

-----------------------------------------------------------------------------
(* The tables only grow: owners and roles stay, requests are answered but   *)
(* never withdrawn.                                                         *)
Grows ==
  \A p \in Projects, u \in Users :
    /\ owner[p] # NoUser => owner'[p] = owner[p]
    /\ role[p][u] # "None" => role'[p][u] = role[p][u]
    /\ request[p][u] # "None" => request'[p][u] # "None"

LEMMA AdmissionGrows == TypeOK /\ Consistent /\ [Next]_avars => Grows
  <1> SUFFICES ASSUME TypeOK, Consistent, [Next]_avars PROVE Grows
    OBVIOUS
  <1> USE DEF TypeOK, Grows, Statuses, Roles
  <1>1. ASSUME NEW p \in Projects, NEW u \in Users, CreateProject(p, u)
        PROVE  Grows
    BY <1>1 DEF CreateProject, Consistent, ExactlyOneOwner
  <1>2. ASSUME NEW p \in Projects, NEW u \in Users, Ask(p, u)
        PROVE  Grows
    BY <1>2 DEF Ask
  <1>3. ASSUME NEW p \in Projects, NEW u \in Users, Accept(p, u)
        PROVE  Grows
    BY <1>3 DEF Accept
  <1>4. ASSUME NEW p \in Projects, NEW u \in Users, NEW s \in Statuses,
               Decide(p, u, s)
        PROVE  Grows
    BY <1>4 DEF Decide
  <1>5. CASE UNCHANGED avars
    BY <1>5 DEF avars
  <1>6. QED
    BY <1>1, <1>2, <1>3, <1>4, <1>5 DEF Next

(* The sets that pages count are finite.                                    *)
LEMMA CountsAreNumbers ==
  ASSUME NEW p \in Projects, NEW u \in Users
  PROVE  /\ IsFiniteSet(MembersOf(p)) /\ Cardinality(MembersOf(p)) \in Nat
         /\ IsFiniteSet(MyProjects(u)) /\ Cardinality(MyProjects(u)) \in Nat
  <1>1. MembersOf(p) \in SUBSET Users /\ MyProjects(u) \in SUBSET Projects
    BY DEF MembersOf, MyProjects
  <1>2. IsFiniteSet(MembersOf(p)) /\ IsFiniteSet(MyProjects(u))
    BY <1>1, UsersAreFinite, FS_Subset
  <1>3. QED
    BY <1>2, FS_CardinalityType

(* Two members are counted as two.                                          *)
LEMMA TwoAreCounted ==
  ASSUME NEW p \in Projects, NEW u \in MembersOf(p), NEW v \in MembersOf(p), u # v
  PROVE  Cardinality(MembersOf(p)) >= 2
  <1>1. u \in Users
    BY DEF MembersOf
  <1>2. IsFiniteSet(MembersOf(p)) /\ Cardinality(MembersOf(p)) \in Nat
    BY <1>1, CountsAreNumbers
  <1>3. IsFiniteSet({u}) /\ Cardinality({u}) = 1
    BY FS_Singleton
  <1>4. IsFiniteSet({u} \cup {v}) /\ Cardinality({u} \cup {v}) = 2
    <2>1. v \notin {u}
      OBVIOUS
    <2>2. Cardinality({u} \cup {v}) = Cardinality({u}) + 1
      BY <1>3, <2>1, FS_AddElement, Zenon
    <2>3. QED
      BY <1>3, <2>2, FS_AddElement
  <1>5. Cardinality({u} \cup {v}) <= Cardinality(MembersOf(p))
    BY <1>2, FS_Subset
  <1>6. QED
    BY <1>2, <1>4, <1>5

(* The counts of later states are at least those of earlier ones.           *)
LEMMA CountsGrow ==
  ASSUME TypeOK, Grows, NEW p \in Projects, NEW u \in Users
  PROVE  /\ Cardinality(MembersOf(p)) <= Cardinality(MembersOf(p)')
         /\ Cardinality(MyProjects(u)) <= Cardinality(MyProjects(u)')
  <1>1. MembersOf(p)' \in SUBSET Users /\ MyProjects(u)' \in SUBSET Projects
    BY DEF MembersOf, MyProjects
  <1>2. IsFiniteSet(MembersOf(p)') /\ IsFiniteSet(MyProjects(u)')
    BY <1>1, UsersAreFinite, FS_Subset
  <1>3. MembersOf(p) \in SUBSET (MembersOf(p)')
    BY DEF MembersOf, Grows
  <1>4. MyProjects(u) \in SUBSET (MyProjects(u)')
    BY DEF MyProjects, Grows
  <1>5. QED
    BY <1>2, <1>3, <1>4, FS_Subset

-----------------------------------------------------------------------------
LEMMA PagesInvInit == PagesInit => PagesInv
  BY AdmissionTypeInit, ConsistentInit
     DEF PagesInit, PagesInv, PagesTypeOK, PageIsFounded, Showing,
         MemberPageIsTrue, PublicPageIsTrue, ListsAreTrue

(* While a page is in the making or on the screen, the services commit.     *)
LEMMA PagesOutliveAdmissions ==
  ASSUME PagesInv, [Next]_avars, UNCHANGED page
  PROVE  PagesInv'
  <1> USE DEF PagesInv
  <1>1. TypeOK' /\ Consistent' /\ Grows
    BY AdmissionTypeStep, ConsistentStep, AdmissionGrows DEF PagesTypeOK
  <1>2. PagesTypeOK'
    BY <1>1 DEF PagesTypeOK
  <1>3. CASE page = Nothing
    BY <1>1, <1>2, <1>3
       DEF PageIsFounded, Showing, MemberPageIsTrue, PublicPageIsTrue, ListsAreTrue
  <1>4. CASE page # Nothing
    <2>1. page \in PageStates
      BY <1>4 DEF PagesTypeOK
    <2> DEFINE p == page.project
               u == page.viewer
    <2>2. p \in Projects /\ u \in Users /\ page.count \in Nat
          /\ page.rows \in [Users -> Roles \cup Statuses \cup {"None"}]
      BY <2>1 DEF PageStates
    <2>3. p' = p /\ u' = u
      OBVIOUS
    <2>4. PageIsFounded'
      BY <1>1, <2>2 DEF Grows, PageIsFounded, Showing
    <2>5. MemberPageIsTrue'
      <3>1. /\ Cardinality(MembersOf(p)) <= Cardinality(MembersOf(p)')
            /\ Cardinality(MyProjects(u)) <= Cardinality(MyProjects(u)')
        BY <1>1, <2>2, CountsGrow DEF PagesTypeOK
      <3>2. Cardinality(MembersOf(p)) \in Nat /\ Cardinality(MyProjects(u)) \in Nat
        BY <2>2, CountsAreNumbers
      <3>3. Cardinality(MembersOf(p)') \in Nat /\ Cardinality(MyProjects(u)') \in Nat
        <4>1. MembersOf(p)' \in SUBSET Users /\ MyProjects(u)' \in SUBSET Projects
          BY DEF MembersOf, MyProjects
        <4>2. QED
          BY <4>1, UsersAreFinite, FS_Subset, FS_CardinalityType
      <3>4. CASE Showing({"detail"})
        <4>1. /\ page.role = role[p][u] /\ page.role # "None"
              /\ page.count >= IF page.role = "Owner" THEN 1 ELSE 2
              /\ page.count <= Cardinality(MembersOf(p))
          BY <3>4 DEF MemberPageIsTrue
        <4>2. page.role = role'[p][u]
          BY <4>1, <1>1, <2>2 DEF Grows
        <4>3. page.count <= Cardinality(MembersOf(p)')
          BY <4>1, <3>1, <3>2, <3>3, <2>2
        <4>4. QED
          BY <3>4, <4>1, <4>2, <4>3 DEF MemberPageIsTrue, Showing
      <3>5. CASE Showing({"profile"})
        <4>1. page.count <= Cardinality(MyProjects(u))
          BY <3>5 DEF MemberPageIsTrue
        <4>2. page.count <= Cardinality(MyProjects(u)')
          BY <4>1, <3>1, <3>2, <3>3, <2>2
        <4>3. QED
          BY <3>5, <4>2 DEF MemberPageIsTrue, Showing
      <3>6. CASE ~Showing({"detail"}) /\ ~Showing({"profile"})
        BY <3>6 DEF MemberPageIsTrue, Showing
      <3>7. QED
        BY <3>4, <3>5, <3>6
    <2>6. PublicPageIsTrue'
      BY <1>1, <2>2 DEF Grows, PublicPageIsTrue, PageIsFounded, Showing
    <2>7. ListsAreTrue'
      <3>1. CASE Showing({"members"})
        <4>1. /\ page.rows[owner[p]] = "Owner" /\ page.rows[u] # "None"
              /\ \A v \in Users : page.rows[v] # "None" => page.rows[v] = role[p][v]
          BY <3>1 DEF ListsAreTrue
        <4>2. owner[p] # NoUser
          BY <4>1, <2>2, <1>1 DEF Consistent, ExactlyOneOwner
        <4>3. owner'[p] = owner[p]
          BY <4>2, <1>1, <2>2 DEF Grows
        <4>4. \A v \in Users : page.rows[v] # "None" => page.rows[v] = role'[p][v]
          BY <4>1, <1>1, <2>2 DEF Grows
        <4>5. QED
          BY <3>1, <4>1, <4>3, <4>4 DEF ListsAreTrue, Showing
      <3>2. CASE Showing({"requests"})
        <4>1. /\ owner[p] = u
              /\ \A v \in Users : page.rows[v] = "Accepted" => role[p][v] = "Member"
          BY <3>2 DEF ListsAreTrue
        <4>2. owner'[p] = u
          BY <4>1, <1>1, <2>2, NoUserAssumption DEF Grows
        <4>3. \A v \in Users : page.rows[v] = "Accepted" => role'[p][v] = "Member"
          BY <4>1, <1>1, <2>2 DEF Grows
        <4>4. QED
          BY <3>2, <4>2, <4>3 DEF ListsAreTrue, Showing
      <3>3. CASE ~Showing({"members"}) /\ ~Showing({"requests"})
        BY <3>3 DEF ListsAreTrue, Showing
      <3>4. QED
        BY <3>1, <3>2, <3>3
    <2>8. QED
      BY <1>1, <1>2, <2>4, <2>5, <2>6, <2>7
  <1>5. QED
    BY <1>3, <1>4
(* A page is begun with nothing but what its first check has found.         *)
LEMMA OpenKeepsInv ==
  ASSUME PagesInv, NEW u \in Users, NEW p \in Projects,
         NEW pc \in Making, Open(u, p, pc),
         pc = "readRole" => owner[p] # NoUser,
         pc \notin {"countMembers", "readStatus"},
         pc = "listMembers" => role[p][u] # "None",
         pc = "listRequests" => role[p][u] = "Owner"
  PROVE  PagesInv'
  <1> USE DEF PagesInv
  <1>1. UNCHANGED avars /\ UNCHANGED <<owner, role, request>>
    BY DEF Open, avars
  <1>2. /\ page' \in PageStates
        /\ page'.pc = pc /\ page'.viewer = u /\ page'.project = p
    BY DEF Open, PageStates, Making, Shown
  <1>3. TypeOK' /\ Consistent'
    BY <1>1, AdmissionTypeStep, ConsistentStep DEF PagesTypeOK
  <1>4. pc \notin Shown
    BY DEF Making, Shown
  <1>5. PageIsFounded'
    BY <1>1, <1>2, <1>4 DEF PageIsFounded, Showing, Shown
  <1>6. MemberPageIsTrue' /\ PublicPageIsTrue' /\ ListsAreTrue'
    BY <1>2, <1>4 DEF MemberPageIsTrue, PublicPageIsTrue, ListsAreTrue, Showing, Shown
  <1>7. QED
    BY <1>2, <1>3, <1>5, <1>6 DEF PagesTypeOK

LEMMA PageStepKeepsInv ==
  ASSUME PagesInv, PageStep
  PROVE  PagesInv'
  <1> USE DEF PagesInv
  <1>1. ASSUME NEW u \in Users, NEW p \in Projects,
               \/ OpenProject(u, p) \/ OpenRequests(u, p)
               \/ OpenMembers(u, p) \/ OpenProfile(u, p)
        PROVE  PagesInv'
    <2>1. CASE OpenProject(u, p)
      BY <2>1, OpenKeepsInv DEF OpenProject, Making
    <2>2. CASE OpenRequests(u, p)
      BY <2>2, OpenKeepsInv DEF OpenRequests, Making
    <2>3. CASE OpenMembers(u, p)
      BY <2>3, OpenKeepsInv DEF OpenMembers, Making
    <2>4. CASE OpenProfile(u, p)
      BY <2>4, OpenKeepsInv DEF OpenProfile, Making
    <2>5. QED
      BY <1>1, <2>1, <2>2, <2>3, <2>4
  <1>2. CASE Leave
    <2>1. UNCHANGED avars /\ page' = Nothing
      BY <1>2 DEF Leave
    <2>2. TypeOK' /\ Consistent'
      BY <2>1, AdmissionTypeStep, ConsistentStep DEF PagesTypeOK
    <2>3. QED
      BY <2>1, <2>2 DEF PagesTypeOK, PageIsFounded, Showing, MemberPageIsTrue,
                        PublicPageIsTrue, ListsAreTrue
  <1>3. CASE \/ ReadRole \/ CountMembers \/ ReadStatus \/ ListRequests
             \/ ListMembers \/ CountProjects
    <2>1. UNCHANGED avars /\ UNCHANGED <<owner, role, request>> /\ page # Nothing
      BY <1>3 DEF ReadRole, CountMembers, ReadStatus, ListRequests, ListMembers,
                  CountProjects, avars
    <2>2. TypeOK' /\ Consistent'
      BY <2>1, AdmissionTypeStep, ConsistentStep DEF PagesTypeOK
    <2> DEFINE p == page.project
               u == page.viewer
    <2>3. page \in PageStates /\ p \in Projects /\ u \in Users
      BY <2>1 DEF PagesTypeOK, PageStates
    <2>4. /\ role[p] \in [Users -> Roles \cup {"None"}]
          /\ request[p] \in [Users -> Statuses \cup {"None"}]
          /\ role[p][u] \in Roles \cup {"None"}
          /\ request[p][u] \in Statuses \cup {"None"}
      BY <2>3 DEF PagesTypeOK, TypeOK
    <2>5. /\ Cardinality(MembersOf(p)) \in Nat
          /\ Cardinality(MyProjects(u)) \in Nat
      BY <2>3, CountsAreNumbers
    <2>6. /\ role[p][u] = "Owner" <=> owner[p] = u
          /\ request[p][u] = "Accepted" => role[p][u] = "Member"
          /\ owner[p] = NoUser => role[p][u] = "None"
          /\ \A v \in Users : request[p][v] = "Accepted" => role[p][v] = "Member"
      BY <2>3 DEF Consistent, ExactlyOneOwner, AcceptedIsMember
    <2>7. CASE ReadRole
      <3> DEFINE pc == IF role[p][u] = "None" THEN "readStatus" ELSE "countMembers"
      <3>1. page' = [page EXCEPT !.role = role[p][u], !.pc = pc]
        BY <2>7 DEF ReadRole
      <3>2. /\ page' \in PageStates /\ page'.pc = pc /\ page'.project = p
            /\ page'.viewer = u /\ page'.role = role[p][u]
        BY <3>1, <2>3, <2>4 DEF PageStates, Making
      <3>3. owner[p] # NoUser
        BY <2>7 DEF ReadRole, PageIsFounded, Showing
      <3>4. PagesTypeOK' /\ PageIsFounded'
        BY <2>1, <2>2, <2>6, <3>2, <3>3 DEF PagesTypeOK, PageIsFounded, Showing
      <3>5. MemberPageIsTrue' /\ PublicPageIsTrue' /\ ListsAreTrue'
        BY <3>2 DEF Showing, MemberPageIsTrue, PublicPageIsTrue, ListsAreTrue
      <3>6. QED
        BY <2>2, <3>4, <3>5
    <2>8. CASE CountMembers
      <3>1. page.role = role[p][u] /\ page.role # "None"
        BY <2>8 DEF CountMembers, PageIsFounded, Showing
      <3>2. Cardinality(MembersOf(p)) >= IF page.role = "Owner" THEN 1 ELSE 2
        <4>1. u \in MembersOf(p)
          BY <2>3, <3>1 DEF MembersOf
        <4>2. CASE page.role = "Owner"
          <5>1. IsFiniteSet(MembersOf(p)) /\ Cardinality(MembersOf(p)) # 0
            BY <4>1, <2>3, CountsAreNumbers, FS_EmptySet
          <5>2. QED
            BY <4>2, <5>1, <2>5
        <4>3. CASE page.role # "Owner"
          <5>1. owner[p] # NoUser /\ owner[p] # u
            BY <2>6, <3>1, <4>3
          <5>2. owner[p] \in Users
            BY <5>1, <2>3 DEF PagesTypeOK, TypeOK
          <5>3. owner[p] \in MembersOf(p)
            BY <5>2, <2>3 DEF MembersOf, Consistent, ExactlyOneOwner
          <5>4. QED
            BY <4>1, <4>3, <5>1, <5>3, <2>3, TwoAreCounted
        <4>4. QED
          BY <4>2, <4>3
      <3>3. page' = [page EXCEPT !.pc = "detail", !.count = Cardinality(MembersOf(p))]
        BY <2>8 DEF CountMembers
      <3>4. page' \in PageStates /\ page'.pc = "detail" /\ page'.project = p
            /\ page'.viewer = u /\ page'.role = page.role
            /\ page'.count = Cardinality(MembersOf(p))
        BY <3>3, <2>3, <2>5 DEF PageStates, Shown
      <3>5. PagesTypeOK' /\ PageIsFounded'
        BY <3>4, <2>2 DEF PagesTypeOK, PageIsFounded, Showing
      <3>6. MemberPageIsTrue'
        <4>1. page'.role = role'[page'.project][page'.viewer] /\ page'.role # "None"
          BY <3>1, <3>4, <2>1
        <4>2. page'.count >= IF page'.role = "Owner" THEN 1 ELSE 2
          BY <3>2, <3>4
        <4>3. MembersOf(page.project)' = MembersOf(p)
          BY <3>4, <2>1 DEF MembersOf
        <4>4. page'.count <= Cardinality(MembersOf(page.project)')
          BY <3>4, <4>3, <2>5
        <4>5. QED
          BY <4>1, <4>2, <4>4, <3>4 DEF MemberPageIsTrue, Showing
      <3>7. PublicPageIsTrue' /\ ListsAreTrue'
        BY <3>4 DEF PublicPageIsTrue, ListsAreTrue, Showing
      <3>8. QED
        BY <2>2, <3>5, <3>6, <3>7
    <2>9. CASE ReadStatus
      BY <2>1, <2>2, <2>3, <2>4, <2>6, <2>9
         DEF ReadStatus, PagesTypeOK, PageStates, Shown, PageIsFounded,
             Showing, MemberPageIsTrue, PublicPageIsTrue, ListsAreTrue
    <2>10. CASE ListRequests
      <3>1. page' = [page EXCEPT !.pc = "requests", !.rows = request[p]]
        BY <2>10 DEF ListRequests
      <3>2. /\ page' \in PageStates /\ page'.pc = "requests" /\ page'.project = p
            /\ page'.viewer = u /\ page'.rows = request[p]
        BY <3>1, <2>3, <2>4 DEF PageStates, Shown
      <3>3. role[p][u] = "Owner"
        BY <2>10 DEF ListRequests, PageIsFounded, Showing
      <3>4. QED
        BY <2>1, <2>2, <2>3, <2>6, <3>2, <3>3
           DEF PagesTypeOK, PageIsFounded, Showing, MemberPageIsTrue,
               PublicPageIsTrue, ListsAreTrue
    <2>11. CASE ListMembers
      <3>1. page' = [page EXCEPT !.pc = "members", !.rows = role[p]]
        BY <2>11 DEF ListMembers
      <3>2. /\ page' \in PageStates /\ page'.pc = "members" /\ page'.project = p
            /\ page'.viewer = u /\ page'.rows = role[p]
        BY <3>1, <2>3, <2>4 DEF PageStates, Shown
      <3>3. role[p][u] # "None"
        BY <2>11 DEF ListMembers, PageIsFounded, Showing
      <3>4. role[p][owner[p]] = "Owner"
        <4>1. owner[p] \in Users
          BY <2>3, <2>6, <3>3 DEF PagesTypeOK, TypeOK
        <4>2. QED
          BY <4>1, <2>3 DEF Consistent, ExactlyOneOwner
      <3>5. QED
        BY <2>1, <2>2, <2>3, <3>2, <3>3, <3>4
           DEF PagesTypeOK, PageIsFounded, Showing, MemberPageIsTrue,
               PublicPageIsTrue, ListsAreTrue
    <2>12. CASE CountProjects
      <3>1. page' = [page EXCEPT !.pc = "profile", !.count = Cardinality(MyProjects(u))]
        BY <2>12 DEF CountProjects
      <3>2. /\ page' \in PageStates /\ page'.pc = "profile" /\ page'.viewer = u
            /\ page'.count = Cardinality(MyProjects(u))
        BY <3>1, <2>3, <2>5 DEF PageStates, Shown
      <3>3. MyProjects(page.viewer)' = MyProjects(u)
        BY <3>2, <2>1 DEF MyProjects
      <3>4. QED
        BY <2>2, <2>5, <3>2, <3>3
           DEF PagesTypeOK, PageIsFounded, Showing, MemberPageIsTrue,
               PublicPageIsTrue, ListsAreTrue
    <2>13. QED
      BY <1>3, <2>7, <2>8, <2>9, <2>10, <2>11, <2>12
  <1>4. QED
    BY <1>1, <1>2, <1>3 DEF PageStep

LEMMA PagesInvStep == PagesInv /\ [PagesNext]_pageVars => PagesInv'
  <1> SUFFICES ASSUME PagesInv, [PagesNext]_pageVars PROVE PagesInv'
    OBVIOUS
  <1>1. CASE PageStep
    BY <1>1, PageStepKeepsInv
  <1>2. CASE [Next]_avars /\ UNCHANGED page
    BY <1>2, PagesOutliveAdmissions
  <1>3. QED
    BY <1>1, <1>2 DEF PagesNext, pageVars

(* Owners and roles stay also while pages are served.                       *)
LEMMA PagesGrow == PagesInv /\ [PagesNext]_pageVars => Grows
  <1> SUFFICES ASSUME PagesInv, [PagesNext]_pageVars PROVE Grows
    OBVIOUS
  <1>1. [Next]_avars
    BY DEF PagesNext, pageVars, PageStep, OpenProject, OpenRequests, OpenMembers,
           OpenProfile, Open, ReadRole, CountMembers, ReadStatus, ListRequests,
           ListMembers, CountProjects, Leave
  <1>2. QED
    BY <1>1, AdmissionGrows DEF PagesInv, PagesTypeOK
-----------------------------------------------------------------------------
(* The edits.                                                               *)
LEMMA EditsInvInit == EditsInit => EditsInv
  <1> SUFFICES ASSUME EditsInit PROVE EditsInv
    OBVIOUS
  <1> USE DEF EditsInit
  <1>1. PagesInv
    BY PagesInvInit
  <1>2. \A r \in RowIds : FirstRow(r) \in Rows
    BY DEF FirstRow, Rows, Words
  <1>3. EditsTypeOK
    BY <1>1, <1>2, EditsAssumption DEF EditsTypeOK, PagesInv
  <1>4. EditIsAllowed
    BY DEF EditIsAllowed, Doing
  <1>5. NamesAreDistinct
    <2>1. \A u \in Users : row[u]["name"] = u
      BY DEF FirstRow, RowIds, Fields
    <2>2. QED
      BY <2>1 DEF NamesAreDistinct
  <1>6. QED
    BY <1>1, <1>3, <1>4, <1>5 DEF EditsInv

(* What is known of a call in flight.                                       *)
LEMMA EditTyping ==
  ASSUME EditsTypeOK, NEW h \in Editors, edit[h] # NoEdit
  PROVE  /\ edit[h] \in EditCalls \cup Uploads
         /\ edit[h].pc \in {"readRow", "saveRow"} => edit[h] \in EditCalls
         /\ edit[h].pc \in {"createDocument", "readUser"} => edit[h] \in Uploads
  BY DEF EditsTypeOK, EditCalls, Uploads

(* What a slot may hold for the invariant: the parts about calls in flight. *)
CallIsSound(c) ==
  /\ c.pc = "saveRow" => c.copy # NoRow
  /\ c.pc = "readRow" => c.target \in Projects
  /\ c.pc \in {"readRow", "saveRow"} =>
       /\ c.target \in Users => c.target = c.caller
       /\ c.target \in Projects => role[c.target][c.caller] = "Owner"

LEMMA CallsAreSound ==
  EditIsAllowed <=> \A h \in Editors : edit[h] # NoEdit => CallIsSound(edit[h])
  BY DEF EditIsAllowed, CallIsSound, Doing

(* A step of a call that leaves the tables of the pages alone, and puts a   *)
(* sound call or none into its slot.                                        *)
LEMMA EditStepKeepsInv ==
  ASSUME EditsInv, NEW h \in Editors, UNCHANGED pageVars,
         NEW c \in EditCalls \cup Uploads \cup {NoEdit},
         edit' = [edit EXCEPT ![h] = c],
         c # NoEdit => CallIsSound(c)',
         row' \in [RowIds -> Rows], NamesAreDistinct',
         objects' \subseteq Types,
         documents' \subseteq [user : Users, file : Files, type : Types],
         edits' \in 0..MaxEdits
  PROVE  EditsInv'
  <1> USE DEF EditsInv
  <1>1. UNCHANGED avars /\ UNCHANGED page /\ UNCHANGED <<owner, role, request>>
    BY DEF pageVars, avars
  <1>2. PagesInv'
    BY <1>1, PagesInvStep DEF pageVars
  <1>3. /\ edit' \in [Editors -> EditCalls \cup Uploads \cup {NoEdit}]
        /\ edit'[h] = c
        /\ \A g \in Editors \ {h} : edit'[g] = edit[g]
    BY DEF EditsTypeOK
  <1>4. EditsTypeOK'
    BY <1>2, <1>3 DEF EditsTypeOK, PagesInv
  <1>5. ASSUME NEW g \in Editors, edit'[g] # NoEdit
        PROVE  CallIsSound(edit[g])'
    <2>1. CASE g = h
      BY <1>3, <1>5, <2>1 DEF CallIsSound
    <2>2. CASE g # h
      <3>1. edit'[g] = edit[g] /\ CallIsSound(edit[g])
        BY <1>3, <1>5, <2>2, CallsAreSound
      <3>2. QED
        BY <3>1, <1>1 DEF CallIsSound
    <2>3. QED
      BY <2>1, <2>2
  <1>6. EditIsAllowed'
    BY <1>5 DEF EditIsAllowed, CallIsSound, Doing
  <1>7. QED
    BY <1>2, <1>4, <1>6

(* The calls begin.                                                         *)
LEMMA BeginKeepsInv ==
  ASSUME EditsInv, NEW h \in Editors, NEW c \in EditCalls \cup Uploads,
         Begin(h, c), CallIsSound(c)', UNCHANGED <<row, documents>>,
         objects' \subseteq Types
  PROVE  EditsInv'
  <1>1. /\ edit' = [edit EXCEPT ![h] = c] /\ UNCHANGED pageVars
        /\ edits' \in 0..MaxEdits
    BY EditsAssumption DEF Begin, EditsInv, EditsTypeOK
  <1>2. row' \in [RowIds -> Rows] /\ NamesAreDistinct'
        /\ documents' \subseteq [user : Users, file : Files, type : Types]
    BY DEF EditsInv, EditsTypeOK, NamesAreDistinct
  <1>3. QED
    BY <1>1, <1>2, EditStepKeepsInv

LEMMA EditProfileKeepsInv ==
  ASSUME EditsInv, NEW h \in Editors, NEW u \in Users, NEW fields \in SUBSET Fields,
         NEW v \in Values, EditProfile(h, u, fields, v)
  PROVE  EditsInv'
  <1> DEFINE c == [pc |-> "saveRow", caller |-> u, target |-> u,
                   fields |-> fields, value |-> v, copy |-> row[u]]
  <1>1. Begin(h, c) /\ UNCHANGED <<row, objects, documents>>
    BY DEF EditProfile
  <1>2. row[u] \in Rows /\ row[u] # NoRow
    BY EditsAssumption DEF EditsInv, EditsTypeOK, RowIds
  <1>3. c \in EditCalls
    BY <1>2 DEF EditCalls, RowIds, Words
  <1>4. CallIsSound(c)'
    BY <1>2, <1>1, EditsAssumption DEF CallIsSound
  <1>5. QED
    BY <1>1, <1>3, <1>4, BeginKeepsInv DEF EditsInv, EditsTypeOK

LEMMA EditProjectKeepsInv ==
  ASSUME EditsInv, NEW h \in Editors, NEW p \in Projects, NEW u \in Users,
         NEW fields \in SUBSET Fields, NEW v \in Values,
         EditProject(h, p, u, fields, v)
  PROVE  EditsInv'
  <1> DEFINE c == [pc |-> "readRow", caller |-> u, target |-> p,
                   fields |-> fields, value |-> v, copy |-> NoRow]
  <1>1. Begin(h, c) /\ UNCHANGED <<row, objects, documents>> /\ role[p][u] = "Owner"
    BY DEF EditProject, MayEdit
  <1>2. UNCHANGED role
    BY <1>1 DEF Begin, pageVars, avars
  <1>3. c \in EditCalls
    BY DEF EditCalls, RowIds, Words
  <1>4. CallIsSound(c)'
    BY <1>1, <1>2, EditsAssumption DEF CallIsSound
  <1>5. QED
    BY <1>1, <1>3, <1>4, BeginKeepsInv DEF EditsInv, EditsTypeOK

LEMMA MarkAsReadKeepsInv ==
  ASSUME EditsInv, NEW h \in Editors, NEW u \in Users, NEW n \in Messages,
         MarkAsRead(h, u, n)
  PROVE  EditsInv'
  <1> DEFINE c == [pc |-> "saveRow", caller |-> u, target |-> n,
                   fields |-> {"read"}, value |-> "yes", copy |-> row[n]]
  <1>1. Begin(h, c) /\ UNCHANGED <<row, objects, documents>>
    BY DEF MarkAsRead
  <1>2. row[n] \in Rows /\ row[n] # NoRow
    BY EditsAssumption DEF EditsInv, EditsTypeOK, RowIds
  <1>3. c \in EditCalls
    BY <1>2 DEF EditCalls, RowIds, Words, Fields
  <1>4. CallIsSound(c)'
    BY <1>2, <1>1, EditsAssumption DEF CallIsSound
  <1>5. QED
    BY <1>1, <1>3, <1>4, BeginKeepsInv DEF EditsInv, EditsTypeOK

LEMMA StoreObjectKeepsInv ==
  ASSUME EditsInv, NEW h \in Editors, NEW u \in Users, NEW f \in Files,
         NEW t \in Types, StoreObject(h, u, f, t)
  PROVE  EditsInv'
  <1> DEFINE c == [pc |-> "createDocument", caller |-> u, file |-> f, type |-> t]
  <1>1. Begin(h, c) /\ objects' = objects \cup {t} /\ UNCHANGED <<row, documents>>
    BY DEF StoreObject
  <1>2. c \in Uploads
    BY DEF Uploads
  <1>3. CallIsSound(c)'
    BY DEF CallIsSound
  <1>4. QED
    BY <1>1, <1>2, <1>3, BeginKeepsInv DEF EditsInv, EditsTypeOK

-----------------------------------------------------------------------------
(* The calls go on and end.                                                 *)
LEMMA DoneKeepsInv ==
  ASSUME EditsInv, NEW h \in Editors, Done(h),
         UNCHANGED <<pageVars, row, objects, documents, edits>>
  PROVE  EditsInv'
  <1>1. edit' = [edit EXCEPT ![h] = NoEdit] /\ UNCHANGED pageVars
    BY DEF Done
  <1>2. /\ row' \in [RowIds -> Rows] /\ NamesAreDistinct'
        /\ objects' \subseteq Types
        /\ documents' \subseteq [user : Users, file : Files, type : Types]
        /\ edits' \in 0..MaxEdits
    BY DEF EditsInv, EditsTypeOK, NamesAreDistinct
  <1>3. QED
    BY <1>1, <1>2, EditStepKeepsInv

LEMMA ReadRowKeepsInv ==
  ASSUME EditsInv, NEW h \in Editors, ReadRow(h)
  PROVE  EditsInv'
  <1>1. edit[h] # NoEdit /\ edit[h].pc = "readRow"
    BY DEF ReadRow, Doing
  <1>2. edit[h] \in EditCalls /\ CallIsSound(edit[h])
    BY <1>1, EditTyping, CallsAreSound DEF EditsInv
  <1>3. row[edit[h].target] \in Rows
    BY <1>2 DEF EditCalls, EditsInv, EditsTypeOK
  <1> DEFINE c == [edit[h] EXCEPT !.pc = "saveRow", !.copy = row[edit[h].target]]
  <1>4. /\ c \in EditCalls /\ c.pc = "saveRow" /\ c.copy # NoRow
        /\ c.target = edit[h].target /\ c.caller = edit[h].caller
    BY <1>2, <1>3, EditsAssumption DEF EditCalls
  <1>5. /\ edit' = [edit EXCEPT ![h] = c]
        /\ UNCHANGED <<pageVars, row, objects, documents, edits>>
    BY DEF ReadRow
  <1>6. UNCHANGED pageVars /\ UNCHANGED role
    BY <1>5 DEF pageVars, avars
  <1>7. CallIsSound(c)
    BY <1>1, <1>2, <1>4 DEF CallIsSound
  <1>8. PICK d \in EditCalls : d = c
    BY <1>4
  <1>9. edit' = [edit EXCEPT ![h] = d] /\ CallIsSound(d)'
    BY <1>5, <1>6, <1>7, <1>8 DEF CallIsSound
  <1>10. /\ row' \in [RowIds -> Rows] /\ NamesAreDistinct'
         /\ objects' \subseteq Types
         /\ documents' \subseteq [user : Users, file : Files, type : Types]
         /\ edits' \in 0..MaxEdits
    BY <1>5 DEF EditsInv, EditsTypeOK, NamesAreDistinct
  <1>11. QED
    BY <1>6, <1>9, <1>10, EditStepKeepsInv

(* What a call saves is a row, and its name is nobody else's.               *)
LEMMA SaveRowKeepsInv ==
  ASSUME EditsInv, NEW h \in Editors, SaveRow(h)
  PROVE  EditsInv'
  <1> DEFINE c == edit[h]
  <1>1. c # NoEdit /\ c.pc = "saveRow"
    BY DEF SaveRow, Doing
  <1>2. c \in EditCalls /\ c.copy \in Rows /\ c.target \in RowIds
    <2>1. c \in EditCalls /\ CallIsSound(c)
      BY <1>1, EditTyping, CallsAreSound DEF EditsInv
    <2>2. QED
      BY <1>1, <2>1 DEF CallIsSound, EditCalls
  <1>3. Saved(c) \in Rows
    BY <1>2 DEF Saved, Rows, EditCalls
  <1>4. row' = IF NameIsTaken(c) THEN row ELSE [row EXCEPT ![c.target] = Saved(c)]
    BY DEF SaveRow
  <1>5. row' \in [RowIds -> Rows]
    BY <1>2, <1>3, <1>4 DEF EditsInv, EditsTypeOK
  <1>6. NamesAreDistinct'
    <2>1. CASE NameIsTaken(c)
      BY <1>4, <2>1 DEF EditsInv, NamesAreDistinct
    <2>2. CASE ~NameIsTaken(c)
      <3>1. /\ row'[c.target] = Saved(c)
            /\ \A r \in RowIds \ {c.target} : row'[r] = row[r]
        BY <1>2, <1>4, <2>2 DEF EditsInv, EditsTypeOK
      <3>2. SUFFICES ASSUME NEW u \in Users, NEW v \in Users, u # v
                     PROVE  row'[u]["name"] # row'[v]["name"]
        BY DEF NamesAreDistinct
      <3>3. row[u]["name"] # row[v]["name"]
        BY <3>2 DEF EditsInv, NamesAreDistinct
      <3>4. CASE c.target = u
        BY <3>1, <3>2, <3>4, <2>2 DEF NameIsTaken, RowIds
      <3>5. CASE c.target = v
        BY <3>1, <3>2, <3>5, <2>2 DEF NameIsTaken, RowIds
      <3>6. CASE c.target # u /\ c.target # v
        BY <3>1, <3>3, <3>6 DEF RowIds
      <3>7. QED
        BY <3>4, <3>5, <3>6
    <2>3. QED
      BY <2>1, <2>2
  <1>7. edit' = [edit EXCEPT ![h] = NoEdit] /\ UNCHANGED pageVars
    BY DEF SaveRow, Done
  <1>8. /\ objects' \subseteq Types
        /\ documents' \subseteq [user : Users, file : Files, type : Types]
        /\ edits' \in 0..MaxEdits
    BY DEF SaveRow, EditsInv, EditsTypeOK
  <1>9. QED
    BY <1>5, <1>6, <1>7, <1>8, EditStepKeepsInv

LEMMA CreateDocumentKeepsInv ==
  ASSUME EditsInv, NEW h \in Editors, CreateDocument(h)
  PROVE  EditsInv'
  <1>1. edit[h] # NoEdit /\ edit[h].pc = "createDocument"
        /\ UNCHANGED <<pageVars, row, objects, edits>>
    BY DEF CreateDocument, Doing
  <1>2. edit[h] \in Uploads
    BY <1>1, EditTyping DEF EditsInv
  <1>3. CASE Done(h) /\ UNCHANGED documents
    BY <1>1, <1>3, DoneKeepsInv
  <1>4. CASE ~(Done(h) /\ UNCHANGED documents)
    <2> DEFINE d == [user |-> edit[h].caller, file |-> edit[h].file,
                     type |-> edit[h].type]
               c == [edit[h] EXCEPT !.pc = "readUser"]
    <2>1. documents' = documents \cup {d} /\ edit' = [edit EXCEPT ![h] = c]
      BY <1>4 DEF CreateDocument
    <2>2. d \in [user : Users, file : Files, type : Types]
      BY <1>2 DEF Uploads
    <2>3. c \in Uploads /\ c.pc = "readUser"
      BY <1>2 DEF Uploads
    <2>4. PICK e \in Uploads : e = c
      BY <2>3
    <2>5. CallIsSound(e)'
      BY <2>3, <2>4 DEF CallIsSound
    <2>6. documents' \subseteq [user : Users, file : Files, type : Types]
      BY <2>1, <2>2 DEF EditsInv, EditsTypeOK
    <2>7. /\ row' \in [RowIds -> Rows] /\ NamesAreDistinct'
          /\ objects' \subseteq Types
          /\ edits' \in 0..MaxEdits /\ UNCHANGED pageVars
      BY <1>1 DEF EditsInv, EditsTypeOK, NamesAreDistinct
    <2>8. QED
      BY <2>1, <2>4, <2>5, <2>6, <2>7, EditStepKeepsInv
  <1>5. QED
    BY <1>3, <1>4

-----------------------------------------------------------------------------
(* While the pages and the services take a step, calls in flight keep the   *)
(* roles they were let in for.                                              *)
LEMMA PagesStepKeepsEdits ==
  ASSUME EditsInv, [PagesNext]_pageVars, UNCHANGED editVars
  PROVE  EditsInv'
  <1> USE DEF EditsInv
  <1>1. PagesInv' /\ Grows
    BY PagesInvStep, PagesGrow
  <1>2. UNCHANGED <<row, objects, documents, edit, edits>>
    BY DEF editVars
  <1>3. EditsTypeOK'
    BY <1>1, <1>2 DEF EditsTypeOK, PagesInv
  <1>4. NamesAreDistinct'
    BY <1>2 DEF NamesAreDistinct
  <1>5. EditIsAllowed'
    <2> SUFFICES ASSUME NEW h \in Editors, edit[h] # NoEdit,
                        edit[h].pc \in {"readRow", "saveRow"},
                        edit[h].target \in Projects
                 PROVE  role'[edit[h].target][edit[h].caller] = "Owner"
      BY <1>2 DEF EditIsAllowed, Doing
    <2>1. edit[h].caller \in Users
      BY EditTyping DEF EditCalls
    <2>2. role[edit[h].target][edit[h].caller] = "Owner"
      BY DEF EditIsAllowed, Doing
    <2>3. QED
      BY <1>1, <2>1, <2>2 DEF Grows
  <1>6. QED
    BY <1>1, <1>3, <1>4, <1>5

LEMMA EditsInvStep == EditsInv /\ [EditsNext]_allVars => EditsInv'
  <1> SUFFICES ASSUME EditsInv, [EditsNext]_allVars PROVE EditsInv'
    OBVIOUS
  <1>1. CASE [PagesNext]_pageVars /\ UNCHANGED editVars
    BY <1>1, PagesStepKeepsEdits
  <1>2. ASSUME NEW h \in Editors, EditStep(h)
        PROVE  EditsInv'
    <2>1. ASSUME NEW u \in Users, NEW fields \in SUBSET Fields, NEW v \in Values,
                 EditProfile(h, u, fields, v)
          PROVE  EditsInv'
      BY <2>1, EditProfileKeepsInv
    <2>2. ASSUME NEW u \in Users, NEW fields \in SUBSET Fields, NEW v \in Values,
                 NEW p \in Projects, EditProject(h, p, u, fields, v)
          PROVE  EditsInv'
      BY <2>2, EditProjectKeepsInv
    <2>3. ASSUME NEW u \in Users, NEW n \in Messages, MarkAsRead(h, u, n)
          PROVE  EditsInv'
      BY <2>3, MarkAsReadKeepsInv
    <2>4. ASSUME NEW u \in Users, NEW f \in Files, NEW t \in Types,
                 StoreObject(h, u, f, t)
          PROVE  EditsInv'
      BY <2>4, StoreObjectKeepsInv
    <2>5. CASE ReadRow(h)
      BY <2>5, ReadRowKeepsInv
    <2>6. CASE SaveRow(h)
      BY <2>6, SaveRowKeepsInv
    <2>7. CASE CreateDocument(h)
      BY <2>7, CreateDocumentKeepsInv
    <2>8. CASE ReadUser(h) \/ FailEdit(h)
      BY <2>8, DoneKeepsInv DEF ReadUser, FailEdit
    <2>9. QED
      BY <1>2, <2>1, <2>2, <2>3, <2>4, <2>5, <2>6, <2>7, <2>8 DEF EditStep
  <1>3. QED
    BY <1>1, <1>2 DEF EditsNext, allVars
-----------------------------------------------------------------------------
(* Every page that is being made or shown, and every call in flight, agrees *)
(* with the tables, for any number of users, projects and requests.         *)
THEOREM EditsInvariant == EditsSpec => []EditsInv
  BY EditsInvInit, EditsInvStep, PTL DEF EditsSpec

(* Every variable keeps its type: no count is ever the -1 of an error.      *)
THEOREM EditsTyping == EditsSpec => []EditsTypeOK
  <1>1. EditsInv => EditsTypeOK
    BY DEF EditsInv
  <1>2. QED
    BY EditsInvariant, <1>1, PTL

(* The member's page and the profile (api/project.go:195-221) show roles    *)
(* and counts that have not been overtaken.                                 *)
THEOREM MemberPageIsTrueHolds == EditsSpec => []MemberPageIsTrue
  <1>1. EditsInv => MemberPageIsTrue
    BY DEF EditsInv, PagesInv
  <1>2. QED
    BY EditsInvariant, <1>1, PTL

(* The public page (api/project.go:221-245) is never an owner's, and says   *)
(* Accepted only to a member.                                               *)
THEOREM PublicPageIsTrueHolds == EditsSpec => []PublicPageIsTrue
  <1>1. EditsInv => PublicPageIsTrue
    BY DEF EditsInv, PagesInv
  <1>2. QED
    BY EditsInvariant, <1>1, PTL

(* The lists of members and of requests are as true when they are shown as  *)
(* when they were read.                                                     *)
THEOREM ListsAreTrueHolds == EditsSpec => []ListsAreTrue
  <1>1. EditsInv => ListsAreTrue
    BY DEF EditsInv, PagesInv
  <1>2. QED
    BY EditsInvariant, <1>1, PTL

(* The four lists of projects divide the projects that exist: by the        *)
(* agreement of owner_id and the Owner memberships.                         *)
THEOREM EveryProjectIsListedOnceHolds == EditsSpec => []EveryProjectIsListedOnce
  <1>1. EditsInv => EveryProjectIsListedOnce
    <2> SUFFICES ASSUME EditsInv, NEW u \in Users, NEW p \in Projects
                 PROVE  /\ owner[p] # NoUser <=> p \in MyProjects(u) \cup PublicProjects(u)
                        /\ p \notin MyProjects(u) \cap PublicProjects(u)
                        /\ p \in MyProjects(u) <=> p \in CreatedProjects(u) \cup JoinedProjects(u)
                        /\ p \notin CreatedProjects(u) \cap JoinedProjects(u)
      BY DEF EveryProjectIsListedOnce
    <2>1. /\ role[p][u] \in {"None", "Owner", "Member"}
          /\ role[p][u] = "Owner" <=> owner[p] = u
          /\ owner[p] = NoUser => role[p][u] = "None"
      BY DEF EditsInv, PagesInv, PagesTypeOK, TypeOK, Roles, Consistent, ExactlyOneOwner
    <2>2. QED
      BY <2>1 DEF MyProjects, PublicProjects, CreatedProjects, JoinedProjects
  <1>2. QED
    BY EditsInvariant, <1>1, PTL

(* Only one step writes rows, and it writes the row the call holds.         *)
LEMMA OnlySavesWrite ==
  ASSUME EditsInv, [EditsNext]_allVars, row' # row
  PROVE  \E h \in Editors :
           /\ Doing(h, "saveRow")
           /\ edit[h].target \in RowIds
           /\ row' = [row EXCEPT ![edit[h].target] = Saved(edit[h])]
           /\ edit'[h] = NoEdit
  <1>1. PICK h \in Editors : SaveRow(h)
    BY DEF EditsNext, allVars, editVars, EditStep, EditProfile, EditProject,
           MarkAsRead, StoreObject, ReadRow, CreateDocument, ReadUser, FailEdit
  <1>2. Doing(h, "saveRow") /\ row' = [row EXCEPT ![edit[h].target] = Saved(edit[h])]
    BY <1>1 DEF SaveRow
  <1>3. edit[h].target \in RowIds
    BY <1>2, EditTyping DEF EditsInv, Doing, EditCalls
  <1>4. edit'[h] = NoEdit
    BY <1>1 DEF SaveRow, Done, EditsInv, EditsTypeOK
  <1>5. QED
    BY <1>2, <1>3, <1>4

(* A row is changed only by a call of its owner: the role asked for at the  *)
(* start of a project edit is still the caller's at the save.               *)
THEOREM ChangedByItsOwnerHolds == EditsSpec => ChangedByItsOwner
  <1>1. EditsInv /\ [EditsNext]_allVars
          => [\A r \in RowIds :
                row'[r] # row[r] =>
                  \E h \in Editors :
                    /\ Doing(h, "saveRow") /\ edit[h].target = r
                    /\ r \in Users => edit[h].caller = r
                    /\ r \in Projects => owner[r] = edit[h].caller]_allVars
    <2> SUFFICES ASSUME EditsInv, [EditsNext]_allVars, NEW r \in RowIds,
                        row'[r] # row[r]
                 PROVE  \E h \in Editors :
                          /\ Doing(h, "saveRow") /\ edit[h].target = r
                          /\ r \in Users => edit[h].caller = r
                          /\ r \in Projects => owner[r] = edit[h].caller
      OBVIOUS
    <2>1. PICK h \in Editors :
            /\ Doing(h, "saveRow") /\ edit[h].target \in RowIds
            /\ row' = [row EXCEPT ![edit[h].target] = Saved(edit[h])]
      BY OnlySavesWrite
    <2>2. edit[h].target = r
      BY <2>1 DEF EditsInv, EditsTypeOK
    <2>3. r \in Users => edit[h].caller = r
      BY <2>1, <2>2 DEF EditsInv, EditIsAllowed
    <2>4. r \in Projects => role[r][edit[h].caller] = "Owner"
      BY <2>1, <2>2 DEF EditsInv, EditIsAllowed
    <2>5. edit[h].caller \in Users
      BY <2>1, EditTyping DEF EditsInv, Doing, EditCalls
    <2>6. r \in Projects => owner[r] = edit[h].caller
      BY <2>4, <2>5 DEF EditsInv, PagesInv, Consistent, ExactlyOneOwner
    <2>7. QED
      BY <2>1, <2>2, <2>3, <2>6
  <1>2. QED
    BY EditsInvariant, <1>1, PTL DEF EditsSpec, ChangedByItsOwner

(* What a call does not name it writes back as it has read it.              *)
THEOREM EditsAreKeptHolds == EditsSpec => EditsAreKept
  <1>1. EditsInv /\ [EditsNext]_allVars
          => [\A r \in RowIds, f \in Fields :
                row'[r][f] # row[r][f] =>
                  \E h \in Editors :
                    /\ Doing(h, "saveRow") /\ edit[h].target = r /\ edit'[h] = NoEdit
                    /\ \/ f \in edit[h].fields /\ row'[r][f] = edit[h].value
                       \/ row'[r][f] = edit[h].copy[f]]_allVars
    <2> SUFFICES ASSUME EditsInv, [EditsNext]_allVars, NEW r \in RowIds,
                        NEW f \in Fields, row'[r][f] # row[r][f]
                 PROVE  \E h \in Editors :
                          /\ Doing(h, "saveRow") /\ edit[h].target = r
                          /\ edit'[h] = NoEdit
                          /\ \/ f \in edit[h].fields /\ row'[r][f] = edit[h].value
                             \/ row'[r][f] = edit[h].copy[f]
      OBVIOUS
    <2>1. PICK h \in Editors :
            /\ Doing(h, "saveRow") /\ edit[h].target \in RowIds
            /\ row' = [row EXCEPT ![edit[h].target] = Saved(edit[h])]
            /\ edit'[h] = NoEdit
      BY OnlySavesWrite
    <2>2. edit[h].target = r /\ row'[r] = Saved(edit[h])
      BY <2>1 DEF EditsInv, EditsTypeOK
    <2>3. QED
      BY <2>1, <2>2 DEF Saved
  <1>2. QED
    BY EditsInvariant, <1>1, PTL DEF EditsSpec, EditsAreKept

(* Names are checked at the save, by the index: no two users ever share     *)
(* one, whatever their edits were based on.                                 *)
THEOREM NamesAreDistinctHolds == EditsSpec => []NamesAreDistinct
  <1>1. EditsInv => NamesAreDistinct
    BY DEF EditsInv
  <1>2. QED
    BY EditsInvariant, <1>1, PTL

-----------------------------------------------------------------------------
(* What a step does to the calls that edit a row: it leaves them, lets a    *)
(* new one in, or gives one the row as it is.                               *)
LEMMA CallChange ==
  ASSUME EditsInv, [EditsNext]_allVars, NEW g \in Editors, edit'[g] # NoEdit,
         edit'[g].pc \in {"readRow", "saveRow"}
  PROVE  \/ edit'[g] = edit[g]
         \/ /\ edit'[g].pc = "readRow"
            /\ edit'[g].fields \subseteq {"name", "details"}
         \/ /\ edit'[g].pc = "saveRow" /\ row' = row
            /\ edit'[g].target \in RowIds
            /\ edit'[g].copy = row[edit'[g].target]
            /\ \/ /\ Doing(g, "readRow")
                  /\ edit'[g].target = edit[g].target
                  /\ edit'[g].fields = edit[g].fields
               \/ /\ edit'[g].target \in Users
                  /\ edit'[g].fields \subseteq {"name", "details"}
               \/ edit'[g].fields = {"read"} /\ edit'[g].value = "yes"
  <1>0. edit \in [Editors -> EditCalls \cup Uploads \cup {NoEdit}]
    BY DEF EditsInv, EditsTypeOK
  <1>1. CASE UNCHANGED editVars
    BY <1>1 DEF editVars
  <1>2. ASSUME NEW h \in Editors, EditStep(h)
        PROVE  \/ edit'[g] = edit[g]
               \/ h = g
    BY <1>0, <1>2 DEF EditStep, EditProfile, EditProject, MarkAsRead, StoreObject,
       Begin, ReadRow, SaveRow, CreateDocument, ReadUser, FailEdit, Done
  <1>3. ASSUME NEW u \in Users, NEW fields \in SUBSET Fields, NEW v \in Values,
               EditProfile(g, u, fields, v)
        PROVE  /\ edit'[g].pc = "saveRow" /\ row' = row
               /\ edit'[g].target \in Users
               /\ edit'[g].fields \subseteq {"name", "details"}
               /\ edit'[g].copy = row[edit'[g].target]
    BY <1>0, <1>3 DEF EditProfile, Begin
  <1>4. ASSUME NEW u \in Users, NEW fields \in SUBSET Fields, NEW v \in Values,
               NEW p \in Projects, EditProject(g, p, u, fields, v)
        PROVE  edit'[g].pc = "readRow" /\ edit'[g].fields \subseteq {"name", "details"}
    BY <1>0, <1>4 DEF EditProject, Begin
  <1>5. ASSUME NEW u \in Users, NEW n \in Messages, MarkAsRead(g, u, n)
        PROVE  /\ edit'[g].pc = "saveRow" /\ row' = row
               /\ edit'[g].target \in Messages
               /\ edit'[g].fields = {"read"} /\ edit'[g].value = "yes"
               /\ edit'[g].copy = row[edit'[g].target]
    BY <1>0, <1>5 DEF MarkAsRead, Begin
  <1>6. ASSUME NEW u \in Users, NEW f \in Files, NEW t \in Types,
               StoreObject(g, u, f, t)
        PROVE  FALSE
    BY <1>0, <1>6 DEF StoreObject, Begin
  <1>7. CASE ReadRow(g)
    <2>1. Doing(g, "readRow") /\ row' = row
      BY <1>7 DEF ReadRow
    <2>2. edit[g] \in EditCalls
      BY <2>1, EditTyping DEF EditsInv, Doing
    <2>3. edit'[g] = [edit[g] EXCEPT !.pc = "saveRow", !.copy = row[edit[g].target]]
      BY <1>0, <1>7 DEF ReadRow
    <2>4. /\ edit'[g].pc = "saveRow" /\ edit'[g].target = edit[g].target
          /\ edit'[g].fields = edit[g].fields
          /\ edit'[g].copy = row[edit[g].target]
          /\ edit[g].target \in RowIds
      BY <2>2, <2>3 DEF EditCalls
    <2>5. QED
      BY <2>1, <2>4
  <1>8. CASE SaveRow(g) \/ ReadUser(g) \/ FailEdit(g)
    BY <1>0, <1>8 DEF SaveRow, ReadUser, FailEdit, Done
  <1>9. CASE CreateDocument(g)
    <2>1. edit[g] \in Uploads
      BY <1>9, EditTyping DEF EditsInv, CreateDocument, Doing
    <2>2. \/ edit'[g] = NoEdit
          \/ edit'[g] = [edit[g] EXCEPT !.pc = "readUser"]
      BY <1>0, <1>9 DEF CreateDocument, Done
    <2>3. QED
      BY <2>1, <2>2 DEF Uploads
  <1>10. ASSUME EditStep(g)
         PROVE  \/ \E u \in Users, fields \in SUBSET Fields, v \in Values :
                     EditProfile(g, u, fields, v)
                \/ \E u \in Users, fields \in SUBSET Fields, v \in Values,
                      p \in Projects : EditProject(g, p, u, fields, v)
                \/ \E u \in Users, n \in Messages : MarkAsRead(g, u, n)
                \/ \E u \in Users, f \in Files, t \in Types : StoreObject(g, u, f, t)
                \/ ReadRow(g)
                \/ SaveRow(g) \/ ReadUser(g) \/ FailEdit(g)
                \/ CreateDocument(g)
    BY <1>10 DEF EditStep
  <1>11. CASE EditStep(g)
    BY <1>11, <1>10, <1>3, <1>4, <1>5, <1>6, <1>7, <1>8, <1>9 DEF RowIds
  <1>12. UNCHANGED editVars \/ \E h \in Editors : EditStep(h)
    BY DEF EditsNext, allVars, editVars
  <1>13. QED
    BY <1>1, <1>2, <1>11, <1>12

(* Every save is of a copy whose row has not changed, if no two calls save  *)
(* the same row.                                                            *)
LEMMA CopiesStayNew ==
  ASSUME EditsInv, OneSavePerRow, ~OldCopy, [EditsNext]_allVars
  PROVE  ~OldCopy'
  <1> SUFFICES ASSUME NEW g \in Editors, edit'[g] # NoEdit,
                      edit'[g].pc = "saveRow"
               PROVE  edit'[g].copy = row'[edit'[g].target]
    BY DEF OldCopy, Doing
  <1>1. CASE edit'[g] = edit[g]
    <2>1. Doing(g, "saveRow") /\ edit[g].copy = row[edit[g].target]
      BY <1>1 DEF OldCopy, Doing
    <2>2. CASE row' = row
      BY <1>1, <2>1, <2>2
    <2>3. CASE row' # row
      <3>1. PICK h \in Editors :
              /\ Doing(h, "saveRow") /\ edit[h].target \in RowIds
              /\ row' = [row EXCEPT ![edit[h].target] = Saved(edit[h])]
              /\ edit'[h] = NoEdit
        BY <2>3, OnlySavesWrite
      <3>2. edit[g].target # edit[h].target
        BY <2>1, <3>1 DEF OneSavePerRow
      <3>3. edit[g].target \in RowIds
        BY <2>1, EditTyping DEF EditsInv, Doing, EditCalls
      <3>4. row'[edit[g].target] = row[edit[g].target]
        BY <3>1, <3>2, <3>3 DEF EditsInv, EditsTypeOK
      <3>5. QED
        BY <1>1, <2>1, <3>4
    <2>4. QED
      BY <2>2, <2>3
  <1>2. CASE edit'[g] # edit[g]
    BY <1>2, CallChange
  <1>3. QED
    BY <1>1, <1>2

(* While the edits of each row come one after the other, no edit of a       *)
(* profile, a project or a message undoes another: what is lost is lost     *)
(* only by reading and saving a row in two statements.                      *)
THEOREM NoEditIsLostWithoutOverlap ==
  EditsSpec /\ []OneSavePerRow => NoEditIsLost
  <1>1. EditsInit => ~OldCopy
    BY DEF EditsInit, OldCopy, Doing
  <1>2. EditsInv /\ OneSavePerRow /\ ~OldCopy /\ [EditsNext]_allVars => ~OldCopy'
    BY CopiesStayNew
  <1>3. ~OldCopy /\ [\A r \in RowIds, f \in Fields :
            row'[r][f] # row[r][f] =>
              \E h \in Editors :
                /\ Doing(h, "saveRow") /\ edit[h].target = r /\ edit'[h] = NoEdit
                /\ \/ f \in edit[h].fields /\ row'[r][f] = edit[h].value
                   \/ row'[r][f] = edit[h].copy[f]]_allVars
          => [\A r \in RowIds, f \in Fields :
                row'[r][f] # row[r][f] => BeingSet(r, f)]_allVars
    BY DEF OldCopy, BeingSet
  <1>4. QED
    BY EditsInvariant, EditsAreKeptHolds, <1>1, <1>2, <1>3, PTL
       DEF EditsSpec, EditsAreKept, NoEditIsLost

-----------------------------------------------------------------------------
(* What holds of the fields although old copies are saved.                  *)
LEMMA FieldsInvInit == EditsInit => FieldsInv
  <1> SUFFICES ASSUME EditsInit PROVE FieldsInv
    OBVIOUS
  <1>1. NoAvatarIsEverSet
    BY DEF EditsInit, FirstRow, NoAvatarIsEverSet, Fields
  <1>2. EditsSetNoAvatar
    BY DEF EditsInit, EditsSetNoAvatar, Doing
  <1>3. QED
    BY <1>1, <1>2, EditsInvInit DEF FieldsInv

LEMMA FieldsInvStep == FieldsInv /\ [EditsNext]_allVars => FieldsInv'
  <1> SUFFICES ASSUME FieldsInv, [EditsNext]_allVars PROVE FieldsInv'
    OBVIOUS
  <1>1. EditsInv /\ NoAvatarIsEverSet /\ EditsSetNoAvatar /\ EditsInv'
    BY EditsInvStep DEF FieldsInv
  <1>2. NoAvatarIsEverSet'
    <2>1. CASE row' = row
      BY <1>1, <2>1 DEF NoAvatarIsEverSet
    <2>2. CASE row' # row
      <3>1. PICK h \in Editors :
              /\ Doing(h, "saveRow") /\ edit[h].target \in RowIds
              /\ row' = [row EXCEPT ![edit[h].target] = Saved(edit[h])]
        BY <1>1, <2>2, OnlySavesWrite
      <3>2. Saved(edit[h])["avatar"] = Unedited
        BY <1>1, <3>1 DEF EditsSetNoAvatar, Saved, Fields
      <3>3. QED
        BY <1>1, <3>1, <3>2 DEF NoAvatarIsEverSet, EditsInv, EditsTypeOK
    <2>3. QED
      BY <2>1, <2>2
  <1>3. EditsSetNoAvatar'
    <2> SUFFICES ASSUME NEW g \in Editors, edit'[g] # NoEdit,
                        edit'[g].pc \in {"readRow", "saveRow"}
                 PROVE  /\ "avatar" \notin edit'[g].fields
                        /\ edit'[g].pc = "saveRow" =>
                             /\ edit'[g].copy["avatar"] = Unedited
                             /\ edit'[g].target \in Messages =>
                                  "read" \in edit'[g].fields /\ edit'[g].value = "yes"
      BY DEF EditsSetNoAvatar, Doing
    <2>1. CASE edit'[g] = edit[g]
      BY <1>1, <2>1 DEF EditsSetNoAvatar, Doing
    <2>2. CASE edit'[g].pc = "readRow" /\ edit'[g].fields \subseteq {"name", "details"}
      BY <2>2
    <2>3. CASE /\ edit'[g].pc = "saveRow" /\ edit'[g].target \in RowIds
               /\ edit'[g].copy = row[edit'[g].target]
               /\ \/ /\ Doing(g, "readRow")
                     /\ edit'[g].target = edit[g].target
                     /\ edit'[g].fields = edit[g].fields
                  \/ /\ edit'[g].target \in Users
                     /\ edit'[g].fields \subseteq {"name", "details"}
                  \/ edit'[g].fields = {"read"} /\ edit'[g].value = "yes"
      <3>1. edit'[g].copy["avatar"] = Unedited
        BY <1>1, <2>3 DEF NoAvatarIsEverSet
      <3>2. Doing(g, "readRow") =>
              edit[g].target \in Projects /\ "avatar" \notin edit[g].fields
        BY <1>1 DEF EditsInv, EditIsAllowed, EditsSetNoAvatar
      <3>3. QED
        BY <2>3, <3>1, <3>2, EditsAssumption
    <2>4. QED
      BY <1>1, <2>1, <2>2, <2>3, CallChange
  <1>4. QED
    BY <1>1, <1>2, <1>3 DEF FieldsInv

(* No upload and no edit ever gives anybody an avatar, although README.md   *)
(* lists avatars among the features: UploadAvatar looks its user up under   *)
(* the id of the document (core/users/service.go:161-167).                  *)
THEOREM NoAvatarIsEverSetHolds == EditsSpec => []NoAvatarIsEverSet
  <1>1. FieldsInv => NoAvatarIsEverSet
    BY DEF FieldsInv
  <1>2. QED
    BY FieldsInvInit, FieldsInvStep, <1>1, PTL DEF EditsSpec

(* A message that was read stays read, although marking it saves a whole    *)
(* row from a copy that may be old: every save of a message marks it.       *)
THEOREM MessagesStayReadHolds == EditsSpec => MessagesStayRead
  <1>1. FieldsInv /\ [EditsNext]_allVars
          => [\A n \in Messages :
                row[n]["read"] = "yes" => row'[n]["read"] = "yes"]_allVars
    <2> SUFFICES ASSUME FieldsInv, [EditsNext]_allVars, NEW n \in Messages,
                        row[n]["read"] = "yes"
                 PROVE  row'[n]["read"] = "yes"
      OBVIOUS
    <2>1. EditsInv /\ EditsSetNoAvatar
      BY DEF FieldsInv
    <2>2. CASE row' = row
      BY <2>2
    <2>3. CASE row' # row
      <3>1. PICK h \in Editors :
              /\ Doing(h, "saveRow") /\ edit[h].target \in RowIds
              /\ row' = [row EXCEPT ![edit[h].target] = Saved(edit[h])]
        BY <2>1, <2>3, OnlySavesWrite
      <3>2. CASE edit[h].target = n
        <4>1. Saved(edit[h])["read"] = "yes"
          BY <2>1, <3>1, <3>2 DEF EditsSetNoAvatar, Saved, Fields
        <4>2. QED
          BY <2>1, <3>1, <3>2, <4>1 DEF EditsInv, EditsTypeOK
      <3>3. CASE edit[h].target # n
        BY <2>1, <3>1, <3>3 DEF EditsInv, EditsTypeOK, RowIds
      <3>4. QED
        BY <3>2, <3>3
    <2>4. QED
      BY <2>2, <2>3
  <1>2. QED
    BY FieldsInvInit, FieldsInvStep, <1>1, PTL DEF EditsSpec, MessagesStayRead
=============================================================================
