---------------------------- MODULE AdmissionProofs ----------------------------
(* Proofs about the abstract admission: its types, and the agreement of the *)
(* three tables, which Membership.tla inherits through the refinement.      *)
EXTENDS Admission, TLAPS

(* Every action keeps the tables within their types.                        *)
LEMMA AdmissionTypeInit == Init => TypeOK
  BY DEF Init, TypeOK

LEMMA AdmissionTypeStep == TypeOK /\ [Next]_avars => TypeOK'
  <1> SUFFICES ASSUME TypeOK, [Next]_avars PROVE TypeOK'
    OBVIOUS
  <1> USE DEF TypeOK, Statuses, Roles
  <1>1. ASSUME NEW p \in Projects, NEW u \in Users, CreateProject(p, u)
        PROVE  TypeOK'
    BY <1>1 DEF CreateProject
  <1>2. ASSUME NEW p \in Projects, NEW u \in Users, Ask(p, u)
        PROVE  TypeOK'
    BY <1>2 DEF Ask
  <1>3. ASSUME NEW p \in Projects, NEW u \in Users, Accept(p, u)
        PROVE  TypeOK'
    BY <1>3 DEF Accept
  <1>4. ASSUME NEW p \in Projects, NEW u \in Users, NEW s \in Statuses,
               Decide(p, u, s)
        PROVE  TypeOK'
    BY <1>4 DEF Decide
  <1>5. CASE UNCHANGED avars
    BY <1>5 DEF avars
  <1>6. QED
    BY <1>1, <1>2, <1>3, <1>4, <1>5 DEF Next

THEOREM AdmissionTyping == Spec => []TypeOK
  BY AdmissionTypeInit, AdmissionTypeStep, PTL DEF Spec

-----------------------------------------------------------------------------
(* The three agreements of the tables are inductive only together: that an *)
(* Accept never demotes an owner rests on role "None" in its guard, and    *)
(* that a new project has no rows rests on ExactlyOneOwner itself.         *)
LEMMA ConsistentInit == Init => Consistent
  BY NoUserAssumption
     DEF Init, Consistent, AcceptedIsMember, ExactlyOneOwner, MemberHasRequest

LEMMA ConsistentStep == TypeOK /\ Consistent /\ [Next]_avars => Consistent'
  <1> SUFFICES ASSUME TypeOK, Consistent, [Next]_avars PROVE Consistent'
    OBVIOUS
  <1> USE NoUserAssumption DEF TypeOK, Consistent, AcceptedIsMember,
          ExactlyOneOwner, MemberHasRequest, Statuses, Roles
  <1>1. ASSUME NEW p \in Projects, NEW u \in Users, CreateProject(p, u)
        PROVE  Consistent'
    BY <1>1 DEF CreateProject
  <1>2. ASSUME NEW p \in Projects, NEW u \in Users, Ask(p, u)
        PROVE  Consistent'
    BY <1>2 DEF Ask
  <1>3. ASSUME NEW p \in Projects, NEW u \in Users, Accept(p, u)
        PROVE  Consistent'
    BY <1>3 DEF Accept
  <1>4. ASSUME NEW p \in Projects, NEW u \in Users, NEW s \in Statuses,
               Decide(p, u, s)
        PROVE  Consistent'
    BY <1>4 DEF Decide
  <1>5. CASE UNCHANGED avars
    BY <1>5 DEF avars
  <1>6. QED
    BY <1>1, <1>2, <1>3, <1>4, <1>5 DEF Next

(* However the services interleave, an accepted requestor is a member, a   *)
(* project has its one owner, and a member once asked to join.             *)
THEOREM AdmissionConsistent == Spec => []Consistent
  BY AdmissionTyping, ConsistentInit, ConsistentStep, PTL DEF Spec
=============================================================================
