SPECIFICATION FairMSpec
CONSTANTS
  Users = {u1, u2}
  Projects = {p1}
  Handlers = {h1, h2}
  NoUser = NoUser
  Idle = Idle
  Observed = {"join_responded"}
INVARIANTS MTypeOK AcceptedIsMember ExactlyOneOwner OwnerIsNeverAccepted NotificationsAreTrue
PROPERTIES RolesAreKept ImplementsAdmission EveryCallReturns
