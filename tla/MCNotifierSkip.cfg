SPECIFICATION Spec
CONSTANTS
  c1 = c1
  c2 = c2
  alice = alice
  bob = bob
  Conns = {c1}
  Users = {alice}
  NoUser = NoUser
  Torn = Torn
  Identity <- OneConnection
  Capacity = 2
  MaxEvents = 2
CHECK_DEADLOCK FALSE
PROPERTIES AckedClientIsServed
