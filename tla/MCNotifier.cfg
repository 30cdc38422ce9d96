SPECIFICATION MCFairSpec
CONSTANTS
  c1 = c1
  c2 = c2
  alice = alice
  bob = bob
  Conns = {c1, c2}
  Users = {alice, bob}
  NoUser = NoUser
  Torn = Torn
  Identity <- SameUser
  Capacity = 2
  MaxEvents = 3
CHECK_DEADLOCK FALSE
INVARIANTS TypeOK AccessWindow InOrderToReceiver UnregisteredIsGone LosesAtMostOne
PROPERTIES NotifyReturns ConnectionsAreReleased ReconnectTakesOver ImplementsDelivery
