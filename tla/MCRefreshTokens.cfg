SPECIFICATION Spec
CONSTANTS
  Tokens = {t1, t2, t3}
  NoToken = NoToken
  Handlers = {h1, h2}
  Idle = Idle
SYMMETRY Symmetric
CHECK_DEADLOCK FALSE
INVARIANTS TypeOK UsedIsRevoked
PROPERTIES NoExchangeOfDeadToken
