SPECIFICATION MSpec
CONSTANTS
  Users = {u1, u2}
  Projects = {p1}
  Handlers = {h1, h2}
  NoUser = NoUser
  Idle = Idle
  Observed = {}
SYMMETRY Symmetric
PROPERTIES StatusRule
