SPECIFICATION Spec
CONSTANTS
  Links = {l1, l2}
  Passwords = {pw1, pw2}
  Handlers = {h1}
  NoLink = NoLink
  NoRow = NoRow
  Idle = Idle
SYMMETRY Symmetric
CHECK_DEADLOCK FALSE
PROPERTIES UsedLinkIsRefused
