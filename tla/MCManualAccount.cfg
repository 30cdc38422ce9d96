SPECIFICATION Spec
CONSTANTS
  Links = {l1, l2, l3, l4}
  Passwords = {pw1, pw2}
  Handlers = {h1, h2}
  NoLink = NoLink
  NoRow = NoRow
  Idle = Idle
SYMMETRY Symmetric
CHECK_DEADLOCK FALSE
INVARIANTS TypeOK UnverifiedHasNoReset
PROPERTIES VerifiedStays PasswordByCurrentLink
