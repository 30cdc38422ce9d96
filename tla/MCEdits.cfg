SPECIFICATION MCSpec
CONSTANTS
  Users = {u1, u2, u3}
  Projects = {p1}
  NoUser = NoUser
  Nothing = Nothing
  Messages = {m1}
  Values = {v1, v2}
  Unedited = Unedited
  Files = {f1}
  Types = {t1, t2}
  Editors = {h1, h2}
  NoEdit = NoEdit
  NoRow = NoRow
  MaxEdits = 3
SYMMETRY Symmetric
INVARIANTS EditsTypeOK MemberPageIsTrue PublicPageIsTrue ListsAreTrue EveryProjectIsListedOnce
PROPERTIES ChangedByItsOwner EditsAreKept MessagesStayRead
CHECK_DEADLOCK FALSE
