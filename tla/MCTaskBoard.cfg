SPECIFICATION Spec
CONSTANTS
  Users = {alice, bob}
  Owner = alice
  Tasks = {t1}
  Values = {v1, v2}
  None = None
  Updates <- TwoFields
  Handlers = {h1, h2}
  Idle = Idle
  MaxCalls = 3
  Named = {bob}
  Observed = {"task_updated", "comment_added"}
SYMMETRY Symmetric
CHECK_DEADLOCK FALSE
INVARIANTS TypeOK EventHasRow
PROPERTIES FieldsAreKept
