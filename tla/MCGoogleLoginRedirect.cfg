SPECIFICATION Spec
CONSTANTS
  ann = ann
  ben = ben
  annMail = annMail
  benMail = benMail
  States = {st1, st2}
  Subjects = {ann, ben}
  Emails = {annMail, benMail}
  EmailsOf <- TwoAddresses
  Names = {"ann", "ben"}
  LocalPart <- OwnNames
  None = None
  Handlers = {h1, h2}
  Idle = Idle
INVARIANTS ExchangeMatches
