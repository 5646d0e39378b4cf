SPECIFICATION Spec
CONSTANTS
  e1 = e1
  e2 = e2
  c1 = c1
  c2 = c2
  UserIds = {u1, u2}
  Emails = {e1, e2}
  Phones = {}
  Contacts = {c1, c2}
  Legacy = {e1}
  Callouts = {k1}
  Repeated <- RepeatedMC
  MaxFailures = 1
  Passwords = {old, new}
  LegacyPassword = old
  LegacyLoginEnabled = TRUE
  Logins = {l1}
  NULL = NULL
INVARIANTS
  TypeOK
  LinksAreKept
  ImportCovers
  HandlelessAreExplained
  ClearedMeansRehashed
  LatestPasswordStands
PROPERTY RepeatedIsLinked
CHECK_DEADLOCK FALSE
