SPECIFICATION Spec
CONSTANTS
  Users = {u1, u2}
  u1 = u1
  u2 = u2
  Emails = {e1}
  e1 = e1
  Phones = {}
  Grants = {}
  Mergers = {m1, m2}
  m1 = m1
  m2 = m2
  Clients = {c1}
  c1 = c1
  NULL = NULL
  MaxCreds = 2
  MaxMerges = 2
SYMMETRY Symmetry
CONSTRAINT FewCredentials
INVARIANTS
  TypeOK
  MergedSessionsEnd
