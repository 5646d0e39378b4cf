SPECIFICATION Spec
CONSTANTS
  Users = {u1, u2, u3}
  u1 = u1
  u2 = u2
  u3 = u3
  Emails = {e1, e2}
  e1 = e1
  e2 = e2
  Phones = {}
  Grants = {}
  Mergers = {m1, m2}
  m1 = m1
  m2 = m2
  Clients = {}
  NULL = NULL
  MaxCreds = 0
  MaxMerges = 2
SYMMETRY Symmetry
CONSTRAINT FewMerges
INVARIANTS
  StrandedExplained
  PrimaryPerType
  LogMatchesPointer
PROPERTIES
  IdentityMovesAreLogged
