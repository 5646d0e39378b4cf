SPECIFICATION Spec
CONSTANTS
  Users = {u1, u2}
  u1 = u1
  u2 = u2
  Emails = {e1}
  e1 = e1
  Phones = {}
  Grants = {}
  Mergers = {m1}
  m1 = m1
  Clients = {c1}
  c1 = c1
  NULL = NULL
  MaxCreds = 3
  MaxMerges = 2
SYMMETRY Symmetry
CONSTRAINT FewCredentials
PROPERTIES
  RefreshTokensRevoked
