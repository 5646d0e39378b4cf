SPECIFICATION Spec
CONSTANTS
  a1 = a1
  e1 = e1
  vd = vd
  Users = {a1}
  Newcomers = {e1}
  Products <- ProductsMC
  Roles = {"ADMIN", "VENDOR"}
  Rows <- RowsMC
  Seeds <- SeedsMC
  Requests = {k1, k2}
  Vendors = {vd}
  Providers = {p1, p2}
  Logins = {l1, l2}
  Domain <- DomainMC
  NULL = NULL
SYMMETRY Symmetry
INVARIANTS
  TypeOK
  RevokedAdminBounded
  ActiveMeansVerified
  DisabledProvidersGone
  SignedInAreProvisioned
CHECK_DEADLOCK FALSE
