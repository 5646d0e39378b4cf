SPECIFICATION Spec
CONSTANTS
  a1 = a1
  e1 = e1
  vd = vd
  Users = {a1}
  Newcomers = {e1}
  Products <- ProductsMC
  Roles = {"ADMIN", "VENDOR"}
  Rows <- RowsMC
  Seeds <- SeedsMC
  Requests = {k1}
  Vendors = {vd}
  Providers = {p1, p2}
  Logins = {l1}
  Domain <- DomainMC
  NULL = NULL
INVARIANTS
  DisabledBlocksSignIn
CHECK_DEADLOCK FALSE
