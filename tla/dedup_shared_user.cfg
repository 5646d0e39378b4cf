SPECIFICATION DedupSpec
CONSTANTS
  u1 = u1
  u2 = u2
  u3 = u3
  Users <- UsersMC
  AutoPairs <- SharedSurvivor
  Linked = {u3}
  Seniority <- SeniorityMC
  Emails = {e1, e2}
  Phones = {}
  Grants = {}
  Mergers = {m1}
  Clients = {}
  NULL = NULL
INVARIANTS
  SignInsReachLiveUsers
