SPECIFICATION DedupSpec
CONSTANTS
  u1 = u1
  u2 = u2
  u3 = u3
  Users <- UsersMC
  AutoPairs <- SharedLoser
  Linked = {u3}
  Seniority <- SeniorityMC
  Emails = {e1}
  Phones = {}
  Grants = {g1}
  Mergers = {m1}
  Clients = {}
  NULL = NULL
INVARIANTS
  PointersClimb
  OnlyAutoPairsMerge
  DecidedPairsMerged
  SingleLogRow
PROPERTIES
  MergeUnionsAccess
