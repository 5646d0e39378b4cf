SPECIFICATION FairSpec
CONSTANTS
  Rows = {r1}
  Subjects = {r1}
  Subject <- OwnSubject
  Vendors = {v1}
  Writers = {w1, w2}
  Workers = {k1, k2}
  MaxRows = 2
  MaxEvents = 3
  MaxLinks = 1
  MaxCrashes = 1
  Broken = {"link"}
  NULL = NULL
INVARIANTS
  TypeOK
  LastEventDecides
  ClaimExclusive
  TuplesErrForACause
PROPERTIES
  EventuallyProcessed
  OutboxKept
