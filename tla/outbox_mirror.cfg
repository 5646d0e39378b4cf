SPECIFICATION Spec
CONSTANTS
  Rows = {r1}
  Subjects = {r1}
  Subject <- OwnSubject
  Vendors = {v1, v2}
  Writers = {w1}
  Workers = {k1}
  MaxRows = 2
  MaxEvents = 2
  MaxLinks = 0
  MaxCrashes = 0
  Broken = {}
  NULL = NULL
INVARIANTS
  TuplesMirrorRows
