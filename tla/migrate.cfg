SPECIFICATION Spec
CONSTANTS
  sum = sum
  edited = edited
  Versions <- VersionsMC
  Checksums = {sum, edited}
  Releases <- ReleasesMC
  Files <- FilesMC
  Rerunnable = {1, 2}
  Runners = {r1, r2}
  MaxLost = 1
  NULL = NULL
INVARIANTS
  TypeOK
PROPERTIES
  BarredRunsOnlyBootstrap
  AppliedInOrder
  WaitersEnd
  LedgerKept
