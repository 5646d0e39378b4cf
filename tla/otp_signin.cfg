SPECIFICATION Spec
CONSTANTS
  Handles = {h1}
  Codes = {c1, c2}
  Verifiers = {v1, v2}
  Starters = {s1}
  MaxAttempts = 2
  HandleLimit = 2
  MaxCount = 3
  NULL = NULL
INVARIANTS
  TypeOK
  OneCodeOneLogin
  AttemptsCounted
  GuessesBounded
  NewestCodeStands
PROPERTIES
  LimitLifts
CHECK_DEADLOCK FALSE
