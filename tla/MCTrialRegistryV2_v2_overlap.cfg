SPECIFICATION V2Spec
CONSTANTS
  p1 = p1
  p2 = p2
  a = a
  b = b
  x1 = x1
  x2 = x2
  UNKNOWN = UNKNOWN
  Torn = Torn
  None = None
  Proc <- TwoProcs
  Mortal <- Nobody
  Id = {a, b}
  Facts = {x1}
  MaxCalls = 1
  MaxLegacy = 0
INVARIANTS RowsKept
CHECK_DEADLOCK FALSE
