SPECIFICATION V2Spec
CONSTANTS
  p1 = p1
  p2 = p2
  a = a
  b = b
  x1 = x1
  x2 = x2
  UNKNOWN = UNKNOWN
  Torn = Torn
  None = None
  Proc <- TwoProcs
  Mortal <- TwoProcs
  Id = {a, b}
  Facts = {x1, x2}
  MaxCalls = 2
  MaxLegacy = 2
SYMMETRY V2Symmetry
INVARIANTS IdentitiesUnique NeverMixed FaithfulCopy RowsKeptInTurns
CHECK_DEADLOCK FALSE
