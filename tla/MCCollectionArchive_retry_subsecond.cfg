SPECIFICATION ArchiveSpec
CONSTANTS
  e1 = e1
  f1 = f1
  f2 = f2
  res1 = res1
  why = why
  None = None
  Garbage = Garbage
  Nothing = Nothing
  Partial = Partial
  Record <- Rows
  Event = {e1}
  Fact = {f1}
  Result = {res1}
  Reason = {why}
  Second = 2
  MaxTime = 2
  First <- Entries
  Target <- Moves
  GivesPrevious <- OnlyWithout
  MaxLines = 3
INVARIANTS RetriesAreIdempotent
