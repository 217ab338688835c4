SPECIFICATION LockSpec
CONSTANTS
  p1 = p1
  p2 = p2
  None = None
  Proc <- TwoProcs
  Mortal <- OnlyP1
  Stalling <- TwoProcs
  WriteError <- Nobody
  UnlinkError <- OnlyP2
  PidReuse = FALSE
  Timeout = 1
PROPERTIES EveryCallEnds
