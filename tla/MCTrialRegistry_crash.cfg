SPECIFICATION Spec
CONSTANTS
  p1 = p1
  p2 = p2
  p3 = p3
  a = a
  b = b
  old = old
  c1 = c1
  c2 = c2
  v1 = v1
  v2 = v2
  brier = brier
  rps = rps
  f = f
  g = g
  None = None
  Torn = Torn
  Proc <- TwoProcs
  Mortal <- TwoProcs
  Stalling <- Nobody
  WriteError <- Nobody
  UnlinkError <- OnlyP2
  PidReuse = FALSE
  Timeout = 1
  MaxCalls = 2
  Name <- Names
  Params <- Configs
  Verdict <- Verdicts
  Metric <- Metrics
  Fingerprint <- Fingerprints
  Stamp <- Stamps
  Initial <- NoTrialsYet
  Request <- TwoVerdicts
  Attestation <- Brier
INVARIANTS MutualExclusion HolderOwnsFile NeverTorn AckedKept
PROPERTIES AppendOnly LockSafety
