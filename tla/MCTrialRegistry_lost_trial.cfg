SPECIFICATION Spec
CONSTANTS
  p1 = p1
  p2 = p2
  p3 = p3
  a = a
  b = b
  old = old
  c1 = c1
  c2 = c2
  v1 = v1
  v2 = v2
  brier = brier
  rps = rps
  f = f
  g = g
  None = None
  Torn = Torn
  Proc <- ThreeProcs
  Mortal <- OnlyP1
  Stalling <- Nobody
  WriteError <- Nobody
  UnlinkError <- Nobody
  PidReuse = FALSE
  Timeout = 1
  MaxCalls = 1
  Name <- Names
  Params <- Configs
  Verdict <- Verdicts
  Metric <- Metrics
  Fingerprint <- Fingerprints
  Stamp <- Stamps
  Initial <- NoTrialsYet
  Request <- UnprotectedTrials
  Attestation <- Nobody
INVARIANTS AckedKept
