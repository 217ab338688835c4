SPECIFICATION LivenessSpec
CONSTANTS
  t1 = t1
  t2 = t2
  t3 = t3
  Task <- ThreeTasks
  N = 2
  Guarded <- Both
  Threshold = 2
  ResetTimeout = 3
  LateReset = 1
  Latency = 2
  CanCancel = TRUE
  TelemetryFails = TRUE
  p1 = p1
  p2 = p2
  p3 = p3
  None = None
INVARIANTS OneRequestInHalfOpen BreakersConsistent AllProvidersTried
PROPERTIES LateNeverShutOut EndlessOnlyAmongOthers DeadOwnerReclaimed 
