SPECIFICATION FairSpec
CONSTANTS
  t1 = t1
  t2 = t2
  t3 = t3
  Task <- TwoTasks
  N = 1
  Guarded <- First
  Threshold = 1
  ResetTimeout = 1
  Latency = 1
  CanCancel = TRUE
  TelemetryFails = FALSE
PROPERTIES NeverShutOut
