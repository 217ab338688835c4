SPECIFICATION AggSpec
CONSTANTS
  t1 = t1
  t2 = t2
  Task <- TwoTasks
  N = 2
  Guarded <- First
  Threshold = 2
  ResetTimeout = 2
  Latency = 1
  CanCancel = TRUE
  TelemetryFails = TRUE
INVARIANTS OneProbeAmongChildren
PROPERTIES SurvivesSiblings EveryGatherEnds
