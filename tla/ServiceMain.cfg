SPECIFICATION Spec
CONSTANTS
  Calls = {c1, c2, c3}
  QueueSize = 2
  BatchSize = 1
INVARIANTS TypeOK SpansHandedOver TelemetryFramesRun
PROPERTIES ServesOrExits
\* The process exits.
CHECK_DEADLOCK FALSE
