SPECIFICATION StopsSpec
CONSTANTS
  Run = {r1, r2}
  NoRun = NoRun
  MaxCalls = 2
  QueueCapacity = 2
  MaxCrashes = 1
  MaxRetries = 0
  CallClasses = {"write", "interactive"}
  Faults = {"manual"}
PROPERTIES InterruptStops ApprovalTimesOut QueueServed
CHECK_DEADLOCK FALSE
