SPECIFICATION Spec
CONSTANTS
  Run = {r1}
  NoRun = NoRun
  MaxCalls = 1
  QueueCapacity = 1
  MaxCrashes = 1
  MaxRetries = 0
  CallClasses = {}
  Faults = {}
SYMMETRY Symmetry
INVARIANTS UserMessageOnce
CHECK_DEADLOCK FALSE
