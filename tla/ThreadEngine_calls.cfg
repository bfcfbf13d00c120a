SPECIFICATION Spec
CONSTANTS
  Run = {r1}
  NoRun = NoRun
  MaxCalls = 2
  QueueCapacity = 1
  MaxCrashes = 2
  MaxRetries = 1
  CallClasses = {"retrySafe", "write", "interactive"}
  Faults = {"automation", "late", "env", "hook"}
SYMMETRY Symmetry
INVARIANTS OnlyApprovedExecutes NoSilentResend
CHECK_DEADLOCK FALSE
