SPECIFICATION Spec
CONSTANTS
  Run = {r1, r2}
  NoRun = NoRun
  MaxCalls = 1
  QueueCapacity = 1
  MaxCrashes = 1
  MaxRetries = 1
  CallClasses = {"read", "retrySafe", "interactive"}
  Faults = {"manual"}
SYMMETRY Symmetry
INVARIANTS SingleOwner NobodyForgotten MarksReleased
PROPERTIES ImplementsLifecycle
CHECK_DEADLOCK FALSE
