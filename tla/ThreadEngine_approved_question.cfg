SPECIFICATION Spec
CONSTANTS
  Run = {r1}
  NoRun = NoRun
  MaxCalls = 1
  QueueCapacity = 1
  MaxCrashes = 0
  MaxRetries = 0
  CallClasses = {"interactive"}
  Faults = {}
SYMMETRY Symmetry
INVARIANTS ApprovedInteractionAsked
CHECK_DEADLOCK FALSE
