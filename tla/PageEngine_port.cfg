SPECIFICATION PortSpec
CONSTANTS
  Page = {p1, p2}
  NoPage = NoPage
  Drafting = {p2}
  Atomic = {a}
  Staged = {s}
  TwoStep = {q}
  Nothing = Nothing
  Capacity = 1
  MaxSent = 1
  MaxMishaps = 1
  Thread = {t1, t2}
  NoThread = NoThread
  Working = {t1}
  MaxFacts = 1
  MaxDeltas = 3
  MaxSubmissions = 3
  MaxStops = 1
INVARIANTS AtMostOnce ReceiptsTrue NothingMissed
PROPERTIES ImplementsOutcomes NobodyKeptWaiting
CHECK_DEADLOCK FALSE
