SPECIFICATION ServicesSpec
CONSTANTS
  Parts = {"servers", "session", "gate", "tree", "backup", "vault", "settings", "composer", "model", "environment"}
  Url = {u1, u2}
  Issuer = {i1, i2}
  None = None
  MaxWrites = 2
  MaxAsks = 1
  Connection = {con1, con2}
  OpCall = {k1, k2, k3}
  NoOne = NoOne
  MaxCancels = 1
  GateTool = {tool}
  GateOrigin = {site}
  NoOrigin = NoOrigin
  Quiet = Quiet
  RuleChoice <- SampleRules
  BuiltInSensitive = {}
  MaxGateEvents = 3
  Turn = {r1, r2, r3}
  Nobody = Nobody
  MaxNodes = 7
  MaxStops = 1
  MaxMoves = 1
  Thread = {t1, t2}
  NoThread = NoThread
  MaxNode = 3
  OfferedNodes = {1, 2}
  MaxSteps = 4
  Sealer = {s1, s2}
  Value = {secret}
  Nothing = Nothing
  MaxKeys = 3
  MaxSaves = 3
  Document = {d1, d2}
  NoDocument = NoDocument
  Entry = {e1, e2}
  MaxUpdates = 2
  MaxMounts = 2
  Conversation = {c1, c2}
  NewChat = NewChat
  MaxTexts = 2
  MaxTurns = 1
  KeyCount = 3
  MaxPieces = 3
  MaxCalls = 1
  EnvRun = {x, y}
  Endpoint = {a, b}
  ApiKey = {k, l}
  MaxEdits = 2
INVARIANTS ConnectedAsStored GrantsAreGiven BranchesHold ImportedIsUsable UpdatesKept
  SentWhereTyped ProviderHeardRight RunsAsResolved
PROPERTY CancelledNeverRuns
CHECK_DEADLOCK FALSE
