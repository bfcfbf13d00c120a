SPECIFICATION RunPartsSpec
CONSTANTS
  RunParts = {"loop", "plugins", "login", "startup", "tools", "attachments", "port"}
  StopAt = 2
  MaxSteers = 2
  MaxAnswers = 2
  MaxCalls = 2
  MaxTogether = 2
  pa = pa
  pb = pb
  na = na
  nb = nb
  Plugin = {pa, pb}
  Archive <- SampleArchives
  SkillName = {na, nb}
  PluginPage = {g1, g2}
  User = User
  NoArchive = NoArchive
  MaxSaves = 1
  issuer1 = issuer1
  issuer2 = issuer2
  here1 = here1
  here2 = here2
  plan1 = plan1
  plan2 = plan2
  plan3 = plan3
  LoginPlan = {plan1, plan2, plan3}
  IssuerOf <- SampleIssuers
  EndpointOf <- SampleEndpoints
  Resource = Resource
  NoLogin = NoLogin
  Configured = Configured
  MaxPublish = 2
  MaxFlows = 3
  MaxLives = 2
  home = home
  inbox = inbox
  elsewhere = elsewhere
  Page = {home, inbox, elsewhere}
  SiteOf <- SampleSites
  Unloaded = Unloaded
  ToolTab = {t1, t2}
  MaxUserMoves = 2
  Chat = {c1, c2}
  NoChat = NoChat
  Budget = 1
  MaxFiles = 2
  MaxMessages = 2
  MaxSweeps = 1
  Request = {q1, q2}
  NoPort = NoPort
  MaxPorts = 3
INVARIANTS SteersHeard RequestsWellFormed PluginsWhole
  CredentialsBound StartsClean CallsAsShown GoneIsMarked WaitsWhereAnswered
CHECK_DEADLOCK FALSE
