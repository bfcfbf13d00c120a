SPECIFICATION BrowserSpec
CONSTANTS
  Chat = {chat}
  Tab = {t1, t2, t3}
  NoTab = NoTab
  Nowhere = Nowhere
  MaxTabEvents = 2
  MaxTabRestarts = 1
  MaxReplayed = 1
  ToolCall = {c1, c2}
  Element = {e1, e2}
  Looks = {same}
  LookOf <- Twins
  MaxIncidents = 2
  DeepCall = {k1, k2, k3}
  DebugTab = {d1, d2}
  NotAttached = NotAttached
  MaxNews = 1
SYMMETRY Symmetry
INVARIANTS TurnsKeepTheirTabs ActsOnce ActsAsAgreed RestoredUnlessStopped DeepWritesRight
CHECK_DEADLOCK FALSE
