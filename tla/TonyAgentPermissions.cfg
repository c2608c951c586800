CONSTANTS
  s1 = s1
  s2 = s2
  read = read
  click = click
  ghost = ghost
  a = a
  b = b
  main = main
  shop = shop
  NoSite = NoSite
  NoSession = NoSession
  ToolNames = {read, click, ghost}
  Registered = {read, click}
  Args = {a, b}
  Under <- MCUnder
  Rules <- MCShopRule
  Risk <- MCRisk
  HasResolver = TRUE
  SessionId = s1
  MaxToolCallsPerTurn = 2
  Sites = {main, shop}
  CallLists <- MCPermissionLists
  OtherSessions = {s2}
  MaxTurns = 2
  MaxToolCalls = 4
  MaxRuns = 1
  MaxSteers = 0
  MaxForeignGrants = 1
SPECIFICATION Spec
PROPERTIES DenyIsFinal SessionsIsolated
