CONSTANTS
  s1 = s1
  s2 = s2
  read = read
  click = click
  ghost = ghost
  a = a
  b = b
  main = main
  shop = shop
  NoSite = NoSite
  NoSession = NoSession
  ToolNames = {read, click, ghost}
  Registered = {read, click}
  Args = {a, b}
  Under <- MCUnder
  Rules <- MCNoRules
  Risk <- MCRisk
  HasResolver = TRUE
  SessionId = s1
  MaxToolCallsPerTurn = 2
  Sites = {}
  CallLists <- MCLoopLists
  OtherSessions = {}
  MaxTurns = 2
  MaxToolCalls = 2
  MaxRuns = 2
  MaxSteers = 1
  MaxForeignGrants = 0
SPECIFICATION FairSpec
INVARIANTS TypeOK LimitsHold  
PROPERTIES AbortHalts KeepsContract RunEnds
