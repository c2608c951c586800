CONSTANTS
  AgentOptions <- MCAgentOptions
  Requested <- MCRequested
  t = t
  u = u
  Unmade = Unmade
  MaxRuns = 2
  MaxSteers = 1
  Main = Main
  Branches = {b1}
  Tails = {1}
  MaxNews = 3
  MaxCompactions = 1
  MaxCrashes = 1
  MaxCalls = 2
  MaxAborts = 1
  MaxAuths = 2
  Types = {1, 2, 3}
  Untyped = {}
  TaskLimits = {2, 3}
  AgentCaps = {2, 4}
  RouteSizes = {0, 2, 4}
SPECIFICATION Spec
INVARIANTS HarnessTypeOK CallsAnswered   OwnOutcome StatusesExact
PROPERTIES AbortStops  RunsResolve RunsSettle
CHECK_DEADLOCK FALSE
