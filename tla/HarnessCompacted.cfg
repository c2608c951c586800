CONSTANTS
  Main = Main
  Branches = {b1}
  Tails = {1}
  MaxNews = 3
  MaxCompactions = 1
  MaxCrashes = 1
SPECIFICATION Spec
INVARIANTS TurnsPersisted
CHECK_DEADLOCK FALSE
