CONSTANTS
  c1 = c1
  c2 = c2
  o1 = o1
  o2 = o2
  None = None
  Callers = {c1}
  Objects = {o1}
  SystemPrompt = TRUE
  Compacting = TRUE
  Keeps = {0, 1, 2, 3}
  MaxAsks = 3
  MaxRewrites = 3
  MaxStoreFailures = 0
  MaxFaults = 1
SPECIFICATION Spec
INVARIANTS DerivesFromLog
