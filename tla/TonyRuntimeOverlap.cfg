CONSTANTS
  c1 = c1
  c2 = c2
  o1 = o1
  o2 = o2
  None = None
  Callers = {c1, c2}
  Objects = {o1, o2}
  SystemPrompt = TRUE
  Compacting = FALSE
  Keeps = {0}
  MaxAsks = 3
  MaxRewrites = 1
  MaxStoreFailures = 1
  MaxFaults = 1
SYMMETRY Alike
SPECIFICATION Spec
INVARIANTS TypeOK SuccessLogged SkippedLogged
