CONSTANTS
  c1 = c1
  c2 = c2
  s1 = s1
  s2 = s2
  s3 = s3
  Index = Index
  Absent = Absent
  Torn = Torn
  Empty = Empty
  Clients = {c1}
  Session = {s1, s2}
  Calls = {"create", "relabel", "append", "branch", "compact", "delete"}
  ReadsFail = FALSE
  MaxRelabels = 1
  MaxAppends = 3
  MaxCompacts = 1
  MaxFailures = 1
  MaxRestarts = 1
SYMMETRY Alike
SPECIFICATION Spec
INVARIANTS TypeOK SessionsDurable EntriesDurable 
PROPERTIES KeepsContract
CHECK_DEADLOCK FALSE
