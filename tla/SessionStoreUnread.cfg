CONSTANTS
  c1 = c1
  c2 = c2
  s1 = s1
  s2 = s2
  s3 = s3
  Index = Index
  Absent = Absent
  Torn = Torn
  Empty = Empty
  Clients = {c1}
  Session = {s1}
  Calls = {"create", "append", "compact"}
  ReadsFail = TRUE
  MaxRelabels = 0
  MaxAppends = 2
  MaxCompacts = 1
  MaxFailures = 0
  MaxRestarts = 0
SPECIFICATION Spec
INVARIANTS EntriesDurable
