CONSTANTS
  c1 = c1
  c2 = c2
  s1 = s1
  s2 = s2
  s3 = s3
  Index = Index
  Absent = Absent
  Torn = Torn
  Empty = Empty
  Clients = {c1, c2}
  Session = {s1, s2}
  Calls = {"create"}
  ReadsFail = FALSE
  MaxRelabels = 0
  MaxAppends = 0
  MaxCompacts = 0
  MaxFailures = 0
  MaxRestarts = 0
SYMMETRY Alike
SPECIFICATION Spec
INVARIANTS IndexReadable
