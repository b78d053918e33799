CONSTANTS
  d1 = d1  d2 = d2  d3 = d3  d4 = d4
  a = a  b = b  c = c
  f = f  g = g
  NoDoc = NoDoc
  Chunks = {a, b, c}
  Filenames = {f}
  Docs = {d1, d2}
  Content <- TwoVersions
  File <- OneFile
  Deletable = {}
  MaxTries = 1
  MaxJobs = 1
  Faults = {"timeout"}
SPECIFICATION Spec
INVARIANTS FailureAllowsReupload
CHECK_DEADLOCK FALSE
