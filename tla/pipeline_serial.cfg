CONSTANTS
  d1 = d1  d2 = d2  d3 = d3  d4 = d4
  a = a  b = b  c = c
  f = f  g = g
  NoDoc = NoDoc
  Docs = {d1, d2, d3, d4}
  Chunks = {a, b, c}
  Filenames = {f, g}
  Content <- ThreeVersionsAndOther
  File <- ThreeOfOneFile
  Deletable = {}
  MaxTries = 1
  MaxJobs = 1
  Faults = {}
SPECIFICATION FairSpec
INVARIANTS LatestSearchable SupersededCleared
PROPERTIES UploadsSettle
CHECK_DEADLOCK FALSE
