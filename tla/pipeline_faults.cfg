CONSTANTS
  d1 = d1  d2 = d2  d3 = d3  d4 = d4
  a = a  b = b  c = c
  f = f  g = g
  NoDoc = NoDoc
  Docs = {d1, d2}
  Chunks = {a, b, c}
  Filenames = {f}
  Content <- TwoVersions
  File <- OneFile
  Deletable = {d1}
  MaxTries = 2
  MaxJobs = 2
  Faults = {"request", "queue", "storage", "worker", "database", "timeout", "crash", "loss"}
SPECIFICATION FairSpec
INVARIANTS IInv FreshIndexedWhole SearchableUntilLost
PROPERTIES CleanupSparesLive DiffedVersionCleared FollowsLifecycle JobsEnd
CHECK_DEADLOCK FALSE
