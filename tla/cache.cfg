CONSTANTS
  d1 = d1  d2 = d2
  Docs = {d1, d2}
  Supersedes <- NewerVersion
  Keys = {k1}
  Clients = {q1, q2}
  NoEntry = NoEntry
SPECIFICATION FairSpec
INVARIANTS CacheInv IndexingReflected
PROPERTIES EventuallyFresh
