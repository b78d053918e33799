CONSTANTS
  s1 = s1  s2 = s2  k1 = k1  k2 = k2  key = key
  Slots = {s1, s2}
  Keys = {k1, k2}
  ApiKeys = {key}
  Requests <- RequestSet
  TTL = 1
  FetchTime = 1
  Limit = 1
SPECIFICATION Spec
SYMMETRY Symmetric
INVARIANTS TypeOK FreshKeysAccepted QueriesBounded KeysAccounted
PROPERTIES TrustBounded
