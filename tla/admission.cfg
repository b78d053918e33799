CONSTANTS
  r1 = r1  r2 = r2  r3 = r3  r4 = r4  r5 = r5
  a = a  b = b  c = c  d = d  z = z
  Contents = {a, b, c, d, z}
  Size <- Sizes
  Requests = {r1, r2, r3, r4, r5}
  Batches = {r2, r3}
  Files <- Uploads
  Deletable <- DeletableDocs
  DocLimit = 1
  ByteLimit = 9
  MaxBatch = 2
  MaxOpen = 2
SPECIFICATION Spec
INVARIANTS AdmissionInv OvershootBounded StorageBounded CopiesBounded BatchHonest
SYMMETRY Alike
CHECK_DEADLOCK FALSE
