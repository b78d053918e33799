CONSTANTS
  a = a  b = b  c = c  d = d  menu = menu  noise = noise
  simple = simple  complex = complex  long = long
  Passages = {a, b, c, d, menu, noise}
  Units = {"m", "n", "v", "w", "x", "y", "z"}
  Spelled <- Spellings
  Measure <- Measures
  Files <- FileSet
  MinTokens = 100
  BatchSize = 2
  BatchRetries = 2
  CallRetries = 2
  MaxVersions = 2
  Requests = {}
  Queries = {simple, complex, long}
  Complex = {complex}
  Replies <- Split
  LongQueries = {long}
  Bm25 <- Bm25s
  Distance <- Distances
  TermsIn <- Terms
  HeaderTokens = 8
  SeparatorTokens = 3
  Available <- Budget
  RRF_K = 60
  Unit = 7624512
  CandidateLimit = 4
  MaxSubQueries = 3
  MaxConcurrent = 2
  RerankTop = 2
  Window = 200
  MaxHighlights = 3
  MaxTokens = 1
SPECIFICATION Spec
INVARIANT ScoresBelong
CHECK_DEADLOCK FALSE
