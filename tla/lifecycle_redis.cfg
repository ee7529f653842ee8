SPECIFICATION Spec
SYMMETRY Symmetry
VIEW View
CONSTANTS
  QuoteIds = {q1, q2}
  Requests = {r1, r2}
  Nobody = Nobody
  NoId = NoId
  RateLockTTL = 1
  BulkQuoteMaxItems = 2
  SpotRates <- FailingSpot
  Side = "BUY"
  SpreadBPS = 100
  SlippageToleranceBPS = 150
  Backends <- EitherBackend
  RedisFaults = TRUE
  RedisRetries = FALSE
  Horizon = 0
  MaxRestarts = 2
INVARIANT
  TokenUnique
PROPERTY
  ImplementsContract
