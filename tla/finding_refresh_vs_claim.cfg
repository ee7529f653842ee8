SPECIFICATION Spec

CONSTANTS
  QuoteIds = {q1, q2}
  Requests = {r1, r2, r3}
  Nobody = Nobody
  NoId = NoId
  RateLockTTL = 1
  BulkQuoteMaxItems = 1
  SpotRates <- StableSpot
  Side = "BUY"
  SpreadBPS = 100
  SlippageToleranceBPS = 150
  Backends <- MemoryOnly
  RedisFaults = FALSE
  RedisRetries = FALSE
  Horizon = 0
  MaxRestarts = 0
PROPERTY
  RefreshedStaysCanceled
