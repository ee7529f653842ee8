SPECIFICATION Spec

CONSTANTS
  QuoteIds = {q1}
  Requests = {r1, r2, r3}
  Nobody = Nobody
  NoId = NoId
  RateLockTTL = 2
  BulkQuoteMaxItems = 1
  SpotRates <- StableSpot
  Side = "BUY"
  SpreadBPS = 100
  SlippageToleranceBPS = 150
  Backends <- RedisOnly
  RedisFaults = TRUE
  RedisRetries = TRUE
  Horizon = 0
  MaxRestarts = 0
INVARIANT
  AtMostOneGrant
