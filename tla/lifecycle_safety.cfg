SPECIFICATION Spec
SYMMETRY Symmetry
VIEW View
CONSTANTS
  QuoteIds = {q1, q2}
  Requests = {r1, r2, r3}
  Nobody = Nobody
  NoId = NoId
  RateLockTTL = 1
  BulkQuoteMaxItems = 1
  SpotRates <- MovingSpot
  Side = "BUY"
  SpreadBPS = 100
  SlippageToleranceBPS = 150
  Backends <- MemoryOnly
  RedisFaults = FALSE
  RedisRetries = FALSE
  Horizon = 0
  MaxRestarts = 0
INVARIANTS
  TypeOK
  AtMostOneGrant
  RejectedNeverGranted
  GrantRecorded
  OpenQuoteIsClaimable
  NoEarlyExpiry
  GrantsAudited
