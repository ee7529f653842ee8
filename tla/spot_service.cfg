SPECIFICATION FairSpotSpec
CONSTANTS
  usdbtc = usdbtc
  usdeth = usdeth
  Pairs = {usdbtc, usdeth}
  SeedPairs <- OneSeed
  Gets = {g1, g2}
  Updates = {u1}
  Seed = Seed
  Polled = Polled
  Nobody = Nobody
  HasPollHook = TRUE
  Capacity = 1
  MaxStaleAge = 0
  Venues = {kraken}
  VenueOrder = {kraken}
  ErrorThreshold = 2
  MaxErrors = 3
  Horizon = 1
CHECK_DEADLOCK FALSE
INVARIANTS SpotTypeOK KnownPairAnswered NeverCold DownAtThreshold
PROPERTIES EveryGetAnswered
