SPECIFICATION FairStreamSpec
CONSTANTS
  Clients = {c1, c2}
  Consumer = consumer
  Pollers = {}
  Updaters = {consumer}
  Pairs = {usdbtc}
  Msgs = {m1, m2}
  BadMsgs = {m2}
  NoMsg = NoMsg
  Rates = {m1}
  usdbtc = usdbtc
  PairOf <- OnePair
  Pong = Pong
  Nobody = Nobody
  ChanSize = 1
  BufferSize = 1
  MaxCommands = 2
CHECK_DEADLOCK FALSE
INVARIANT
  NothingMissed
PROPERTY
  FanoutEnds
