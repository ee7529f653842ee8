SPECIFICATION FairStreamSpec
CONSTANTS
  Clients = {c1}
  Consumer = consumer
  Pollers = {p1}
  Updaters = {consumer, p1}
  Pairs = {usdbtc}
  Msgs = {m1, m2}
  BadMsgs = {m2}
  NoMsg = NoMsg
  Rates = {m1, p1}
  usdbtc = usdbtc
  PairOf <- OnePair
  Pong = Pong
  Nobody = Nobody
  ChanSize = 1
  BufferSize = 1
  MaxCommands = 3
CHECK_DEADLOCK FALSE
INVARIANTS
  StreamTypeOK
  NoSendOnClosed
PROPERTIES
  WholeFrames
  CloseUnblocks
