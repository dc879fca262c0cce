SPECIFICATION Spec
CONSTANTS
  c1 = c1
  c2 = c2
  candle = candle
  other = other
  strategy = strategy
  news = news
  regime = regime
  Clients = {c1, c2}
  Messages <- MCMessages
  ChannelOf <- MCChannelOf
  KindOf <- MCKindOf
  NoMessage = none
  MaxConnections = 2
  QueueSize = 1
  MaxEvents = 2
  Cases <- MCCases
INVARIANTS NoGap CountMatches
CHECK_DEADLOCK FALSE
