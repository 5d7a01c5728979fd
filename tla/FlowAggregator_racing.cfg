CONSTANTS
  p1 = p1
  p2 = p2
  ticker = ticker
  stopper = stopper
  e1 = e1
  e2 = e2
  e3 = e3
  e4 = e4
  k1 = k1
  k2 = k2
  Producers <- MCProducers
  Ticker <- ticker
  Stopper <- stopper
  Events <- MCEvents
  Key <- MCKey
  Minute <- MCMinute
  QueueCap = 1
  ProducersJoined = FALSE
SPECIFICATION SafeSpec
INVARIANTS
  TypeOK
  AccountedOnce
  NoSendOnClosedQueue
  BatchesWellFormed
