SPECIFICATION Spec
CONSTANTS
  aapl = aapl
  msft = msft
  b1 = b1
  b2 = b2
  Symbols = {aapl, msft}
  Messages <- MCMessages
  Malformed = Malformed
  Requested <- MCRequested
  Protected = {}
  Background = {b1, b2}
  Limit <- MCLimit
  HistoryLimit = 2
  QueueLimit = 2
  MaxSnapshots = 4
  MaxConnections = 2
INVARIANTS
  TypeOK
  ConnectedMeansLive
  QueueHoldsNewest
  BoundariesAreMarked
  StreamsAreCounted
PROPERTIES
  OnlyTheGreetingRepeats
CHECK_DEADLOCK FALSE
