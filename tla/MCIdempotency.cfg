SPECIFICATION IdemSpec
CONSTANTS
  Handlers = {h1, h2, h3}
  Keys = {k1}
  Pairs = {EURMXN, EURUSD}
  NoKey = NoKey
  NoQuote = NoQuote
  Prices = {1}
  MaxClock = 0
  ListLimit = 2
  MaxRequests = 3
  MaxFaults = 1
SYMMETRY Symmetry
CHECK_DEADLOCK FALSE
INVARIANTS CreateTypeOK StoredKeyWins AnswerIsFresh HealthyErrorNeedsSettle
