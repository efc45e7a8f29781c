SPECIFICATION FairServiceSpec
CONSTANTS
  Handlers = {h1}
  Workers = {w1}
  Pairs = {EURMXN, EURUSD}
  Keys = {}
  NoKey = NoKey
  NoQuote = NoQuote
  Prices = {1}
  QueueSize = 1
  ListLimit = 1
  MaxRequests = 1
  MaxFaults = 1
  MaxClock = 0
  Steady = FALSE
  MaxStarts = 2
PROPERTIES EventuallySettled ShutdownEnds
