SPECIFICATION ServiceSpec
CONSTANTS
  Handlers = {h1}
  Workers = {w1}
  Pairs = {EURMXN}
  Keys = {}
  NoKey = NoKey
  NoQuote = NoQuote
  Prices = {1}
  QueueSize = 1
  ListLimit = 1
  MaxRequests = 2
  MaxFaults = 1
  MaxClock = 2
  Steady = TRUE
  MaxStarts = 2
INVARIANT QuoteCoversCompleted
PROPERTY QuoteNeverOlder
