SPECIFICATION ServiceSpec
CONSTANTS
  Handlers = {h1}
  Workers = {w1}
  Pairs = {EURMXN}
  Keys = {}
  NoKey = NoKey
  NoQuote = NoQuote
  Prices = {1}
  QueueSize = 1
  ListLimit = 1
  MaxRequests = 1
  MaxFaults = 0
  MaxClock = 0
  Steady = FALSE
  MaxStarts = 2
INVARIANT NoEnqueueAfterClose
