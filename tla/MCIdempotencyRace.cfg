SPECIFICATION IdemSpec
CONSTANTS
  Handlers = {h1, h2}
  Keys = {k1}
  Pairs = {EURMXN}
  NoKey = NoKey
  NoQuote = NoQuote
  Prices = {1}
  MaxClock = 0
  ListLimit = 2
  MaxRequests = 3
  MaxFaults = 0
SYMMETRY Symmetry
CHECK_DEADLOCK FALSE
INVARIANT NoHealthyError
