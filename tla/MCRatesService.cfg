SPECIFICATION ServiceSpec
CONSTANTS
  Handlers = {h1}
  Workers = {w1, w2}
  Pairs = {EURMXN}
  Keys = {}
  NoKey = NoKey
  NoQuote = NoQuote
  Prices = {1}
  QueueSize = 1
  ListLimit = 1
  MaxRequests = 2
  MaxFaults = 1
  MaxClock = 0
  Steady = FALSE
  MaxStarts = 2
SYMMETRY Symmetry
INVARIANTS TypeOK CompletedHasQuote ResyncNeverPanics DrainedBeforeExit
PROPERTIES ImplementsLedger SettledIsFinal
