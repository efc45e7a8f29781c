SPECIFICATION UpdatesSpec
CONSTANTS
  Callers = {w1, w2}
  Pairs = {EURMXN}
  TTL = 2
  Lag = 1
  MaxTime = 5
CHECK_DEADLOCK FALSE
SYMMETRY Symmetry
INVARIANTS UpdatesTypeOK CallerPaysOncePerTTL PaidAgainOnlyByOverlap QuoteDataIsYoung
PROPERTY EntryHardlyRegresses
