SPECIFICATION HttpSpec
CONSTANTS
  Goroutines = {c1, c2, w1, w2}
  Conns = {c1, c2}
  Workers = {w1, w2}
  Durations = {1}
  PlainVecs = {"updates"}
  Codes = {EUR, USD, GBP}
  Allowed = {EUR, USD}
  Malformed = Malformed
  Methods = {"GET", "HEAD", "POST", "PUT"}
  Pprof = TRUE
  MaxRequests = 2
  MaxCalls = 2
  MaxLoad = 4
CHECK_DEADLOCK FALSE
SYMMETRY Symmetry
INVARIANTS HttpTypeOK CountsMatchAnswers ProviderTotalsAgree EveryReplyCarriesId
PROPERTY CountersOnlyGrow
