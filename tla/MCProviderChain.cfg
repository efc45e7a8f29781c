SPECIFICATION Spec
CONSTANTS
  Callers = {c1, c2}
  HasSecondary = TRUE
  Api <- ApiOfSource
  EUR = EUR
  USD = USD
  MXN = MXN
  Currencies = {EUR, USD, MXN}
  Worth <- ReferenceRates
  Anchor = EUR
  Waits = {0, 3, 17}
  Half = 8
  Timeout = 3
  MinInterval = 2
  MaxAttempts = 2
  BaseDelay = 1
  MaxDelay = 2
  MaxTime = 4
CHECK_DEADLOCK FALSE
SYMMETRY Symmetry
INVARIANTS TypeOK SlotsSpaced QuotaHeld RetriesBeforeFallback RetryNotBeforeAsked
INVARIANTS SecondarySkippedOnlyLate PriceIsTheQuotient BackoffGrows
