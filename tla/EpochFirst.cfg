SPECIFICATION Spec
CONSTANTS
  Height = 2  Offset = 1  BaseEnd = 0
  CheckEvery = 3  TickerBegin = 0  StartSet = TRUE  RetryLimit = 3
  ContractChecks = TRUE
  FaultKinds <- GaplessFaults  MaxFaults = 2
  InitHead = 3  MaxHead = 8  Lag = 1
INVARIANTS SentSettled NonceGapFree
