SPECIFICATION Spec
CONSTANTS
  Height = 2  Offset = 1  BaseEnd = 0
  CheckEvery = 3  TickerBegin = 0  StartSet = FALSE  RetryLimit = 2
  ContractChecks = FALSE
  FaultKinds <- LossyFaults  MaxFaults = 3
  InitHead = 1  MaxHead = 12  Lag = 1
INVARIANTS TypeOK Aligned Contiguous
PROPERTIES LedgerSpec
