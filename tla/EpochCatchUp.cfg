SPECIFICATION ShutdownFairSpec
CONSTANTS
  Height = 2  Offset = 1  BaseEnd = 0
  CheckEvery = 3  TickerBegin = 4  StartSet = FALSE  RetryLimit = 2
  ContractChecks = TRUE
  FaultKinds <- AllFaults  MaxFaults = 2
  InitHead = 6  MaxHead = 14  Lag = 1
INVARIANTS BoundedDrift
PROPERTIES NoResubmission CatchUp
