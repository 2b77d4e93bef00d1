SPECIFICATION ShutdownFairSpec
CONSTANTS
  Height = 2  Offset = 1  BaseEnd = 3
  CheckEvery = 2  TickerBegin = 0  StartSet = FALSE  RetryLimit = 2
  ContractChecks = TRUE
  FaultKinds <- SignalFaults  MaxFaults = 1
  InitHead = 6  MaxHead = 8  Lag = 0
PROPERTIES ShutsDown
