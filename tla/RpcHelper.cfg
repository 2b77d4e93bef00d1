SPECIFICATION FairSpec
CONSTANTS
  Calls = {c1, c2}
  AppIds <- Names  Limits <- TwoLimits  NameOf <- OneName
  NodeCount = 2  Retry = 3  Spans = {2}
  FaultKinds <- AllFaults  MaxFaults = 2
INVARIANTS TypeOK ReadyToCall WithinLimits CountersExpire
PROPERTIES WindsDown FailsOver CallsEnd
CHECK_DEADLOCK FALSE
