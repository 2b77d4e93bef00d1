SPECIFICATION ForceFairSpec
CONSTANTS
  Projects = {p1, p2}
  Window = 0  Buffer = 2  HeadLag = 1  LogLag = 0
  FaultKinds = {}  MaxFaults = 0
  MaxEpoch = 1  MaxBlock = 4  MaxClock = 2  InitCheckpoint = 1
  NoTask = NoTask  Permits = 2  Attempts = 2
  TaskFaultKinds = {"lost"}  MaxTaskFaults = 1
INVARIANTS ForcedOnce
PROPERTIES KeepsPromise EveryProjectForced
