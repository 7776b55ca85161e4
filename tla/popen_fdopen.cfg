SPECIFICATION FairSpec
CONSTANTS
  NoThread = NoThread
  Threads = {t1}
  MaxFd = 5
  MaxCalls = 2
  StdOpen <- BothStd
  Calls = {"r", "w"}
  Faults = {"fdopen"}
PROPERTIES
  EveryCallReturns
CHECK_DEADLOCK FALSE
