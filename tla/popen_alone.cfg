SPECIFICATION FairSpec
CONSTANTS
  NoThread = NoThread
  Threads = {t1}
  MaxFd = 7
  MaxCalls = 3
  StdOpen <- AnyStd
  Calls = {"r", "w"}
  Faults = {"fork", "EINTR", "exec"}
INVARIANTS
  NoLostChild
  OnItsPipe
PROPERTIES
  EveryCallReturns
CHECK_DEADLOCK FALSE
