SPECIFICATION Spec
SYMMETRY Symmetry
CONSTANTS
  NoThread = NoThread
  Threads = {t1, t2}
  MaxFd = 5
  MaxCalls = 3
  StdOpen <- BothStd
  Calls = {"r", "w", "system", "malloc"}
  Faults = {"fork", "fdopen", "malloc", "EINTR"}
INVARIANTS
  ListMatchesStreams
PROPERTIES
  ReapsItsOwn
CHECK_DEADLOCK FALSE
