SPECIFICATION FairSpec
CONSTANTS
  Threads = {t1, t2}
  stdin = stdin
  stdout = stdout
  Null = Null
  Files = {stdin, stdout, f1, f2, f3}
  Tty = FALSE
  BufSize = 2
  Faults = {"write"}
  MaxPut = 3
  MaxCalls = 5
INVARIANTS
  LocksHeld
  NoUseAfterFree
  ListExact
  SentOnceInOrder
PROPERTIES
  FlushAllStores
  EveryCallReturns
