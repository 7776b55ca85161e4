SPECIFICATION StaleFairSpec
CONSTANTS
  Threads = {t1}
  Sizes = {0, 1, 6}
  Counts = {2}
  ALIGNMENT = 2
  BLOCK_META_SIZE = 2
  PAGE_SIZE = 8
  SIZE_MAX = 31
  MemTop = 23
PROPERTIES
  OnlyLiveReleased
  LockReleased
  ImplementsAllocator
