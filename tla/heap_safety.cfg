SPECIFICATION Spec
SYMMETRY Symmetry
CONSTANTS
  Threads = {t1, t2}
  Sizes = {0, 1, 6, 17, 28, 30}
  Counts = {0, 2}
  ALIGNMENT = 2
  BLOCK_META_SIZE = 2
  PAGE_SIZE = 8
  SIZE_MAX = 31
  MemTop = 23
INVARIANTS
  HeapInv
  NoOverlap
  NoLeak
  ReallocCopySafe
