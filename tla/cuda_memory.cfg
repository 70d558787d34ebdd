\* Two threads, two blocks, three allocations: blocks are reused and memory runs out.
SPECIFICATION Spec
CONSTANTS
  t1 = t1
  t2 = t2
  Threads = {t1, t2}
  Addrs = {1, 2}
  MaxCount = 2
  MaxBytes = 1
  MayDefer = TRUE
  MayReset = TRUE
  MaxAllocs = 3
  MaxHandles = 2
  MaxOps = 4
  MaxErrors = 1
SYMMETRY Symm
CHECK_DEADLOCK FALSE
INVARIANTS
  MemorySafe
  OomMeansFull
PROPERTIES
  FreedOnTime
