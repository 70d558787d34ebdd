SPECIFICATION Spec
CONSTANTS
  Threads = {t1, t2}
  NumVars = 2
  Addrs = {a1, a2, a3}
  NULL = NULL
  Kinds <- AllKinds
  Fails = FALSE
  NRT_STATS = TRUE
  Word = 4
  MaxRefs = 3
SYMMETRY Symmetry
INVARIANTS
  RefctExact
  MemorySafe
  LeaksSeen
