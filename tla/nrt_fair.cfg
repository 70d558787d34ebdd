SPECIFICATION FairSpec
CONSTANTS
  Threads = {t1}
  NumVars = 3
  Addrs = {a1, a2, a3}
  NULL = NULL
  Kinds <- AllKinds
  Fails = TRUE
  NRT_STATS = FALSE
  Word = 4
  MaxRefs = 2
PROPERTIES
  Destroyed
