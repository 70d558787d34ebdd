\* A table whose deleted entries are never turned back into empty ones.
SPECIFICATION Spec
CONSTANTS
  Keys = {"k0", "k1", "k2", "k3"}
  Hash <- Neighbours
  HashBits = 6
  MINSIZE = 4
  LINEAR_PROBES = 1
  ShiftBits = 2
  MaxDoublings = 4
INVARIANT NoInfiniteChain
CHECK_DEADLOCK FALSE
VIEW Essential
