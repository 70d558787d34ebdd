SPECIFICATION ContainersSpec
CONSTANTS
  u = u
  v = v
  A = A
  B = B
  Keys = {"a", "b", "c"}
  Vals = {u, v}
  Hash <- HashDef
  Word = 1024
  D_MINSIZE = 4
  MaxSize = 8
  NewSizes = {0, 3}
  Addrs = {A, B}
  Fails = TRUE
  Elems = {u, v}
  Preallocations = {0, 2}
  Bounds <- SomeBounds
  Steps <- SomeSteps
  MaxLen = 4
  DivergentCalls = FALSE
CHECK_DEADLOCK FALSE
SYMMETRY Interchangeable
VIEW WithoutStatus
INVARIANTS
  TableSound
  IterFaithful
  ListSound
PROPERTIES
  SizedNeverResizes
  ImplementsMap
  
  ImplementsList
