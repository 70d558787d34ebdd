SPECIFICATION Spec
CONSTANTS
  c1 = c1
  w1 = w1
  w2 = w2
  Callers <- OneCaller
  Workers <- OneWorker
  NumThreads = 4
  Spaces <- AllSpaces
  InnerSpaces <- OneLine
  ChunkSizes = {0, 1, 3}
  MaxDepth = 3
  PyNested = FALSE
  KernelsSet = FALSE
VIEW View
INVARIANTS
  ScheduleRight
  KernelSeesZero

  
