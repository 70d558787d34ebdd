\* Three workers; two callers that overlap except inside the nesting test.
SPECIFICATION FairSpec
CONSTANTS
  c1 = c1
  c2 = c2
  Callers <- TwoCallers
  NumThreads = 3
  Totals <- Sizes
  Racing = FALSE
  ForkMidRegion = FALSE
INVARIANTS
  RestoredBetween
PROPERTIES
  SlotsSafe
  TeamSound
  ForkJoinSpec
  RegionEnds
