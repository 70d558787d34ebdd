\* Three threads, two synchronizing calls each.
SPECIFICATION Spec
CONSTANTS
  t1 = t1
  t2 = t2
  t3 = t3
  Threads = {t1, t2, t3}
  MayExit = TRUE
  MaxCalls = 2
CHECK_DEADLOCK FALSE
INVARIANTS
  BarrierSound
PROPERTIES
  LaunchEnds
