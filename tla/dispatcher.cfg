\* Two threads; outer is a lifted loop that calls inner, which fails for s2 first and for s1 after the rebinding.
SPECIFICATION Spec
CONSTANTS
  t1 = t1
  t2 = t2
  inner = inner
  outer = outer
  s1 = s1
  s2 = s2
  Threads = {t1, t2}
  Funcs = {inner, outer}
  Sigs = {s1, s2}
  Callees <- MCCallees
  Fails <- MCFails
  Fits <- SomeFits
  ObjMode = {}
  Lifted = {outer}
  Cached = {inner}
  Overlap = FALSE
  MaxOps = 2
  MaxGlob = 1
CHECK_DEADLOCK FALSE
INVARIANTS
  StateAgrees
  CallsRight
  RecompileExact
PROPERTIES
  CallsEnd
