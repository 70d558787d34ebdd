SPECIFICATION Spec
CONSTANTS
  p1 = p1
  p2 = p2
  k1 = k1
  k2 = k2
  v1 = v1
  v2 = v2
  None = None
  Procs <- TwoProcs
  Keys <- TwoKeys
  Versions <- TwoVersions
  Overlap = FALSE
  SaveBreaks = FALSE
  EditRace = FALSE
SYMMETRY Symmetry
INVARIANTS
  RightSignature
  FreshCode
  IndexInjective
PROPERTIES
  SavesKept
