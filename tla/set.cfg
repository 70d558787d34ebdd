\* Tables of 4 and 16 entries, three items.
SPECIFICATION Spec
CONSTANTS
  Keys = {"zero", "sixteen", "minus"}
  Hash <- HashDef
  HashBits = 6
  MINSIZE = 4
  LINEAR_PROBES = 1
  ShiftBits = 2
  MaxDoublings = 3
CHECK_DEADLOCK FALSE
VIEW Essential
INVARIANTS
  TableSound
PROPERTIES
  Reflected
  ImplementsSets
