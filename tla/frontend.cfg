CONSTANTS
  Programs <- MCPrograms
  Tokens = 3
SPECIFICATION Spec
INVARIANTS
  AnalysesRight
  ReadsLastAssigned
  
  TypesRight
PROPERTIES
  TypesOnlyGrow
