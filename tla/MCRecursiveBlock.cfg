CONSTANTS
  p = p
  q = q
  r = r
  x = x
  Ptr <- MCPtr
  Obj <- MCObj
  Null = Null
  Statements <- MCStatements
  Entries <- MCEntries
  MaxMgrs = 3
  MaxBefore = 3
  MaxAfter = 2
  MaxLevel = 4
SPECIFICATION Spec
INVARIANTS
  TypeOK
  DescentSound
  FirstReturnSafe
  RegenerationValid
PROPERTIES
  GenerationCompletes
CHECK_DEADLOCK FALSE
