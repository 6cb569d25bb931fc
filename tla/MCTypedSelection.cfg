CONSTANTS
  Programs <- MCPrograms
  MaxLevel = 2
  MaxVars = 3
  MaxWork = 3
SPECIFICATION Spec
INVARIANTS
  TypeOK
  NoHole
  ConstNeverWritten
  ConversionsLegal
  AssertionsHold
CHECK_DEADLOCK FALSE
