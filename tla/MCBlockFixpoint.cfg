CONSTANTS
  p = p
  q = q
  l = l
  obj = obj
  tmp = tmp
  Ptr = {p, q, l}
  Target = {obj, tmp, Null, Garbage}
  Local = {l, tmp}
  Null = Null
  Garbage = Garbage
  InitOf <- MCInitOf
  Assigns <- MCAssigns
  Derefs = {p}
  Jumps = {"break", "continue", "return", "back", "forward"}
  Entries <- MCEntries
  MaxNodes = 6
  MaxRounds = 8
SPECIFICATION Spec
INVARIANTS
  TypeOK
  GraphWellFormed
  FactsCoverExecution
  NoBadDereference
  FixedPointFound
  IInv
CHECK_DEADLOCK FALSE
