CONSTANTS
  x = x
  p = p
  a = a
  pp = pp
  Var <- MCVar
  Level <- MCLevel
  Array <- MCArray
  Globals <- MCGlobals
  Null = Null
  Garbage = Garbage
  Entries <- MCEntries
  MaxDepth = 2
  MaxSize <- MCMaxSize
SPECIFICATION Spec
INVARIANTS
  TypeOK
  FactsSound
  NoBadDereference
  ReturnFactsSound
  FactsWellScoped
  WaitingSound
  Reachable
CHECK_DEADLOCK FALSE
