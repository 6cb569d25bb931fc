CONSTANTS
  x = x
  uni = uni
  sf = sf
  a = a
  p = p
  sg = sg
  l = l
  use = use
  copy = copy
  read = read
  None = None
  Null = Null
  Var <- MCVar
  FieldOf <- MCFieldOf
  Unions = {uni}
  Volatile = {uni, sf, l}
  Global = {x, uni, sf, sg, a, p}
  Ptr = {p}
  Pointees = {x, l}
  Index <- MCIndex
  NoWrite = {}
  Leaves <- MCLeaves
  Targets <- MCTargets
  Func = {use, copy, read}
  Body <- MCBody
  Stack = {l}
  CurrLocals = {}
  Entries <- MCEntries
  MaxSteps = 7
  MaxStatements = 1
SPECIFICATION Spec
INVARIANTS
  TypeOK
  OrderDoesNotMatter
  AccumulatedCovers
  GeneratedPassesAnalysis
CHECK_DEADLOCK FALSE
