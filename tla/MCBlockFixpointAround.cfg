CONSTANTS
  p = p
  q = q
  l = l
  obj = obj
  tmp = tmp
  Ptr = {p, q, l}
  Target = {obj, tmp, Null, Garbage}
  Local = {l, tmp}
  Null = Null
  Garbage = Garbage
  InitOf <- MCInitOf
  Assigns <- MCNulling
  Derefs = {p}
  Jumps = {"return", "forward", "around"}
  Entries <- MCEntries
  MaxNodes = 7
  MaxRounds = 8
SPECIFICATION Spec
INVARIANTS
  NoBadDereference
CHECK_DEADLOCK FALSE
