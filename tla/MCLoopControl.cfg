CONSTANTS
  s = s
  u = u
  Var <- MCVar
  Signed <- MCSigned
  Bits <- MCBits
  IntBits = 6
  WrapperBits = {5, 6}
  Span = 4
  MaxIncr = 2
  Lengths = {2, 13}
  MaxNest = 2
  MixedNest = 1
SPECIFICATION Spec
INVARIANTS
  TypeOK
  IndexInBounds
  PlainLoopsDoNotWrap
PROPERTIES
  PlainNestsEnd
CHECK_DEADLOCK FALSE
