CONSTANTS
  Size = {"int8", "int16", "int32", "int64"}
  IntSize = "int32"
  Half <- MCHalf
  Bits <- MCBits
  MaxShift = 6
  Power <- MCPower
SPECIFICATION Spec
INVARIANTS
  TypeOK
  NoUndefinedOperation
  ResultAsInC
CHECK_DEADLOCK FALSE
