CONSTANTS
  Trees <- MCTrees
  Demands <- MCDemands
  MaxDepths = {2, 3}
SPECIFICATION Spec
INVARIANTS
  TypeOK
  SearchStack
  RevisitInRange
PROPERTIES
  EnumeratesPrograms
  SearchEnds
CHECK_DEADLOCK FALSE
