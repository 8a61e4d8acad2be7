SPECIFICATION Spec
CONSTANTS
  Numbers <- MCNumbers
  Names <- MCNames
  Slots = 2
  Equations <- MCEquations
  VarLists <- MCVarLists
  Trees <- MCTrees
  Height = 2
  Length = 4
INVARIANTS
  VerdictRight
  IRExecutable
  GroupedAsWritten
  RootRight
CHECK_DEADLOCK FALSE
