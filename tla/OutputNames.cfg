SPECIFICATION Spec
CONSTANTS
  Workers = {w1, w2}
  Main = main
  Free = free
  NoSymbol = none
  PathMax = 6
  Cwd <- WorkDir
  Tree <- TwinTree
  Project <- MCProject
  Roots <- TwinRoot
  Paths <- MCPaths
  Names <- MCNames
  Signatures = {"unary", "binary"}
  Builtins <- MCBuiltins
  ReadOutcome <- MCReadOutcome
  Decls <- MCDecls
  Calls <- MCCalls
  GenOutcome <- MCGenOutcome
  Output <- MCOutput
INVARIANTS
  OutputsDistinct
