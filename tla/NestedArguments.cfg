SPECIFICATION MCSpec
CONSTANTS
  Programs <- NestedUnits
  Nodes <- NestedNodes
  VoidFunctions = {"v", "print"}
  LocalFunctions = {"f", "g", "h", "k", "v"}
  NoValue = novalue
  NoNode = nonode
INVARIANT
  ArgumentsIsolated
