SPECIFICATION MCSpec
CONSTANTS
  Programs <- Units
  Nodes <- UnitNodes
  VoidFunctions = {"v", "print"}
  LocalFunctions = {"f", "g", "h", "k", "v"}
  NoValue = novalue
  NoNode = nonode
INVARIANTS
  CodeGenTypeOK
  ContextsMatchNesting
  AddressesLocal
  MeaningPreserved
