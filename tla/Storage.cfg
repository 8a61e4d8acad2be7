SPECIFICATION StorageSpec
CONSTANTS
  Threads = {t1, t2}
  Nobody = nobody
  declaration = declaration
  literal = literal
  Kinds <- MCKinds
  Capacity <- MCCapacity
  Payloads = {p, q}
  Raw = raw
  MaxNodes = 4
INVARIANTS
  TablesGuarded
  ReferencesValid
  NodesKeepData
CHECK_DEADLOCK FALSE
