SPECIFICATION Spec
CONSTANTS
  Threads = {main, t1, t2}
  Main = main
  Nobody = nobody
  NoMemory = null
  Sizes = {4}
  Alignments = {1}
  Capacity = 28
  Texts <- TextSet
  TextLen <- Lengths
  KeyOf <- UpToNul
  NShards = 2
  ShardOf <- TwoShards
  ChunkCapacity = 4
  Reserve = 2
  RefillCount = 2
  RefillThreshold = 1
  MaxCalls = 2
INVARIANTS
  OneAddressPerText
  TextsApart
PROPERTIES
  CallsEnd
