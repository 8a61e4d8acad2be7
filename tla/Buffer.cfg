SPECIFICATION BufferSpec
CONSTANTS
  Threads = {t1, t2}
  Capacity = 6
  Sizes = {1, 3}
  Alignments = {1, 2}
INVARIANT
  BufferTypeOK
PROPERTIES
  ImplementsArena
  RefusalJustified
