SPECIFICATION Spec
CONSTANTS
  blockSize = 2
  MaxBlocks = 2
INVARIANTS
  TypeOK
  ListsPartition
  DoublyLinked
PROPERTIES
  IsPool
