SPECIFICATION Spec
CONSTANTS
  bufSize = 5
  Bytes = {0, 1}
INVARIANTS
  TypeOK
  RefusedWhenFull
PROPERTIES
  IsFifo
