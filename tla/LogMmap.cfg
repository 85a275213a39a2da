SPECIFICATION Spec
CONSTANTS
  logFileSize = 5
  maxMessageSize = 3
  MaxArchiveCount = 3
  MaxMessages = 8
  MaxStarts = 3
INVARIANTS
  TypeOK
  WritesInside
PROPERTIES
  
  
  Recovers
CHECK_DEADLOCK FALSE
