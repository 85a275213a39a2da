SPECIFICATION ConnectionSpec
CONSTANTS
  bufSize = 5
  MAX_RETRY_COUNTER = 3
  MaxFile = 8
INVARIANTS
  TypeOK
  Armed
  FileAccounted
PROPERTIES
  SameWriteAgain
  FlushEnds
  ReadResumes
  FileEnds
