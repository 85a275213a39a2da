SPECIFICATION Spec
CONSTANTS
  bufSize = 24
  Requests <- MCRequests
  Proxies <- MCProxies
  atoi <- MCatoi
  BUF_CHARS = 2
  MAX_FILE_NAME = 5
INVARIANTS
  TypeOK
  FieldsAsSent
  
  HeaderFound
PROPERTIES
  Answered
  AsIfWhole
