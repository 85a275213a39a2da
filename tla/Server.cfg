SPECIFICATION Spec
CONSTANTS
  Clients = {c1, c2, c3}
  NoClient = NoClient
  MaxThreads = 2
  Ports = 2
  QueueCapacity = 2
  AcceptMayFail = TRUE
INVARIANTS
  TypeOK
  
  WakeupPending
PROPERTIES
  HandsOff
  QueuedIsTaken
  StopEnds
