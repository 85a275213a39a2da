SPECIFICATION Spec
CONSTANTS
  Clients = {c1, c2}
  NoClient = NoClient
  MaxThreads = 2
  Ports = 2
  QueueCapacity = 1
  AcceptMayFail = TRUE
PROPERTIES
  InactiveIsClosed
