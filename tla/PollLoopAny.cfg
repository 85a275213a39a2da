SPECIFICATION Spec
CONSTANTS
  None = None
  ServerExec = se
  NewFdExec = ne
  ServerPoll = ps
  NewFdPoll = pn
  ListenFd = fl
  EventFd = fe
  Execs = {se, ne, e1}
  PollDatas = {ps, pn, p1, p2}
  Fds = {fl, fe, f1, f2}
  AllocFrom <- AnyFree
  ThreadCount = 1
  MAX_RETRY_COUNTER = 3
  QueueCapacity = 1
  MaxBatch = 4
  MaxConnections = 1
  MaxEfd = 1
  MaxPipe = 3
INVARIANTS
  ConnectionsArmed
