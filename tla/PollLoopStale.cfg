SPECIFICATION Spec
CONSTANTS
  None = None
  ServerExec = se
  NewFdExec = ne
  ServerPoll = ps
  NewFdPoll = pn
  ListenFd = fl
  EventFd = fe
  Execs = {se, ne, e1, e2}
  PollDatas = {ps, pn, p1, p2, p3, p4}
  Fds = {fl, fe, f1, f2, f3, f4}
  AllocFrom <- FirstFree
  ThreadCount = 1
  MAX_RETRY_COUNTER = 1
  QueueCapacity = 1
  MaxBatch = 3
  MaxConnections = 2
  MaxEfd = 1
  MaxPipe = 1
INVARIANTS
  NoInvalidRequestCall
