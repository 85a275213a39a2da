------------------------------ MODULE Executors ------------------------------
(***************************************************************************)
(* The executors that serve a clear (not SSL) connection: RequestExecutor, *)
(* FileExecutor and ProxyExecutorSplice. Their up() and process() are      *)
(* operators from a registry to the set of their outcomes; what a system   *)
(* call may return (EAGAIN, an error, some or all of the bytes) and what   *)
(* the parser decides is the choice among them.                            *)
(***************************************************************************)
EXTENDS PollRegistry

ok == "ok"
removeExecutorOk == "removeExecutorOk"
removeExecutorError == "removeExecutorError"
shutdown == "shutdown"

Return(result, r) == [result |-> result, reg |-> r]

\* Continue with Next(reg) after a call that returned 0; otherwise the handler
\* returns removeExecutorError.
Then(outcomes, Next(_)) ==
  UNION {IF o.ok THEN Next(o.reg) ELSE {Return(removeExecutorError, o.reg)} :
         o \in outcomes}

\* The same inside up(), which returns 0 or -1.
ThenUp(outcomes, Next(_)) ==
  UNION {IF o.ok THEN Next(o.reg) ELSE {o} : o \in outcomes}

Retry(r, e) == [r EXCEPT !.exec[e].retryCounter = @ + 1]
Progress(r, e) == [r EXCEPT !.exec[e].retryCounter = 0]
SetState(r, e, s) == [r EXCEPT !.exec[e].state = s]
RemoveOnTimeout(r, e, b) == [r EXCEPT !.exec[e].removeOnTimeout = b]

----------------------------------------------------------------------------
(* RequestExecutor *)

RequestUp(r, e) ==
  {IF o.ok THEN Done(SetState(o.reg, e, "readRequest")) ELSE o :
     o \in addPollFd(RemoveOnTimeout(r, e, TRUE), e, r.exec[e].fd0, {"IN"})}

----------------------------------------------------------------------------
(* FileExecutor *)

\* open() fails with ENOENT (the 404 response) or otherwise, fstat() fails, or
\* the response does not fit the buffer, with or without the file open.
FileUp(r, e) ==
  LET q == RemoveOnTimeout(r, e, TRUE) IN
  {Failed(q)} \cup
  ThenUp(editPollFd(q, e, q.exec[e].fd0, {"OUT"}),
         LAMBDA t : {Done(SetState(t, e, "sendOnlyHeaders"))}) \cup
  UNION {LET s == [OpenFd(q, f) EXCEPT !.exec[e].fd1 = f] IN
         {Failed(s)} \cup
         UNION {editPollFd(SetState(s, e, st), e, s.exec[e].fd0, {"OUT"}) :
                st \in {"sendHeaders", "sendOnlyHeaders"}} :
         f \in FreshFds(q)}

process_sendHeaders(r, e) ==
  {Return(removeExecutorError, r), Return(ok, Retry(r, e)),
   Return(ok, Progress(r, e)),
   IF r.exec[e].state = "sendOnlyHeaders"
   THEN Return(removeExecutorOk, Progress(r, e))
   ELSE Return(ok, SetState(Progress(r, e), e, "sendFile"))}

process_sendFile(r, e) ==
  {Return(removeExecutorError, r), Return(ok, Retry(r, e)),
   Return(ok, Progress(r, e)), Return(removeExecutorOk, Progress(r, e))}

FileProcess(r, e, fd, events) ==
  LET d == r.exec[e] IN
  CASE /\ d.state \in {"sendHeaders", "sendOnlyHeaders"}
       /\ fd = d.fd0 /\ "OUT" \in events -> process_sendHeaders(r, e)
    [] d.state = "sendFile" /\ fd = d.fd0 /\ "OUT" \in events ->
         process_sendFile(r, e)
    [] OTHER -> {Return(removeExecutorError, r)}

----------------------------------------------------------------------------
(* ProxyExecutorSplice *)

\* connect() fails, completes at once, or is in progress.
ProxyUp(r, e) ==
  LET q == RemoveOnTimeout(r, e, TRUE) IN
  {Failed(q)} \cup
  UNION {LET s == [OpenFd(q, f) EXCEPT !.exec[e].fd1 = f] IN
         ThenUp(addPollFd(s, e, f, {"OUT"}), LAMBDA t :
         ThenUp({removePollFd(t, e, t.exec[e].fd0)}, LAMBDA u :
         {Done(SetState(u, e, "forwardRequest")),
          Done(SetState(u, e, "waitConnect"))})) :
         f \in FreshFds(q)}

\* pipe2() may fail.
openPipe(r, e) == {Failed(r), Done([r EXCEPT !.exec[e].pipe = TRUE])}

process_forwardRequest(r, e) ==
  {Return(removeExecutorError, r), Return(ok, Retry(r, e)),
   Return(ok, Progress(r, e))} \cup
  Then(editPollFd(SetState(Progress(r, e), e, "forwardResponse"),
                  e, r.exec[e].fd1, {"IN"}), LAMBDA q :
  Then(openPipe(q, e), LAMBDA s : {Return(ok, s)}))

process_waitConnect(r, e) ==
  {Return(removeExecutorError, r), Return(ok, Retry(r, e))} \cup
  process_forwardRequest(SetState(r, e, "forwardRequest"), e)

\* Register fd0 for writing, stop polling fd0, poll fd1 again: each only when
\* it is not so already.
PollFd0(r, e) ==
  IF r.exec[e].pollData0 # None THEN {Done(r)}
  ELSE addPollFd(r, e, r.exec[e].fd0, {"OUT"})

UnpollFd0(r, e) ==
  IF r.exec[e].pollData0 = None THEN {Done(r)}
  ELSE {removePollFd(r, e, r.exec[e].fd0)}

PollFd1(r, e) ==
  IF r.exec[e].pollData1 # None THEN {Done(r)}
  ELSE addPollFd(r, e, r.exec[e].fd1, {"IN"})

UnpollFd1(r, e) ==
  IF r.exec[e].pollData1 = None THEN {Done(r)}
  ELSE {removePollFd(r, e, r.exec[e].fd1)}

RetryOk(r, e) == {Return(ok, Retry(r, e))}

\* Wrong: the bytes written are counted twice.
SpliceWrittenTwice(r, e, n) ==
  {Return(ok, [r EXCEPT !.exec[e].bytesInPipe = @ - 2 * n])}

\* Wrong: fd1 is not polled again when the pipe has drained.
SpliceWrittenNoRead(r, e, n) ==
  LET left == r.exec[e].bytesInPipe - n
      q == Progress([r EXCEPT !.exec[e].bytesInPipe = left], e) IN
  IF r.exec[e].state = "forwardResponseOnlyWrite" /\ left = 0
  THEN {Return(removeExecutorOk, q)}
  ELSE IF left > 0 THEN Then(PollFd0(q, e), LAMBDA s : RetryOk(s, e))
  ELSE Then(UnpollFd0(q, e), LAMBDA s : RetryOk(s, e))

\* After n chunks went from the pipe to the client.
SpliceWritten(r, e, n) ==
  LET left == r.exec[e].bytesInPipe - n
      q == Progress([r EXCEPT !.exec[e].bytesInPipe = left], e) IN
  IF r.exec[e].state = "forwardResponseOnlyWrite" /\ left = 0
  THEN {Return(removeExecutorOk, q)}
  ELSE IF left > 0 THEN Then(PollFd0(q, e), LAMBDA s : RetryOk(s, e))
  ELSE Then(UnpollFd0(q, e), LAMBDA s :
       Then(PollFd1(s, e), LAMBDA t : RetryOk(t, e)))

\* splice() out of a pipe that holds data does not return 0.
process_forwardResponseWrite(r, e) ==
  IF r.exec[e].bytesInPipe > 0
  THEN {Return(removeExecutorError, r)} \cup
       Then(PollFd0(Retry(r, e), e), LAMBDA q : {Return(ok, q)}) \cup
       UNION {SpliceWritten(r, e, n) : n \in 1 .. r.exec[e].bytesInPipe}
  ELSE IF r.exec[e].state = "forwardResponseOnlyWrite"
  THEN {Return(removeExecutorOk, r)}
  ELSE RetryOk(r, e)

\* splice() into the pipe: end of file, EAGAIN (also when the pipe is full),
\* an error, or up to what the pipe has room for.
process_forwardResponseRead(r, e) ==
  LET room == MaxPipe - r.exec[e].bytesInPipe IN
  {Return(removeExecutorError, r)} \cup
  (IF r.exec[e].bytesInPipe > 0
   THEN Then(UnpollFd1(Retry(r, e), e), LAMBDA q : {Return(ok, q)})
   ELSE RetryOk(r, e)) \cup
  (IF room = 0 THEN {}
   ELSE process_forwardResponseWrite(
          SetState(closeFd1(r, e), e, "forwardResponseOnlyWrite"), e)) \cup
  UNION {process_forwardResponseWrite(
           [Progress(r, e) EXCEPT !.exec[e].bytesInPipe = @ + n], e) :
         n \in 1 .. room}

ProxyProcess(r, e, fd, events) ==
  LET d == r.exec[e] IN
  CASE d.state = "waitConnect" /\ fd = d.fd1 /\ "OUT" \in events ->
         process_waitConnect(r, e)
    [] d.state = "forwardRequest" /\ fd = d.fd1 /\ "OUT" \in events ->
         process_forwardRequest(r, e)
    [] d.state = "forwardResponse" /\ fd = d.fd1 /\ "IN" \in events ->
         process_forwardResponseRead(r, e)
    [] /\ d.state \in {"forwardResponse", "forwardResponseOnlyWrite"}
       /\ fd = d.fd0 /\ "OUT" \in events ->
         process_forwardResponseWrite(r, e)
    [] OTHER -> {Return(removeExecutorError, r)}

----------------------------------------------------------------------------
(* RequestExecutor::process, which hands the connection to another executor *)

SetExecutor(r, e, kind) == [r EXCEPT !.exec[e].pExecutor = kind]

setExecutor(r, e, kind) ==
  Then(IF kind = "file" THEN FileUp(SetExecutor(r, e, kind), e)
       ELSE ProxyUp(SetExecutor(r, e, kind), e),
       LAMBDA q : {Return(ok, q)})

\* The read fails or the client has gone; there is nothing to read, and the
\* incomplete request stays so; or the request read is invalid, still
\* incomplete, for a file or for a proxy.
process_readRequest(r, e) ==
  LET q == Progress(r, e) IN
  {Return(removeExecutorError, r), Return(removeExecutorError, q),
   Return(ok, Retry(r, e)), Return(ok, q)} \cup
  setExecutor(q, e, "file") \cup setExecutor(q, e, "proxy")

RequestProcess(r, e, fd, events) ==
  IF /\ r.exec[e].state = "readRequest"
     /\ fd = r.exec[e].fd0 /\ "IN" \in events
  THEN process_readRequest(r, e)
  ELSE {Return(removeExecutorError, r)}

----------------------------------------------------------------------------
\* execData->pExecutor->process(*execData, pollData->fd, events) for the
\* executors of client connections.
process(r, e, fd, events) ==
  CASE r.exec[e].pExecutor = "request" -> RequestProcess(r, e, fd, events)
    [] r.exec[e].pExecutor = "file"    -> FileProcess(r, e, fd, events)
    [] r.exec[e].pExecutor = "proxy"   -> ProxyProcess(r, e, fd, events)
=============================================================================
