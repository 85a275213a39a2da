------------------------------ MODULE PollLoop ------------------------------
(***************************************************************************)
(* One PollLoop: the epoll loop of run(), the dispatch of a batch of       *)
(* events to the executors, the hand-off of new clients through newFdsQueue*)
(* and the event descriptor, the timeout sweep, and stop().                *)
(*                                                                         *)
(* The loop has one listening executor (ServerExec) and its event          *)
(* descriptor's executor (NewFdExec); every other ExecutorData serves a    *)
(* client connection. Other threads appear as the actions EnqueueClientFd  *)
(* and Stop.                                                               *)
(***************************************************************************)
EXTENDS Executors, Sequences

CONSTANTS
  ServerExec, NewFdExec,     \* the two permanent ExecutorData
  ServerPoll, NewFdPoll,     \* and their PollData
  ListenFd, EventFd,         \* and their descriptors
  ThreadCount,               \* parameters->threadCount
  MAX_RETRY_COUNTER,         \* 1000 in the code
  QueueCapacity,             \* capacity of newFdsQueue, 1000 in the code
  MaxBatch,                  \* MAX_EPOLL_EVENTS
  MaxConnections,            \* bound of the model on clients at a time
  MaxEfd                     \* bound of the model on unread wake-ups

ASSUME PermanentAssumption ==
  /\ {ServerExec, NewFdExec} \subseteq Execs /\ ServerExec # NewFdExec
  /\ {ServerPoll, NewFdPoll} \subseteq PollDatas /\ ServerPoll # NewFdPoll
  /\ {ListenFd, EventFd} \subseteq Fds /\ ListenFd # EventFd

ASSUME NumbersAssumption ==
  /\ ThreadCount \in Nat \ {0} /\ MAX_RETRY_COUNTER \in Nat
  /\ QueueCapacity \in Nat \ {0} /\ MaxBatch \in Nat \ {0}
  /\ MaxConnections \in Nat \ {0} /\ MaxEfd \in Nat \ {0}

VARIABLES
  reg,      \* pools, interest list and open descriptors (module PollRegistry)
  runFlag,  \* the atomic flag that stop() clears
  phase,    \* where run() is
  batch,    \* events[] of the last epoll_wait that are still to be dispatched
  expired,  \* removeExecDatas, in checkTimeout()
  queue,    \* newFdsQueue
  efd       \* the counter of the event descriptor

vars == <<reg, runFlag, phase, batch, expired, queue, efd>>

Phases == {"wait", "dispatch", "drain", "timeout", "stopped"}

\* An event carries a PollData pointer. fd and exec record what the kernel
\* reported it for; the code does not have them.
Event == [pollData : PollDatas, events : (SUBSET Events) \ {{}},
          fd : Fds, exec : Execs]

Connections == Execs \ {ServerExec, NewFdExec}
Live == reg.execUsed \ {ServerExec, NewFdExec}
Queued == {queue[i] : i \in 1 .. Len(queue)}

----------------------------------------------------------------------------
(* init() and listenPort(), which run before the thread starts *)

Permanent(kind, fd, p) ==
  [DownExecutorData EXCEPT !.pExecutor = kind, !.state = "ok", !.fd0 = fd,
                           !.pollData0 = p, !.removeOnTimeout = FALSE]

InitialRegistry ==
  [exec |-> [e \in Execs |->
      IF e = ServerExec THEN Permanent("server", ListenFd, ServerPoll)
      ELSE IF e = NewFdExec THEN Permanent("newFd", EventFd, NewFdPoll)
      ELSE DownExecutorData],
   execUsed |-> {ServerExec, NewFdExec},
   poll |-> [p \in PollDatas |->
      IF p = ServerPoll THEN [fd |-> ListenFd, execData |-> ServerExec]
      ELSE IF p = NewFdPoll THEN [fd |-> EventFd, execData |-> NewFdExec]
      ELSE DownPollData],
   pollUsed |-> {ServerPoll, NewFdPoll},
   epoll |-> [f \in Fds |->
      IF f = ListenFd THEN [ptr |-> ServerPoll, events |-> {"IN"}]
      ELSE IF f = EventFd THEN [ptr |-> NewFdPoll, events |-> {"IN"}]
      ELSE NotPolled],
   open |-> {ListenFd, EventFd}, numOfPollFds |-> 2]

Init ==
  /\ reg = InitialRegistry /\ runFlag = TRUE /\ phase = "wait"
  /\ batch = {} /\ expired = {} /\ queue = <<>> /\ efd = 0

----------------------------------------------------------------------------
(* epoll_wait *)

Accepting == \E ev \in batch : ev.fd = ListenFd

\* A bound of the model: clients that are connected, queued or about to be
\* accepted, and unread wake-ups.
HasRoom ==
  /\ Cardinality(Live) + Len(queue) + (IF Accepting THEN 1 ELSE 0)
       < MaxConnections
  /\ efd < MaxEfd

\* What may be reported for descriptor f: level-triggered, so anything it is
\* registered for. The event descriptor is readable when its counter is not
\* 0, and the listening socket when a client waits.
Reportable(f) ==
  IF reg.epoll[f].ptr = None THEN {}
  ELSE IF f = EventFd THEN IF efd > 0 THEN {{"IN"}} ELSE {}
  ELSE IF f = ListenFd THEN IF HasRoom THEN {{"IN"}} ELSE {}
  ELSE {E \in SUBSET (reg.epoll[f].events \cup {"ERR"}) : E # {}}

EventOf(f, E) ==
  [pollData |-> reg.epoll[f].ptr, events |-> E, fd |-> f,
   exec |-> reg.poll[reg.epoll[f].ptr].execData]

\* At most MaxBatch descriptors are reported, none when the wait times out.
EpollWait ==
  /\ phase = "wait" /\ runFlag
  /\ \E F \in SUBSET {f \in Fds : Reportable(f) # {}} :
       /\ Cardinality(F) <= MaxBatch
       /\ \E ready \in [F -> (SUBSET Events) \ {{}}] :
            /\ \A f \in F : ready[f] \in Reportable(f)
            /\ batch' = {EventOf(f, ready[f]) : f \in F}
  /\ phase' = "dispatch"
  /\ UNCHANGED <<reg, runFlag, expired, queue, efd>>

----------------------------------------------------------------------------
(* One turn of the for loop in run(). The order of the batch is the        *)
(* kernel's, so any event may be next.                                     *)

Take(ev) ==
  /\ phase = "dispatch" /\ ev \in batch
  /\ batch' = batch \ {ev}

Target(ev) == reg.poll[ev.pollData].execData

Dispatchable(ev) ==
  IF Target(ev) = None THEN FALSE ELSE reg.exec[Target(ev)].state # "invalid"

IsHangup(ev) ==
  "ERR" \in ev.events /\ reg.poll[ev.pollData].fd = reg.exec[Target(ev)].fd0

\* The PollData was freed by an earlier event of the batch.
SkipFreed(ev) ==
  /\ Take(ev) /\ ~Dispatchable(ev)
  /\ UNCHANGED <<reg, runFlag, phase, expired, queue, efd>>

\* EPOLLRDHUP or EPOLLERR on fd0.
Hangup(ev) ==
  /\ Take(ev) /\ Dispatchable(ev) /\ IsHangup(ev)
  /\ reg' = removeExecutorData(reg, Target(ev))
  /\ UNCHANGED <<runFlag, phase, expired, queue, efd>>

\* What run() does with the result of process().
AfterProcess(e, out) ==
  IF \/ out.result \in {removeExecutorOk, removeExecutorError}
     \/ out.reg.exec[e].retryCounter > MAX_RETRY_COUNTER
  THEN removeExecutorData(out.reg, e)
  ELSE out.reg

Process(ev) ==
  LET e == Target(ev) IN
  /\ Take(ev) /\ Dispatchable(ev) /\ ~IsHangup(ev) /\ e \in Connections
  /\ \E out \in process(reg, e, reg.poll[ev.pollData].fd, ev.events) :
       reg' = AfterProcess(e, out)
  /\ UNCHANGED <<runFlag, phase, expired, queue, efd>>

----------------------------------------------------------------------------
(* New clients *)

\* Wrong: when up() fails the descriptor is closed but the executor stays.
createRequestExecutorKept(r, fd) ==
  UNION {LET q == [createExecutorData(r, e) EXCEPT
                     !.exec[e].pExecutor = "request", !.exec[e].fd0 = fd] IN
         {IF o.ok THEN o.reg ELSE CloseAll(o.reg, {fd}) : o \in RequestUp(q, e)} :
         e \in AllocFrom(Execs \ r.execUsed)}

\* createRequestExecutorInternal(): the registries it may leave when it is
\* given the open descriptor fd. On failure the descriptor has been closed
\* (checkNewFd closes it once more).
createRequestExecutorInternal(r, fd) ==
  UNION {LET q == [createExecutorData(r, e) EXCEPT
                     !.exec[e].pExecutor = "request", !.exec[e].fd0 = fd] IN
         {IF o.ok THEN o.reg ELSE removeExecutorData(o.reg, e) :
            o \in RequestUp(q, e)} :
         e \in AllocFrom(Execs \ r.execUsed)}

\* Wrong: no eventfd_write after the push.
EnqueueSilently(r, fd) ==
  IF Len(queue) < QueueCapacity
  THEN /\ reg' = r /\ queue' = Append(queue, fd) /\ efd' = efd
  ELSE /\ reg' = CloseAll(r, {fd}) /\ UNCHANGED <<queue, efd>>

\* Wrong: the wake-up was written first and is taken back from a full queue.
EnqueueUndo(r, fd) ==
  IF Len(queue) < QueueCapacity
  THEN /\ reg' = r /\ queue' = Append(queue, fd) /\ efd' = efd + 1
  ELSE /\ reg' = CloseAll(r, {fd}) /\ queue' = queue
       /\ efd' = IF efd > 0 THEN efd - 1 ELSE 0

\* Wrong: the descriptor that found the queue full is not closed.
EnqueueLeaks(r, fd) ==
  IF Len(queue) < QueueCapacity
  THEN /\ reg' = r /\ queue' = Append(queue, fd) /\ efd' = efd + 1
  ELSE /\ reg' = r /\ UNCHANGED <<queue, efd>>

\* Give fd to this loop: push, then eventfd_write. When the queue is full
\* Server::createRequestExecutor closes fd.
EnqueueHere(r, fd) ==
  IF Len(queue) < QueueCapacity
  THEN /\ reg' = r /\ queue' = Append(queue, fd) /\ efd' = efd + 1
  ELSE /\ reg' = CloseAll(r, {fd}) /\ UNCHANGED <<queue, efd>>

\* ServerExecutor::process when accept4() succeeds. With several threads the
\* client goes to the least loaded loop, this one or another.
Accept(ev) ==
  /\ Take(ev) /\ Dispatchable(ev) /\ Target(ev) = ServerExec
  /\ ~IsHangup(ev)
  /\ \E f \in FreshFds(reg) :
       \/ /\ ThreadCount = 1
          /\ reg' \in createRequestExecutorInternal(OpenFd(reg, f), f)
          /\ UNCHANGED <<queue, efd>>
       \/ /\ ThreadCount > 1
          /\ EnqueueHere(OpenFd(reg, f), f)
       \/ /\ ThreadCount > 1
          /\ UNCHANGED <<reg, queue, efd>>
  /\ UNCHANGED <<runFlag, phase, expired>>

\* destroy(): the loop ends. What is in newFdsQueue stays there.
Destroy ==
  /\ reg' = destroyAll(reg) /\ phase' = "stopped" /\ batch' = {}
  /\ UNCHANGED <<runFlag, expired, queue, efd>>

\* ServerExecutor::process when accept4() fails: the loop shuts down.
AcceptFails(ev) ==
  /\ phase = "dispatch" /\ ev \in batch
  /\ Dispatchable(ev) /\ Target(ev) = ServerExec /\ ~IsHangup(ev)
  /\ Destroy

\* NewFdExecutor::process: read the event descriptor, which is a semaphore,
\* then drain the queue; a failing read shuts the loop down.
NewFd(ev) ==
  /\ Dispatchable(ev) /\ Target(ev) = NewFdExec /\ ~IsHangup(ev)
  /\ IF efd > 0
     THEN /\ Take(ev) /\ efd' = efd - 1 /\ phase' = "drain"
          /\ UNCHANGED <<reg, runFlag, expired, queue>>
     ELSE phase = "dispatch" /\ ev \in batch /\ Destroy

\* checkNewFd(): other threads may push while the queue is drained.
CheckNewFd ==
  /\ phase = "drain" /\ queue # <<>>
  /\ reg' \in createRequestExecutorInternal(reg, Head(queue))
  /\ queue' = Tail(queue)
  /\ UNCHANGED <<runFlag, phase, batch, expired, efd>>

CheckNewFdEnd ==
  /\ phase = "drain" /\ queue = <<>> /\ phase' = "dispatch"
  /\ UNCHANGED <<reg, runFlag, batch, expired, queue, efd>>

----------------------------------------------------------------------------
(* After the batch *)

\* Not yet time to check the timeouts.
EndBatch ==
  /\ phase = "dispatch" /\ batch = {} /\ phase' = "wait"
  /\ UNCHANGED <<reg, runFlag, batch, expired, queue, efd>>

\* Wrong: removeOnTimeout is not looked at.
CheckTimeoutAll ==
  /\ phase = "dispatch" /\ batch = {} /\ phase' = "timeout"
  /\ expired' \in SUBSET reg.execUsed
  /\ UNCHANGED <<reg, runFlag, batch, queue, efd>>

\* checkTimeout(): first collect the executors that timed out (which ones is
\* up to the clock), then remove them one by one.
CheckTimeout ==
  /\ phase = "dispatch" /\ batch = {} /\ phase' = "timeout"
  /\ expired' \in SUBSET {e \in reg.execUsed : reg.exec[e].removeOnTimeout}
  /\ UNCHANGED <<reg, runFlag, batch, queue, efd>>

RemoveExpired(e) ==
  /\ phase = "timeout" /\ e \in expired
  /\ reg' = removeExecutorData(reg, e) /\ expired' = expired \ {e}
  /\ UNCHANGED <<runFlag, phase, batch, queue, efd>>

CheckTimeoutEnd ==
  /\ phase = "timeout" /\ expired = {} /\ phase' = "wait"
  /\ UNCHANGED <<reg, runFlag, batch, expired, queue, efd>>

\* run() sees that runFlag was cleared.
LeaveRun == phase = "wait" /\ ~runFlag /\ Destroy

----------------------------------------------------------------------------
(* Other threads *)

\* enqueueClientFd() called by another loop that has accepted a client.
EnqueueClientFd ==
  /\ ThreadCount > 1 /\ HasRoom /\ phase # "stopped"
  /\ \E f \in FreshFds(reg) : EnqueueHere(OpenFd(reg, f), f)
  /\ UNCHANGED <<runFlag, phase, batch, expired>>

\* stop(): clear the flag, then write the event descriptor.
Stop ==
  /\ runFlag /\ phase # "stopped"
  /\ runFlag' = FALSE /\ efd' = efd + 1
  /\ UNCHANGED <<reg, phase, batch, expired, queue>>

\* The thread has ended.
Stopped == phase = "stopped" /\ UNCHANGED vars

Next ==
  \/ EpollWait
  \/ \E ev \in batch :
       \/ SkipFreed(ev) \/ Hangup(ev) \/ Process(ev)
       \/ Accept(ev) \/ AcceptFails(ev) \/ NewFd(ev)
  \/ CheckNewFd \/ CheckNewFdEnd
  \/ EndBatch \/ CheckTimeout \/ (\E e \in expired : RemoveExpired(e))
  \/ CheckTimeoutEnd \/ LeaveRun
  \/ EnqueueClientFd \/ Stop \/ Stopped

Spec == Init /\ [][Next]_vars

----------------------------------------------------------------------------
(* Properties *)

\* Every variable has its type.
TypeOK ==
  /\ reg \in Registry /\ runFlag \in BOOLEAN /\ phase \in Phases
  /\ batch \subseteq Event /\ expired \subseteq Execs
  /\ queue \in Seq(Fds) /\ efd \in Nat

\* PollData, ExecutorData and the interest list agree: a PollData in use
\* belongs to a used executor that points back to it and is what the kernel
\* holds for its descriptor; a free one has been down()ed, so that a stale
\* event finds execData null and not a freed executor (PollLoop.cpp:90-97).
PollDataConsistent ==
  LET Owns(e, p) == p \in {reg.exec[e].pollData0, reg.exec[e].pollData1} IN
  /\ \A p \in PollDatas :
       IF p \in reg.pollUsed
       THEN /\ reg.poll[p].execData \in reg.execUsed
            /\ Owns(reg.poll[p].execData, p)
            /\ reg.poll[p].fd # None
            /\ reg.epoll[reg.poll[p].fd].ptr = p
       ELSE reg.poll[p] = DownPollData
  /\ \A e \in Execs : \A p \in PollDatas :
       Owns(e, p) => p \in reg.pollUsed /\ reg.poll[p].execData = e
  /\ \A f \in Fds : reg.epoll[f].ptr # None =>
       /\ f \in reg.open
       /\ reg.epoll[f].ptr \in reg.pollUsed
       /\ reg.poll[reg.epoll[f].ptr].fd = f

\* Descriptors held by the executors, by executor and slot.
HeldFd(h) == IF h[2] = 0 THEN reg.exec[h[1]].fd0 ELSE reg.exec[h[1]].fd1
Held == {h \in Execs \X {0, 1} : HeldFd(h) # None}

\* No descriptor has two owners, none is closed while owned, and none is
\* leaked: what is open is owned by an executor or waits in newFdsQueue. An
\* executor back in the pool owns nothing.
FdOwnership ==
  /\ \A g, h \in Held : HeldFd(g) = HeldFd(h) => g = h
  /\ \A h \in Held : HeldFd(h) \notin Queued /\ h[1] \in reg.execUsed
  /\ \A i, j \in 1 .. Len(queue) : queue[i] = queue[j] => i = j
  /\ reg.open = {HeldFd(h) : h \in Held} \cup Queued

\* Server::createRequestExecutor balances the load on numOfPollFds: while the
\* loop lives it is the number of registered descriptors.
LoadIsRegistered ==
  phase # "stopped" => reg.numOfPollFds =
    Cardinality({f \in Fds : reg.epoll[f].ptr # None})

Polled(fd, flag) == fd # None /\ flag \in reg.epoll[fd].events

\* What a connection in state d waits for is what the kernel watches for it.
Armed(d) ==
  CASE d.state = "readRequest" -> Polled(d.fd0, "IN")
    [] d.state \in {"sendHeaders", "sendOnlyHeaders", "sendFile"} ->
         Polled(d.fd0, "OUT")
    [] d.state \in {"waitConnect", "forwardRequest"} -> Polled(d.fd1, "OUT")
    [] d.state = "forwardResponse" ->
         IF d.bytesInPipe > 0 THEN Polled(d.fd0, "OUT")
         ELSE Polled(d.fd1, "IN") /\ d.pollData0 = None
    [] d.state = "forwardResponseOnlyWrite" ->
         d.bytesInPipe > 0 /\ Polled(d.fd0, "OUT")
    [] OTHER -> FALSE

\* Between two events no connection is stuck: the splice proxy, which adds and
\* removes registrations as its pipe fills and drains, never ends a handler
\* without the registration that will let it go on.
ConnectionsArmed == \A e \in Live : Armed(reg.exec[e])

\* enqueueClientFd pushes before it writes the event descriptor and
\* checkNewFd drains everything, so one read may serve several pushes and
\* later reads none; yet no queued client is left without a wake-up.
NoLostWakeup == queue # <<>> /\ phase # "stopped" => efd > 0 \/ phase = "drain"

\* NewFdExecutor::process shuts the loop down when eventfd_read fails; an
\* event for it is never dispatched with the counter at 0.
EventFdReadable ==
  \A ev \in batch : Target(ev) = NewFdExec => efd > 0

\* The two permanent executors are never removed while the loop lives, by a
\* stale event or by the timeout sweep.
PermanentStay ==
  phase # "stopped" =>
    /\ reg.exec[ServerExec] = InitialRegistry.exec[ServerExec]
    /\ reg.exec[NewFdExec] = InitialRegistry.exec[NewFdExec]

\* RequestExecutor::process calls it an "invalid process call (request)"
\* (RequestExecutor.cpp:45) when it is not called with EPOLLIN on fd0.
NoInvalidRequestCall ==
  \A ev \in batch :
    (phase = "dispatch" /\ Dispatchable(ev) /\ ~IsHangup(ev)
     /\ reg.exec[Target(ev)].pExecutor = "request") => "IN" \in ev.events
=============================================================================
