------------------------------- MODULE Server -------------------------------
(***************************************************************************)
(* The threads of the server: main(), which starts the loops and stops and *)
(* joins them, and one thread per PollLoop. A loop that accepts a client   *)
(* gives it to the loop with the fewest registered descriptors, reading    *)
(* the loops' counters one after the other, and pushes it on that loop's   *)
(* newFdsQueue before it writes that loop's event descriptor.              *)
(*                                                                         *)
(* What happens inside one loop is module PollLoop; here a connection is   *)
(* one registered descriptor that its loop closes at some time.            *)
(***************************************************************************)
EXTENDS Integers, Sequences, FiniteSets

CONSTANTS
  Clients,        \* the clients that may connect
  NoClient,       \* no client
  MaxThreads,     \* bound of parameters.threadCount
  Ports,          \* number of ports listened on
  QueueCapacity,  \* capacity of newFdsQueue, 1000 in the code
  AcceptMayFail   \* whether accept4() may fail

ASSUME ServerAssumption ==
  /\ NoClient \notin Clients /\ IsFiniteSet(Clients)
  /\ MaxThreads \in Nat \ {0} /\ Ports \in Nat \ {0}
  /\ QueueCapacity \in Nat \ {0} /\ AcceptMayFail \in BOOLEAN

Loops == 0 .. MaxThreads - 1

VARIABLES
  main,          \* where main() is, the loop its for loop is at, and
                 \* threadCount, which it read from the configuration
  pc,            \* where the thread of each loop is
  runFlag,       \* the loops' runFlag; run() sets it before it is read
  ready,         \* the events of the batch still to be dispatched
  came,          \* the clients that have connected
  scan,          \* the locals of createRequestExecutor()
  queue,         \* newFdsQueue
  efd,           \* the counter of the event descriptor
  numOfPollFds,  \* the load that createRequestExecutor() compares
  served,        \* the connections of each loop
  closed         \* the clients whose descriptor was closed

threadCount == main.threadCount
Threads == 0 .. threadCount - 1

\* start(): port p is listened on by loop p % threadCount.
PortsOf(l, n) == {p \in 0 .. Ports - 1 : p % n = l}
Listening(l) == PortsOf(l, threadCount) # {}

\* The event descriptor and the listening sockets.
BasePollFds(l, n) == 1 + Cardinality(PortsOf(l, n))

vars == <<main, pc, runFlag, ready, came, scan, queue, efd, numOfPollFds,
          served, closed>>

MainPcs == {"spawn", "serve", "flag", "notify", "join", "done"}
LoopPcs == {"none", "start", "wait", "dispatch", "scan", "push", "notify",
            "drain", "dead"}

\* INT_MAX, the first value of minPollFds, is above every count.
IntMax == 2147483647

Scan == [client : Clients \cup {NoClient}, next : 0 .. MaxThreads,
         minPollFds : Int, minIndex : Loops]

NoScan == [client |-> NoClient, next |-> 0, minPollFds |-> IntMax, minIndex |-> 0]

\* The loops are initialised and listen before the first thread starts.
Init ==
  /\ main \in [pc : {"spawn"}, i : {0}, threadCount : 1 .. MaxThreads]
  /\ pc = [l \in Loops |-> "none"]
  /\ runFlag = [l \in Loops |-> FALSE]
  /\ ready = [l \in Loops |-> {}]
  /\ came = {}
  /\ scan = [l \in Loops |-> NoScan]
  /\ queue = [l \in Loops |-> <<>>]
  /\ efd = [l \in Loops |-> 0]
  /\ numOfPollFds = [l \in Loops |-> BasePollFds(l, threadCount)]
  /\ served = [l \in Loops |-> {}]
  /\ closed = {}

----------------------------------------------------------------------------
(* main(), Server::start() and Server::stop() *)

Advance(here, after) ==
  main' = IF main.i + 1 < threadCount
          THEN [main EXCEPT !.pc = here, !.i = main.i + 1]
          ELSE [main EXCEPT !.pc = after, !.i = 0]

Spawn ==
  /\ main.pc = "spawn"
  /\ pc' = [pc EXCEPT ![main.i] = "start"]
  /\ Advance("spawn", "serve")
  /\ UNCHANGED <<runFlag, ready, came, scan, queue, efd, numOfPollFds, served, closed>>

\* SIGINT; if it came earlier, main() sees it now.
Interrupt ==
  /\ main.pc = "serve" /\ main' = [main EXCEPT !.pc = "flag"]
  /\ UNCHANGED <<pc, runFlag, ready, came, scan, queue, efd, numOfPollFds, served, closed>>

\* Wrong: the flag of loop 0 is cleared each time.
ClearFlagOfFirst ==
  /\ main.pc = "flag"
  /\ runFlag' = [runFlag EXCEPT ![0] = FALSE]
  /\ main' = [main EXCEPT !.pc = "notify"]
  /\ UNCHANGED <<pc, ready, came, scan, queue, efd, numOfPollFds, served, closed>>

\* PollLoop::stop() of each loop: clear the flag, then write the event
\* descriptor. A dead loop has closed it.
ClearFlag ==
  /\ main.pc = "flag"
  /\ runFlag' = [runFlag EXCEPT ![main.i] = FALSE]
  /\ main' = [main EXCEPT !.pc = "notify"]
  /\ UNCHANGED <<pc, ready, came, scan, queue, efd, numOfPollFds, served, closed>>

eventfd_write(l) == efd' = IF pc[l] = "dead" THEN efd ELSE [efd EXCEPT ![l] = @ + 1]

WakeLoop ==
  /\ main.pc = "notify"
  /\ eventfd_write(main.i)
  /\ Advance("flag", "join")
  /\ UNCHANGED <<pc, runFlag, ready, came, scan, queue, numOfPollFds, served, closed>>

Join ==
  /\ main.pc = "join" /\ pc[main.i] = "dead"
  /\ Advance("join", "done")
  /\ UNCHANGED <<pc, runFlag, ready, came, scan, queue, efd, numOfPollFds, served, closed>>

----------------------------------------------------------------------------
(* PollLoop::run() *)

Run(l) ==
  /\ pc[l] = "start"
  /\ runFlag' = [runFlag EXCEPT ![l] = TRUE]
  /\ pc' = [pc EXCEPT ![l] = "wait"]
  /\ UNCHANGED <<main, ready, came, scan, queue, efd, numOfPollFds, served, closed>>

\* epoll_wait reports the event descriptor when its counter is not 0, and a
\* listening socket when a client has connected to it.
EpollWait(l) ==
  /\ pc[l] = "wait" /\ runFlag[l]
  /\ \E c \in {NoClient} \cup (IF Listening(l) THEN Clients \ came ELSE {}) :
       /\ came' = came \cup ({c} \ {NoClient})
       /\ scan' = [scan EXCEPT ![l] = [NoScan EXCEPT !.client = c]]
       /\ ready' = [ready EXCEPT ![l] =
            (IF c = NoClient THEN {} ELSE {"client"}) \cup
            (IF efd[l] > 0 THEN {"newFd"} ELSE {})]
  /\ pc' = [pc EXCEPT ![l] = "dispatch"]
  /\ UNCHANGED <<main, runFlag, queue, efd, numOfPollFds, served, closed>>

\* destroy(): the connections are closed, and with the listening socket a
\* client that was to be accepted. What is in newFdsQueue stays there and
\* numOfPollFds keeps its value.
destroy(l) ==
  /\ pc' = [pc EXCEPT ![l] = "dead"]
  /\ closed' = closed \cup served[l] \cup ({scan[l].client} \ {NoClient})
  /\ served' = [served EXCEPT ![l] = {}]
  /\ ready' = [ready EXCEPT ![l] = {}]
  /\ scan' = [scan EXCEPT ![l] = NoScan]
  /\ efd' = [efd EXCEPT ![l] = 0]
  /\ UNCHANGED <<main, runFlag, came, queue, numOfPollFds>>

LeaveRun(l) == pc[l] = "wait" /\ ~runFlag[l] /\ destroy(l)

EndBatch(l) ==
  /\ pc[l] = "dispatch" /\ ready[l] = {}
  /\ pc' = [pc EXCEPT ![l] = "wait"]
  /\ UNCHANGED <<main, runFlag, ready, came, scan, queue, efd, numOfPollFds, served, closed>>

\* Wrong: numOfPollFds is not decreased.
CloseUncounted(l, c) ==
  /\ pc[l] = "dispatch" /\ c \in served[l]
  /\ served' = [served EXCEPT ![l] = @ \ {c}]
  /\ closed' = closed \cup {c}
  /\ UNCHANGED <<main, pc, runFlag, ready, came, scan, queue, efd, numOfPollFds>>

\* A connection ends: the response is sent, an error, a hang-up or a timeout.
CloseConnection(l, c) ==
  /\ pc[l] = "dispatch" /\ c \in served[l]
  /\ served' = [served EXCEPT ![l] = @ \ {c}]
  /\ numOfPollFds' = [numOfPollFds EXCEPT ![l] = @ - 1]
  /\ closed' = closed \cup {c}
  /\ UNCHANGED <<main, pc, runFlag, ready, came, scan, queue, efd>>

\* createRequestExecutorInternal() for client c of loop l; when it fails the
\* descriptor is closed.
Serve(c, l) ==
  \/ /\ served' = [served EXCEPT ![l] = @ \cup {c}]
     /\ numOfPollFds' = [numOfPollFds EXCEPT ![l] = @ + 1]
     /\ UNCHANGED closed
  \/ closed' = closed \cup {c} /\ UNCHANGED <<served, numOfPollFds>>

----------------------------------------------------------------------------
(* ServerExecutor::process() and Server::createRequestExecutor() *)

TakeEvent(l, kind) ==
  /\ pc[l] = "dispatch" /\ kind \in ready[l]
  /\ ready' = [ready EXCEPT ![l] = @ \ {kind}]

AcceptFails(l) ==
  /\ AcceptMayFail /\ pc[l] = "dispatch" /\ "client" \in ready[l] /\ destroy(l)

\* The only loop keeps its clients.
AcceptHere(l) ==
  /\ threadCount = 1 /\ TakeEvent(l, "client")
  /\ Serve(scan[l].client, l)
  /\ scan' = [scan EXCEPT ![l] = NoScan]
  /\ UNCHANGED <<main, pc, runFlag, came, queue, efd>>

Accept(l) ==
  /\ threadCount > 1 /\ TakeEvent(l, "client")
  /\ pc' = [pc EXCEPT ![l] = "scan"]
  /\ UNCHANGED <<main, runFlag, came, scan, queue, efd, numOfPollFds, served, closed>>

\* One turn of the for loop: read the counter of loop `next`.
ReadLoad(l) ==
  LET s == scan[l]
      load == numOfPollFds[s.next] IN
  /\ pc[l] = "scan" /\ s.next < threadCount
  /\ scan' = [scan EXCEPT ![l] =
       IF load < s.minPollFds
       THEN [s EXCEPT !.next = @ + 1, !.minPollFds = load, !.minIndex = s.next]
       ELSE [s EXCEPT !.next = @ + 1]]
  /\ pc' = [pc EXCEPT ![l] = IF s.next + 1 = threadCount THEN "push" ELSE "scan"]
  /\ UNCHANGED <<main, runFlag, ready, came, queue, efd, numOfPollFds, served, closed>>

\* enqueueClientFd(): under newFdsMutex, push; when the queue is full the
\* descriptor is closed.
Push(l) ==
  LET c == scan[l].client
      m == scan[l].minIndex IN
  /\ pc[l] = "push"
  /\ IF Len(queue[m]) < QueueCapacity
     THEN /\ queue' = [queue EXCEPT ![m] = Append(@, c)]
          /\ pc' = [pc EXCEPT ![l] = "notify"]
          /\ scan' = [scan EXCEPT ![l].client = NoClient]
          /\ UNCHANGED closed
     ELSE /\ closed' = closed \cup {c}
          /\ pc' = [pc EXCEPT ![l] = "dispatch"]
          /\ scan' = [scan EXCEPT ![l] = NoScan]
          /\ UNCHANGED queue
  /\ UNCHANGED <<main, runFlag, ready, came, efd, numOfPollFds, served>>

\* Wrong: the loop wakes itself and not the one that it gave the client to.
NotifySelf(l) ==
  /\ pc[l] = "notify"
  /\ eventfd_write(l)
  /\ pc' = [pc EXCEPT ![l] = "dispatch"]
  /\ scan' = [scan EXCEPT ![l] = NoScan]
  /\ UNCHANGED <<main, runFlag, ready, came, queue, numOfPollFds, served, closed>>

\* eventfd_write, outside the mutex.
Notify(l) ==
  /\ pc[l] = "notify"
  /\ eventfd_write(scan[l].minIndex)
  /\ pc' = [pc EXCEPT ![l] = "dispatch"]
  /\ scan' = [scan EXCEPT ![l] = NoScan]
  /\ UNCHANGED <<main, runFlag, ready, came, queue, numOfPollFds, served, closed>>

----------------------------------------------------------------------------
(* NewFdExecutor::process() and checkNewFd() *)

\* Wrong: the counter is read and the queue is not.
NewFdNoDrain(l) ==
  /\ efd[l] > 0 /\ TakeEvent(l, "newFd")
  /\ efd' = [efd EXCEPT ![l] = @ - 1]
  /\ UNCHANGED <<main, pc, runFlag, came, scan, queue, numOfPollFds, served, closed>>

\* eventfd_read takes 1 from the counter (EFD_SEMAPHORE). When it fails the
\* loop shuts down.
NewFd(l) ==
  IF efd[l] > 0
  THEN /\ TakeEvent(l, "newFd")
       /\ efd' = [efd EXCEPT ![l] = @ - 1]
       /\ pc' = [pc EXCEPT ![l] = "drain"]
       /\ UNCHANGED <<main, runFlag, came, scan, queue, numOfPollFds, served, closed>>
  ELSE pc[l] = "dispatch" /\ "newFd" \in ready[l] /\ destroy(l)

\* Wrong: the counter is read once more for each client.
CheckNewFdReads(l) ==
  /\ pc[l] = "drain" /\ queue[l] # <<>>
  /\ Serve(Head(queue[l]), l)
  /\ queue' = [queue EXCEPT ![l] = Tail(@)]
  /\ efd' = [efd EXCEPT ![l] = @ - 1]
  /\ UNCHANGED <<main, pc, runFlag, ready, came, scan>>

\* Wrong: the client stays in the queue.
CheckNewFdNoPop(l) ==
  /\ pc[l] = "drain" /\ queue[l] # <<>>
  /\ Serve(Head(queue[l]), l)
  /\ pc' = [pc EXCEPT ![l] = "dispatch"]
  /\ UNCHANGED <<main, runFlag, ready, came, scan, queue, efd>>

CheckNewFd(l) ==
  /\ pc[l] = "drain" /\ queue[l] # <<>>
  /\ Serve(Head(queue[l]), l)
  /\ queue' = [queue EXCEPT ![l] = Tail(@)]
  /\ UNCHANGED <<main, pc, runFlag, ready, came, scan, efd>>

CheckNewFdEnd(l) ==
  /\ pc[l] = "drain" /\ queue[l] = <<>>
  /\ pc' = [pc EXCEPT ![l] = "dispatch"]
  /\ UNCHANGED <<main, runFlag, ready, came, scan, queue, efd, numOfPollFds, served, closed>>

----------------------------------------------------------------------------

Main == Spawn \/ ClearFlag \/ WakeLoop \/ Join

Loop(l) ==
  \/ Run(l) \/ EpollWait(l) \/ LeaveRun(l) \/ EndBatch(l)
  \/ \E c \in served[l] : CloseConnection(l, c)
  \/ AcceptFails(l) \/ AcceptHere(l) \/ Accept(l)
  \/ ReadLoad(l) \/ Push(l) \/ Notify(l)
  \/ NewFd(l) \/ CheckNewFd(l) \/ CheckNewFdEnd(l)

\* The process ends.
Exit == main.pc = "done" /\ UNCHANGED vars

Next == Main \/ Interrupt \/ (\E l \in Loops : Loop(l)) \/ Exit

\* Every thread that can go on does: epoll_wait returns after
\* executorTimeoutMillis at the latest. SIGINT may never come.
Fairness == WF_vars(Main) /\ \A l \in Loops : WF_vars(Loop(l))

Spec == Init /\ [][Next]_vars /\ Fairness

----------------------------------------------------------------------------
(* Properties *)

Alive(l) == pc[l] # "dead"

\* Every variable has its type.
TypeOK ==
  /\ main \in [pc : MainPcs, i : Threads, threadCount : 1 .. MaxThreads]
  /\ pc \in [Loops -> LoopPcs]
  /\ runFlag \in [Loops -> BOOLEAN]
  /\ ready \in [Loops -> SUBSET {"client", "newFd"}]
  /\ came \subseteq Clients
  /\ scan \in [Loops -> Scan]
  /\ queue \in [Loops -> Seq(Clients)]
  /\ efd \in [Loops -> Nat]
  /\ numOfPollFds \in [Loops -> Int]
  /\ served \in [Loops -> SUBSET Clients]
  /\ closed \subseteq Clients

\* The counter that createRequestExecutor() of any thread reads is the load of
\* the loop; a loop that has ended keeps the last one.
LoadCounted ==
  \A l \in Loops : Alive(l) =>
    numOfPollFds[l] = BasePollFds(l, threadCount) + Cardinality(served[l])

\* Between a push and the eventfd_write for it the queue may be drained, and
\* several pushes may be served by one read: still a client in the queue of a
\* live loop has a wake-up under way.
WakeupPending ==
  \A l \in Loops : Alive(l) /\ queue[l] # <<>> =>
    \/ efd[l] > 0 \/ pc[l] = "drain"
    \/ \E k \in Loops : pc[k] = "notify" /\ scan[k].minIndex = l

\* The server implements the hand-off: a client is never in two places.
Abstract ==
  INSTANCE HandOff WITH
    waiting <- [l \in Loops |-> {queue[l][i] : i \in 1 .. Len(queue[l])}],
    serving <- served
HandsOff == Abstract!Spec

InQueue(c, l) == \E i \in 1 .. Len(queue[l]) : queue[l][i] = c

\* A client given to a loop that goes on is served or closed.
QueuedIsTaken ==
  \A c \in Clients, l \in Loops : InQueue(c, l) ~> (~InQueue(c, l) \/ ~Alive(l))

\* stop() ends when it is called after every thread has entered run().
StopEnds ==
  (main.pc = "flag" /\ main.i = 0 /\ \A l \in Threads : pc[l] # "start")
    ~> (main.pc = "done")

\* config.txt:13 says of executorTimeoutMillis "after this time inactive
\* connection will be closed".
InactiveIsClosed ==
  \A c \in Clients, l \in Loops :
    InQueue(c, l) ~> (~InQueue(c, l) \/ main.pc # "serve")
=============================================================================
