---------------------------- MODULE PollRegistry ----------------------------
(***************************************************************************)
(* The bookkeeping of one PollLoop: the ExecutorData and PollData pools,   *)
(* the kernel's epoll interest list and the open descriptors, with the     *)
(* member functions of PollLoop.cpp that change them.                      *)
(*                                                                         *)
(* The bookkeeping is one record ("registry"), and every member function   *)
(* is an operator from a registry to its possible outcomes, because the    *)
(* executors call several of them inside one handler.                      *)
(***************************************************************************)
EXTENDS Integers, FiniteSets

CONSTANTS
  Execs,      \* ExecutorData objects of the pool execDatas
  PollDatas,  \* PollData objects of the pool pollDatas
  Fds,        \* descriptor numbers
  None,       \* nullptr, and the descriptor -1
  MaxPipe,    \* capacity of the splice pipe, in chunks
  AllocFrom(_)  \* which of the free objects an allocator may hand out

ASSUME NoneAssumption == None \notin Execs \cup PollDatas \cup Fds
ASSUME MaxPipeAssumption == MaxPipe \in Nat \ {0}
ASSUME FiniteAssumption == IsFiniteSet(PollDatas)
ASSUME AllocAssumption ==
  \A S \in (SUBSET Execs) \cup (SUBSET PollDatas) \cup (SUBSET Fds) :
     AllocFrom(S) \subseteq S /\ (S # {} => AllocFrom(S) # {})

----------------------------------------------------------------------------
(* The objects. *)

Events == {"IN", "OUT", "ERR"}   \* ERR stands for EPOLLRDHUP and EPOLLERR
Interest == SUBSET {"IN", "OUT"} \* EPOLLRDHUP and EPOLLERR are always added

Kinds == {"none", "server", "newFd", "request", "file", "proxy"}

States == {"invalid", "ok", "readRequest", "sendHeaders", "sendOnlyHeaders",
           "sendFile", "waitConnect", "forwardRequest", "forwardResponse",
           "forwardResponseOnlyWrite"}

ExecutorData ==
  [pExecutor : Kinds, state : States,
   fd0 : Fds \cup {None}, fd1 : Fds \cup {None},
   pollData0 : PollDatas \cup {None}, pollData1 : PollDatas \cup {None},
   pipe : BOOLEAN, bytesInPipe : 0 .. MaxPipe,
   removeOnTimeout : BOOLEAN, retryCounter : Nat]

PollData == [fd : Fds \cup {None}, execData : Execs \cup {None}]

\* What ExecutorData::down() leaves behind, and what the constructor makes.
DownExecutorData ==
  [pExecutor |-> "none", state |-> "invalid", fd0 |-> None, fd1 |-> None,
   pollData0 |-> None, pollData1 |-> None, pipe |-> FALSE, bytesInPipe |-> 0,
   removeOnTimeout |-> TRUE, retryCounter |-> 0]

DownPollData == [fd |-> None, execData |-> None]

NotPolled == [ptr |-> None, events |-> {}]

Registry ==
  [exec : [Execs -> ExecutorData], execUsed : SUBSET Execs,
   poll : [PollDatas -> PollData], pollUsed : SUBSET PollDatas,
   epoll : [Fds -> [ptr : PollDatas \cup {None}, events : Interest]],
   open : SUBSET Fds, numOfPollFds : Int]

EmptyRegistry ==
  [exec |-> [e \in Execs |-> DownExecutorData], execUsed |-> {},
   poll |-> [p \in PollDatas |-> DownPollData], pollUsed |-> {},
   epoll |-> [f \in Fds |-> NotPolled], open |-> {}, numOfPollFds |-> 0]

----------------------------------------------------------------------------
(* The kernel. *)

\* The next descriptor numbers the kernel may return.
FreshFds(r) == AllocFrom(Fds \ r.open)

\* close(2): the number is free again and leaves the interest list.
CloseAll(r, fs) ==
  [r EXCEPT !.open = @ \ fs,
            !.epoll = [f \in Fds |-> IF f \in fs THEN NotPolled ELSE @[f]]]

OpenFd(r, f) == [r EXCEPT !.open = @ \cup {f}]

----------------------------------------------------------------------------
(* The member functions. An outcome tells whether the call returned 0 and  *)
(* the registry it leaves.                                                 *)

Done(r) == [ok |-> TRUE, reg |-> r]
Failed(r) == [ok |-> FALSE, reg |-> r]

Slot0(r, e, fd) == fd = r.exec[e].fd0
Slot1(r, e, fd) == fd # r.exec[e].fd0 /\ fd = r.exec[e].fd1

\* The PollData that addPollFd, editPollFd and removePollFd look up.
PollDataOf(r, e, fd) ==
  IF Slot0(r, e, fd) THEN r.exec[e].pollData0
  ELSE IF Slot1(r, e, fd) THEN r.exec[e].pollData1 ELSE None

SetPollData(d, fd, p) ==
  IF fd = d.fd0 THEN [d EXCEPT !.pollData0 = p] ELSE [d EXCEPT !.pollData1 = p]

\* Wrong: the load is not counted.
RegisterUncounted(r, e, fd, events, p) ==
  [r EXCEPT !.pollUsed = @ \cup {p},
            !.poll[p] = [fd |-> fd, execData |-> e],
            !.epoll[fd] = [ptr |-> p, events |-> events],
            !.exec[e] = SetPollData(@, fd, p)]

Register(r, e, fd, events, p) ==
  [r EXCEPT !.pollUsed = @ \cup {p},
            !.poll[p] = [fd |-> fd, execData |-> e],
            !.epoll[fd] = [ptr |-> p, events |-> events],
            !.exec[e] = SetPollData(@, fd, p),
            !.numOfPollFds = @ + 1]

\* epoll_ctl(EPOLL_CTL_ADD) may fail (ENOMEM, ENOSPC); it does fail for a
\* closed descriptor and for one already in the interest list.
addPollFd(r, e, fd, events) ==
  {Failed(r)} \cup
  {Done(Register(r, e, fd, events, p)) :
     p \in IF /\ fd # None
              /\ Slot0(r, e, fd) \/ Slot1(r, e, fd)
              /\ PollDataOf(r, e, fd) = None
              /\ fd \in r.open
              /\ r.epoll[fd].ptr = None
           THEN AllocFrom(PollDatas \ r.pollUsed) ELSE {}}

editPollFd(r, e, fd, events) ==
  {Failed(r)} \cup
  IF PollDataOf(r, e, fd) = None \/ r.epoll[fd].ptr = None THEN {}
  ELSE {Done([r EXCEPT !.epoll[fd] =
                [ptr |-> PollDataOf(r, e, fd), events |-> events]])}

\* Wrong: the PollData goes back to the pool without down().
removePollFdNotDown(r, e, fd) ==
  LET p == PollDataOf(r, e, fd) IN
  IF p = None \/ r.epoll[fd].ptr = None THEN Failed(r)
  ELSE Done([r EXCEPT !.epoll[fd] = NotPolled,
                      !.pollUsed = @ \ {p},
                      !.numOfPollFds = @ - 1,
                      !.exec[e] = SetPollData(@, fd, None)])

\* EPOLL_CTL_DEL of a descriptor in the interest list does not fail.
removePollFd(r, e, fd) ==
  LET p == PollDataOf(r, e, fd) IN
  IF p = None \/ r.epoll[fd].ptr = None THEN Failed(r)
  ELSE Done([r EXCEPT !.epoll[fd] = NotPolled,
                      !.poll[p] = DownPollData,
                      !.pollUsed = @ \ {p},
                      !.numOfPollFds = @ - 1,
                      !.exec[e] = SetPollData(@, fd, None)])

DropPollData0(r, e) ==
  IF r.exec[e].pollData0 = None THEN r
  ELSE removePollFd(r, e, r.exec[e].fd0).reg

DropPollData1(r, e) ==
  IF r.exec[e].pollData1 = None THEN r
  ELSE removePollFd(r, e, r.exec[e].fd1).reg

\* closeFd for data.fd1, the only descriptor the executors close early.
closeFd1(r, e) ==
  LET s == DropPollData1(r, e) IN
  [CloseAll(s, {s.exec[e].fd1}) EXCEPT !.exec[e].fd1 = None]

createExecutorData(r, e) == [r EXCEPT !.execUsed = @ \cup {e}]

\* Wrong: fd1 is not closed.
downKeepsFd1(r, e) ==
  [CloseAll(r, {r.exec[e].fd0}) EXCEPT !.exec[e] = DownExecutorData]

down(r, e) ==
  [CloseAll(r, {r.exec[e].fd0, r.exec[e].fd1}) EXCEPT
     !.exec[e] = DownExecutorData]

\* Wrong: the PollData of fd1 is not removed.
removeExecutorDataKeepsPoll1(r, e) ==
  LET s == down(DropPollData0(r, e), e) IN
  [s EXCEPT !.execUsed = @ \ {e}]

removeExecutorData(r, e) ==
  LET s == down(DropPollData1(DropPollData0(r, e), e), e) IN
  [s EXCEPT !.execUsed = @ \ {e}]

\* destroy(): both pools are freed (the destructors call down()) and the
\* epoll and event descriptors are closed.
destroyAll(r) ==
  [EmptyRegistry EXCEPT
     !.open = r.open \ UNION {{r.exec[e].fd0, r.exec[e].fd1} : e \in Execs},
     !.numOfPollFds = r.numOfPollFds]
=============================================================================
