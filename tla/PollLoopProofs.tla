---------------------------- MODULE PollLoopProofs ----------------------------
(***************************************************************************)
(* The safety of one PollLoop, for any pools, descriptors, allocator,      *)
(* batch size, queue capacity and number of connections. The first part is *)
(* about the registry: what the member functions of PollLoop preserve. The *)
(* second is about the executors: every outcome of a handler keeps that    *)
(* bookkeeping consistent. The last is about the loop itself, and its      *)
(* theorems are at the end.                                                *)
(***************************************************************************)
EXTENDS PollLoop, FiniteSetTheorems, TLAPS

----------------------------------------------------------------------------
(* PART 1. What the member functions of PollLoop preserve *)

\* The descriptor and the PollData of slot i of executor e.
Fd(r, e, i) == IF i = 0 THEN r.exec[e].fd0 ELSE r.exec[e].fd1
Pd(r, e, i) == IF i = 0 THEN r.exec[e].pollData0 ELSE r.exec[e].pollData1

Slots == {0, 1}

\* What the kernel watches for slot i of executor e.
Watch(r, e, i) == IF Pd(r, e, i) = None THEN {} ELSE r.epoll[Fd(r, e, i)].events

\* By how much the load counter differs from the PollData in use.
Excess(r) == r.numOfPollFds - Cardinality(r.pollUsed)

\* A registered slot, its PollData and the interest list agree.
SlotInv(r) ==
  \A e \in Execs, i \in Slots : Pd(r, e, i) # None =>
    /\ Fd(r, e, i) # None
    /\ Pd(r, e, i) \in r.pollUsed
    /\ r.poll[Pd(r, e, i)] = [fd |-> Fd(r, e, i), execData |-> e]
    /\ r.epoll[Fd(r, e, i)].ptr = Pd(r, e, i)

\* A PollData in use belongs to a slot of a used executor; a free one is down.
PollInv(r) ==
  \A p \in PollDatas :
    IF p \in r.pollUsed
    THEN /\ r.poll[p].execData \in r.execUsed
         /\ r.poll[p].fd # None
         /\ \E i \in Slots : Pd(r, r.poll[p].execData, i) = p
    ELSE r.poll[p] = DownPollData

EpollInv(r) ==
  \A f \in Fds : r.epoll[f].ptr # None =>
    /\ f \in r.open
    /\ r.epoll[f].ptr \in r.pollUsed
    /\ r.poll[r.epoll[f].ptr].fd = f

\* A descriptor is in one slot and open; a free executor is down.
FdInv(r) ==
  /\ \A e \in Execs, i \in Slots : Fd(r, e, i) # None => Fd(r, e, i) \in r.open
  /\ \A e, d \in Execs, i, j \in Slots :
       Fd(r, e, i) # None /\ Fd(r, e, i) = Fd(r, d, j) => e = d /\ i = j
  /\ \A e \in Execs \ r.execUsed : r.exec[e] = DownExecutorData

RegInv(r) ==
  /\ r \in Registry
  /\ SlotInv(r) /\ PollInv(r) /\ EpollInv(r) /\ FdInv(r)

USE NoneAssumption, AllocAssumption, MaxPipeAssumption

LEMMA CountType ==
  ASSUME NEW r \in Registry, NEW n \in Int
  PROVE  [r EXCEPT !.numOfPollFds = n] \in Registry
BY DEF Registry

LEMMA LoadType ==
  ASSUME NEW r \in Registry
  PROVE  /\ IsFiniteSet(r.pollUsed) /\ Cardinality(r.pollUsed) \in Nat
         /\ r.numOfPollFds \in Int
<1>1. r.pollUsed \subseteq PollDatas /\ r.numOfPollFds \in Int
  BY DEF Registry
<1>2. IsFiniteSet(r.pollUsed)
  BY <1>1, FiniteAssumption, FS_Subset
<1> QED BY <1>1, <1>2, FS_CardinalityType

\* One PollData more, or less.
LEMMA OneMore ==
  ASSUME NEW T, IsFiniteSet(T), NEW x, x \notin T
  PROVE  Cardinality(T \cup {x}) = Cardinality(T) + 1
BY FS_AddElement

LEMMA OneLess ==
  ASSUME NEW T, IsFiniteSet(T), NEW x \in T
  PROVE  Cardinality(T \ {x}) = Cardinality(T) - 1
BY FS_RemoveElement

LEMMA RegisterInv ==
  ASSUME NEW r, RegInv(r), NEW e \in r.execUsed, NEW fd \in r.open,
         NEW ev \in Interest, NEW p \in PollDatas \ r.pollUsed,
         Slot0(r, e, fd) \/ Slot1(r, e, fd), PollDataOf(r, e, fd) = None
  PROVE  /\ RegInv(Register(r, e, fd, ev, p))
         /\ Excess(Register(r, e, fd, ev, p)) = Excess(r)
         /\ \E k \in Slots :
              /\ Fd(r, e, k) = fd
              /\ \A c \in Execs, i \in Slots :
                   /\ Pd(Register(r, e, fd, ev, p), c, i) =
                        IF c = e /\ i = k THEN p ELSE Pd(r, c, i)
                   /\ Watch(Register(r, e, fd, ev, p), c, i) =
                        IF c = e /\ i = k THEN ev ELSE Watch(r, c, i)
<1> DEFINE s == Register(r, e, fd, ev, p)
<1> DEFINE d == SetPollData(r.exec[e], fd, p)
<1>t. /\ r \in Registry /\ e \in Execs /\ p \in PollDatas /\ ev \subseteq {"IN", "OUT"}
      /\ fd \in Fds /\ p # None /\ fd # None /\ e # None
  BY DEF RegInv, Registry, Interest
<1>f. /\ s.exec = [r.exec EXCEPT ![e] = d] /\ s.execUsed = r.execUsed
      /\ s.poll = [r.poll EXCEPT ![p] = [fd |-> fd, execData |-> e]]
      /\ s.pollUsed = r.pollUsed \cup {p}
      /\ s.epoll = [r.epoll EXCEPT ![fd] = [ptr |-> p, events |-> ev]]
      /\ s.open = r.open
  BY <1>t DEF Register, Registry
<1>d. d \in ExecutorData
  BY <1>t DEF SetPollData, Registry, ExecutorData
<1>1. s \in Registry
  <2> DEFINE s0 == [r EXCEPT !.pollUsed = @ \cup {p},
                            !.poll[p] = [fd |-> fd, execData |-> e],
                            !.epoll[fd] = [ptr |-> p, events |-> ev],
                            !.exec[e] = d]
  <2>1. [fd |-> fd, execData |-> e] \in PollData
    BY <1>t DEF PollData
  <2>2. [ptr |-> p, events |-> ev] \in [ptr : PollDatas \cup {None}, events : Interest]
    BY <1>t
  <2>3. s0 \in Registry
    BY <1>t, <1>d, <2>1, <2>2 DEF Registry
  <2>5. s = [s0 EXCEPT !.numOfPollFds = @ + 1]
    BY DEF Register
  <2> HIDE DEF s0, s
  <2>4. s0.numOfPollFds + 1 \in Int
    BY <2>3 DEF Registry
  <2> QED BY <2>3, <2>4, <2>5, CountType
<1>e. \A c \in Execs : s.exec[c] = IF c = e THEN d ELSE r.exec[c]
  BY <1>t, <1>f DEF Registry
<1>x. \A q \in PollDatas :
        s.poll[q] = IF q = p THEN [fd |-> fd, execData |-> e] ELSE r.poll[q]
  BY <1>t, <1>f DEF Registry
<1>y. \A f \in Fds :
        s.epoll[f] = IF f = fd THEN [ptr |-> p, events |-> ev] ELSE r.epoll[f]
  BY <1>t, <1>f DEF Registry
<1>z. \E k \in Slots :
        /\ Fd(r, e, k) = fd /\ Pd(r, e, k) = None
        /\ \A c \in Execs, i \in Slots :
             /\ Fd(s, c, i) = Fd(r, c, i)
             /\ Pd(s, c, i) = IF c = e /\ i = k THEN p ELSE Pd(r, c, i)
  <2>1. /\ d.fd0 = r.exec[e].fd0 /\ d.fd1 = r.exec[e].fd1
        /\ d.pollData0 = IF fd = r.exec[e].fd0 THEN p ELSE r.exec[e].pollData0
        /\ d.pollData1 = IF fd = r.exec[e].fd0 THEN r.exec[e].pollData1 ELSE p
    <3> r.exec[e] \in ExecutorData
      BY <1>t DEF Registry
    <3> QED BY DEF SetPollData, ExecutorData
  <2> HIDE DEF s, d
  <2>2. \A c \in Execs, i \in Slots : Fd(s, c, i) = Fd(r, c, i)
    BY <2>1, <1>e DEF Fd
  <2>3. CASE Slot0(r, e, fd)
    <3>1. 0 \in Slots /\ Fd(r, e, 0) = fd /\ Pd(r, e, 0) = None
      BY <2>3 DEF Slot0, PollDataOf, Fd, Pd, Slots
    <3>2. \A c \in Execs, i \in Slots :
            Pd(s, c, i) = IF c = e /\ i = 0 THEN p ELSE Pd(r, c, i)
      BY <2>3, <2>1, <1>e DEF Slot0, Pd, Slots
    <3> QED BY <3>1, <3>2, <2>2
  <2>4. CASE Slot1(r, e, fd)
    <3>1. 1 \in Slots /\ Fd(r, e, 1) = fd /\ Pd(r, e, 1) = None
      BY <2>4 DEF Slot0, Slot1, PollDataOf, Fd, Pd, Slots
    <3>2. \A c \in Execs, i \in Slots :
            Pd(s, c, i) = IF c = e /\ i = 1 THEN p ELSE Pd(r, c, i)
      BY <2>4, <2>1, <1>e DEF Slot1, Pd, Slots
    <3> QED BY <3>1, <3>2, <2>2
  <2> QED BY <2>3, <2>4
<1>k. PICK k \in Slots :
        /\ Fd(r, e, k) = fd /\ Pd(r, e, k) = None
        /\ \A c \in Execs, i \in Slots :
             /\ Fd(s, c, i) = Fd(r, c, i)
             /\ Pd(s, c, i) = IF c = e /\ i = k THEN p ELSE Pd(r, c, i)
  BY <1>z
<1>2. SlotInv(s)
  <2> SUFFICES ASSUME NEW c \in Execs, NEW i \in Slots, Pd(s, c, i) # None
               PROVE  /\ Fd(s, c, i) # None
                      /\ Pd(s, c, i) \in s.pollUsed
                      /\ s.poll[Pd(s, c, i)] = [fd |-> Fd(s, c, i), execData |-> c]
                      /\ s.epoll[Fd(s, c, i)].ptr = Pd(s, c, i)
    BY DEF SlotInv
  <2>1. CASE c = e /\ i = k
    BY <2>1, <1>t, <1>f, <1>x, <1>y, <1>k
  <2>2. CASE ~(c = e /\ i = k)
    <3>1. Pd(s, c, i) = Pd(r, c, i) /\ Fd(s, c, i) = Fd(r, c, i)
      BY <2>2, <1>k
    <3>2. Fd(r, c, i) \in Fds \cup {None} /\ Pd(r, c, i) \in PollDatas \cup {None}
      BY <1>t DEF Fd, Pd, Registry, ExecutorData
    <3>3. /\ Fd(r, c, i) # None
          /\ Pd(r, c, i) \in r.pollUsed
          /\ r.poll[Pd(r, c, i)] = [fd |-> Fd(r, c, i), execData |-> c]
          /\ r.epoll[Fd(r, c, i)].ptr = Pd(r, c, i)
      BY <3>1 DEF RegInv, SlotInv
    <3>4. Fd(r, c, i) # fd
      BY <2>2, <3>3, <1>k, <1>t DEF RegInv, FdInv
    <3> QED BY <3>1, <3>2, <3>3, <3>4, <1>f, <1>x, <1>y
  <2> QED BY <2>1, <2>2
<1>3. PollInv(s)
  <2> SUFFICES ASSUME NEW q \in PollDatas
               PROVE  IF q \in s.pollUsed
                      THEN /\ s.poll[q].execData \in s.execUsed
                           /\ s.poll[q].fd # None
                           /\ \E i \in Slots : Pd(s, s.poll[q].execData, i) = q
                      ELSE s.poll[q] = DownPollData
    BY DEF PollInv
  <2>1. CASE q = p
    BY <2>1, <1>t, <1>f, <1>x, <1>k
  <2>2. CASE q # p /\ q \in r.pollUsed
    <3>1. r.poll[q].execData \in r.execUsed /\ r.poll[q].fd # None
      BY <2>2 DEF RegInv, PollInv
    <3>2. PICK i \in Slots : Pd(r, r.poll[q].execData, i) = q
      BY <2>2 DEF RegInv, PollInv
    <3>3. Pd(s, r.poll[q].execData, i) = q
      BY <1>k, <1>t, <3>1, <3>2, NoneAssumption DEF Registry
    <3> QED BY <2>2, <3>1, <3>2, <3>3, <1>f, <1>x
  <2>3. CASE q # p /\ q \notin r.pollUsed
    BY <2>3, <1>f, <1>x DEF RegInv, PollInv
  <2> QED BY <2>1, <2>2, <2>3
<1>4. EpollInv(s)
  <2> SUFFICES ASSUME NEW f \in Fds, s.epoll[f].ptr # None
               PROVE  /\ f \in s.open
                      /\ s.epoll[f].ptr \in s.pollUsed
                      /\ s.poll[s.epoll[f].ptr].fd = f
    BY DEF EpollInv
  <2>1. CASE f = fd
    BY <2>1, <1>t, <1>f, <1>x, <1>y
  <2>2. CASE f # fd
    BY <2>2, <1>t, <1>f, <1>x, <1>y DEF RegInv, EpollInv, Registry
  <2> QED BY <2>1, <2>2
<1>5. FdInv(s)
  <2>1. \A c \in Execs, i \in Slots : Fd(s, c, i) = Fd(r, c, i)
    BY <1>k
  <2>2. \A c \in Execs \ s.execUsed : s.exec[c] = r.exec[c]
    BY <1>t, <1>f, <1>e
  <2> QED BY <2>1, <2>2, <1>f DEF RegInv, FdInv
<1>n. s.numOfPollFds = r.numOfPollFds + 1
  BY <1>t DEF Register, Registry
<1>6. Excess(s) = Excess(r)
  <2>1. Cardinality(s.pollUsed) = Cardinality(r.pollUsed) + 1
    <3>1. /\ IsFiniteSet(r.pollUsed) /\ p \notin r.pollUsed
          /\ s.pollUsed = r.pollUsed \cup {p}
      BY <1>t, <1>f, LoadType
    <3> HIDE DEF s
    <3>2. Cardinality(r.pollUsed \cup {p}) = Cardinality(r.pollUsed) + 1
      BY <3>1, OneMore
    <3> QED BY <3>1, <3>2
  <2> QED BY <2>1, <1>t, <1>n, LoadType DEF Excess
<1>7. \A c \in Execs, i \in Slots :
        Watch(s, c, i) = IF c = e /\ i = k THEN ev ELSE Watch(r, c, i)
  <2> SUFFICES ASSUME NEW c \in Execs, NEW i \in Slots
               PROVE  Watch(s, c, i) = IF c = e /\ i = k THEN ev ELSE Watch(r, c, i)
    OBVIOUS
  <2>1. CASE c = e /\ i = k
    BY <2>1, <1>t, <1>y, <1>k DEF Watch
  <2>2. CASE ~(c = e /\ i = k)
    <3>1. Pd(s, c, i) = Pd(r, c, i) /\ Fd(s, c, i) = Fd(r, c, i)
      BY <2>2, <1>k
    <3>2. Pd(r, c, i) # None => Fd(r, c, i) \in Fds /\ Fd(r, c, i) # fd
      <4>1. Fd(r, c, i) \in Fds \cup {None}
        BY <1>t DEF Fd, Registry, ExecutorData
      <4>2. Pd(r, c, i) # None => Fd(r, c, i) # None
        BY DEF RegInv, SlotInv
      <4>3. Fd(r, c, i) # fd
        BY <2>2, <1>k, <1>t DEF RegInv, FdInv
      <4> QED BY <4>1, <4>2, <4>3
    <3> QED BY <2>2, <3>1, <3>2, <1>y DEF Watch
  <2> QED BY <2>1, <2>2
<1>8. RegInv(s)
  BY <1>1, <1>2, <1>3, <1>4, <1>5 DEF RegInv
<1> HIDE DEF s
<1>9. \E j \in Slots :
        /\ Fd(r, e, j) = fd
        /\ \A c \in Execs, i \in Slots :
             /\ Pd(s, c, i) = IF c = e /\ i = j THEN p ELSE Pd(r, c, i)
             /\ Watch(s, c, i) = IF c = e /\ i = j THEN ev ELSE Watch(r, c, i)
  BY <1>7, <1>k
<1> QED BY <1>6, <1>8, <1>9 DEF s

\* What removePollFd does to a slot that is registered.
Unregistered(r, e, k) ==
  [r EXCEPT !.epoll[Fd(r, e, k)] = NotPolled,
            !.poll[Pd(r, e, k)] = DownPollData,
            !.pollUsed = @ \ {Pd(r, e, k)},
            !.numOfPollFds = @ - 1,
            !.exec[e] = SetPollData(@, Fd(r, e, k), None)]

LEMMA UnregisterInv ==
  ASSUME NEW r, RegInv(r), NEW e \in r.execUsed, NEW k \in Slots,
         Pd(r, e, k) # None
  PROVE  /\ removePollFd(r, e, Fd(r, e, k)) = Done(Unregistered(r, e, k))
         /\ RegInv(Unregistered(r, e, k))
         /\ Unregistered(r, e, k).execUsed = r.execUsed
         /\ Unregistered(r, e, k).open = r.open
         /\ Excess(Unregistered(r, e, k)) = Excess(r)
         /\ Unregistered(r, e, k).exec =
              [r.exec EXCEPT ![e] = SetPollData(@, Fd(r, e, k), None)]
         /\ \A c \in Execs, i \in Slots :
              /\ Fd(Unregistered(r, e, k), c, i) = Fd(r, c, i)
              /\ Pd(Unregistered(r, e, k), c, i) =
                   IF c = e /\ i = k THEN None ELSE Pd(r, c, i)
              /\ Watch(Unregistered(r, e, k), c, i) =
                   IF c = e /\ i = k THEN {} ELSE Watch(r, c, i)
<1> DEFINE s == Unregistered(r, e, k)
           p == Pd(r, e, k)
           fd == Fd(r, e, k)
           d == SetPollData(r.exec[e], fd, None)
<1>t. /\ r \in Registry /\ e \in Execs /\ p \in PollDatas /\ p # None
      /\ fd \in Fds /\ fd # None /\ e # None /\ p \in r.pollUsed
      /\ r.poll[p] = [fd |-> fd, execData |-> e] /\ r.epoll[fd].ptr = p
  <2>1. r \in Registry /\ e \in Execs
    BY DEF RegInv, Registry
  <2>2. p \in PollDatas \cup {None} /\ fd \in Fds \cup {None}
    BY <2>1 DEF Fd, Pd, Registry, ExecutorData
  <2> QED BY <2>1, <2>2 DEF RegInv, SlotInv
<1>u. \A c \in Execs, i \in Slots : Fd(r, c, i) = fd => c = e /\ i = k
  BY <1>t DEF RegInv, FdInv
<1>r. removePollFd(r, e, fd) = Done(s)
  <2>1. PollDataOf(r, e, fd) = p
    <3>1. CASE k = 0
      BY <3>1 DEF PollDataOf, Slot0, Slot1, Fd, Pd
    <3>2. CASE k = 1
      BY <3>2, <1>t, <1>u DEF PollDataOf, Slot0, Slot1, Fd, Pd, Slots
    <3> QED BY <3>1, <3>2 DEF Slots
  <2> QED BY <2>1, <1>t DEF removePollFd, Unregistered
<1>f. /\ s.exec = [r.exec EXCEPT ![e] = d] /\ s.execUsed = r.execUsed
      /\ s.poll = [r.poll EXCEPT ![p] = DownPollData]
      /\ s.pollUsed = r.pollUsed \ {p}
      /\ s.epoll = [r.epoll EXCEPT ![fd] = NotPolled]
      /\ s.open = r.open
  BY <1>t DEF Unregistered, Registry
<1>d. d \in ExecutorData
  BY <1>t DEF SetPollData, Registry, ExecutorData
<1>1. s \in Registry
  <2> DEFINE s0 == [r EXCEPT !.epoll[fd] = NotPolled, !.poll[p] = DownPollData,
                             !.pollUsed = @ \ {p}]
             s1 == [s0 EXCEPT !.numOfPollFds = @ - 1]
  <2>1. DownPollData \in PollData
    BY DEF PollData, DownPollData
  <2>2. NotPolled \in [ptr : PollDatas \cup {None}, events : Interest]
    BY DEF NotPolled, Interest
  <2>3. s0 \in Registry
    BY <1>t, <2>1, <2>2 DEF Registry
  <2>5. s = [s1 EXCEPT !.exec[e] = d]
    BY <1>t DEF Unregistered, Registry
  <2> HIDE DEF s0
  <2>4. s0.numOfPollFds - 1 \in Int
    BY <2>3 DEF Registry
  <2>6. s1 \in Registry
    BY <2>3, <2>4, CountType
  <2> HIDE DEF s1, s, d
  <2> QED BY <2>5, <2>6, <1>d, <1>t DEF Registry
<1>e. \A c \in Execs : s.exec[c] = IF c = e THEN d ELSE r.exec[c]
  BY <1>t, <1>f DEF Registry
<1>x. \A q \in PollDatas : s.poll[q] = IF q = p THEN DownPollData ELSE r.poll[q]
  BY <1>t, <1>f DEF Registry
<1>y. \A f \in Fds : s.epoll[f] = IF f = fd THEN NotPolled ELSE r.epoll[f]
  BY <1>t, <1>f DEF Registry
<1>k. \A c \in Execs, i \in Slots :
        /\ Fd(s, c, i) = Fd(r, c, i)
        /\ Pd(s, c, i) = IF c = e /\ i = k THEN None ELSE Pd(r, c, i)
  <2>1. CASE k = 0
    BY <2>1, <1>t, <1>e DEF Fd, Pd, Slots, SetPollData, Registry, ExecutorData
  <2>2. CASE k = 1
    <3>1. r.exec[e].fd0 # r.exec[e].fd1
      BY <2>2, <1>t, <1>u DEF Fd, Slots
    <3> QED BY <3>1, <2>2, <1>t, <1>e DEF Fd, Pd, Slots, SetPollData, Registry, ExecutorData
  <2> QED BY <2>1, <2>2 DEF Slots
<1>n. s.numOfPollFds = r.numOfPollFds - 1
  BY <1>t DEF Unregistered, Registry
<1> HIDE DEF s
<1>2. SlotInv(s)
  <2> SUFFICES ASSUME NEW c \in Execs, NEW i \in Slots, Pd(s, c, i) # None
               PROVE  /\ Fd(s, c, i) # None
                      /\ Pd(s, c, i) \in s.pollUsed
                      /\ s.poll[Pd(s, c, i)] = [fd |-> Fd(s, c, i), execData |-> c]
                      /\ s.epoll[Fd(s, c, i)].ptr = Pd(s, c, i)
    BY DEF SlotInv
  <2>1. ~(c = e /\ i = k) /\ Pd(s, c, i) = Pd(r, c, i) /\ Fd(s, c, i) = Fd(r, c, i)
    BY <1>k
  <2>2. Fd(r, c, i) \in Fds \cup {None} /\ Pd(r, c, i) \in PollDatas \cup {None}
    BY <1>t DEF Fd, Pd, Registry, ExecutorData
  <2>3. /\ Fd(r, c, i) # None
        /\ Pd(r, c, i) \in r.pollUsed
        /\ r.poll[Pd(r, c, i)] = [fd |-> Fd(r, c, i), execData |-> c]
        /\ r.epoll[Fd(r, c, i)].ptr = Pd(r, c, i)
    BY <2>1 DEF RegInv, SlotInv
  <2>4. Fd(r, c, i) # fd
    BY <2>1, <1>u
  <2>5. Pd(r, c, i) # p
    BY <2>3, <2>4, <1>t
  <2> QED BY <2>1, <2>2, <2>3, <2>4, <2>5, <1>f, <1>x, <1>y
<1>3. PollInv(s)
  <2> SUFFICES ASSUME NEW q \in PollDatas
               PROVE  IF q \in s.pollUsed
                      THEN /\ s.poll[q].execData \in s.execUsed
                           /\ s.poll[q].fd # None
                           /\ \E i \in Slots : Pd(s, s.poll[q].execData, i) = q
                      ELSE s.poll[q] = DownPollData
    BY DEF PollInv
  <2>1. CASE q = p
    BY <2>1, <1>t, <1>f, <1>x
  <2>2. CASE q # p /\ q \in r.pollUsed
    <3>1. r.poll[q].execData \in r.execUsed /\ r.poll[q].fd # None
      BY <2>2 DEF RegInv, PollInv
    <3>2. PICK i \in Slots : Pd(r, r.poll[q].execData, i) = q
      BY <2>2 DEF RegInv, PollInv
    <3>3. Pd(s, r.poll[q].execData, i) = q
      BY <1>k, <1>t, <2>2, <3>1, <3>2 DEF Registry
    <3> QED BY <2>2, <3>1, <3>2, <3>3, <1>f, <1>x
  <2>3. CASE q # p /\ q \notin r.pollUsed
    BY <2>3, <1>f, <1>x DEF RegInv, PollInv
  <2> QED BY <2>1, <2>2, <2>3
<1>4. EpollInv(s)
  <2> SUFFICES ASSUME NEW f \in Fds, s.epoll[f].ptr # None
               PROVE  /\ f \in s.open
                      /\ s.epoll[f].ptr \in s.pollUsed
                      /\ s.poll[s.epoll[f].ptr].fd = f
    BY DEF EpollInv
  <2>1. f # fd /\ s.epoll[f] = r.epoll[f]
    BY <1>y DEF NotPolled
  <2>2. /\ f \in r.open /\ r.epoll[f].ptr \in r.pollUsed
        /\ r.poll[r.epoll[f].ptr].fd = f
    BY <2>1 DEF RegInv, EpollInv
  <2>3. r.epoll[f].ptr # p /\ r.epoll[f].ptr \in PollDatas
    BY <2>1, <2>2, <1>t DEF Registry
  <2> QED BY <2>1, <2>2, <2>3, <1>f, <1>x
<1>5. FdInv(s)
  <2>1. \A c \in Execs, i \in Slots : Fd(s, c, i) = Fd(r, c, i)
    BY <1>k
  <2>2. \A c \in Execs \ s.execUsed : s.exec[c] = r.exec[c]
    BY <1>t, <1>f, <1>e
  <2> QED BY <2>1, <2>2, <1>f DEF RegInv, FdInv
<1>6. RegInv(s)
  BY <1>1, <1>2, <1>3, <1>4, <1>5 DEF RegInv
<1>7. Excess(s) = Excess(r)
  <2>1. Cardinality(s.pollUsed) = Cardinality(r.pollUsed) - 1
    <3>1. IsFiniteSet(r.pollUsed) /\ s.pollUsed = r.pollUsed \ {p} /\ p \in r.pollUsed
      BY <1>t, <1>f, LoadType
    <3> HIDE DEF p
    <3>2. Cardinality(r.pollUsed \ {p}) = Cardinality(r.pollUsed) - 1
      BY <3>1, OneLess
    <3> QED BY <3>1, <3>2
  <2> QED BY <2>1, <1>t, <1>n, LoadType DEF Excess
<1>8. \A c \in Execs, i \in Slots :
        Watch(s, c, i) = IF c = e /\ i = k THEN {} ELSE Watch(r, c, i)
  <2> SUFFICES ASSUME NEW c \in Execs, NEW i \in Slots
               PROVE  Watch(s, c, i) = IF c = e /\ i = k THEN {} ELSE Watch(r, c, i)
    OBVIOUS
  <2>1. CASE c = e /\ i = k
    BY <2>1, <1>k DEF Watch
  <2>2. CASE ~(c = e /\ i = k)
    <3>1. Pd(s, c, i) = Pd(r, c, i) /\ Fd(s, c, i) = Fd(r, c, i)
      BY <2>2, <1>k
    <3>2. Pd(r, c, i) # None => Fd(r, c, i) \in Fds /\ Fd(r, c, i) # fd
      <4>1. Fd(r, c, i) \in Fds \cup {None}
        BY <1>t DEF Fd, Registry, ExecutorData
      <4>2. Pd(r, c, i) # None => Fd(r, c, i) # None
        BY DEF RegInv, SlotInv
      <4>3. Fd(r, c, i) # fd
        BY <2>2, <1>u
      <4> QED BY <4>1, <4>2, <4>3
    <3> QED BY <2>2, <3>1, <3>2, <1>y DEF Watch
  <2> QED BY <2>1, <2>2
<1> QED BY <1>r, <1>6, <1>7, <1>8, <1>f, <1>k DEF s

\* A handler that changes none of an executor's descriptors and PollData.
SameSlots(d, c) ==
  /\ d.fd0 = c.fd0 /\ d.fd1 = c.fd1
  /\ d.pollData0 = c.pollData0 /\ d.pollData1 = c.pollData1

LEMMA UpdateInv ==
  ASSUME NEW r, RegInv(r), NEW e \in r.execUsed, NEW d \in ExecutorData,
         SameSlots(d, r.exec[e])
  PROVE  /\ RegInv([r EXCEPT !.exec[e] = d])
         /\ Excess([r EXCEPT !.exec[e] = d]) = Excess(r)
         /\ \A c \in Execs, i \in Slots :
              Watch([r EXCEPT !.exec[e] = d], c, i) = Watch(r, c, i)
<1> DEFINE s == [r EXCEPT !.exec[e] = d]
<1>t. r \in Registry /\ e \in Execs
  BY DEF RegInv, Registry
<1>1. s \in Registry
  BY <1>t DEF Registry
<1>f. /\ s.execUsed = r.execUsed /\ s.poll = r.poll /\ s.pollUsed = r.pollUsed
      /\ s.epoll = r.epoll /\ s.open = r.open /\ s.numOfPollFds = r.numOfPollFds
      /\ \A c \in Execs : s.exec[c] = IF c = e THEN d ELSE r.exec[c]
  BY <1>t DEF Registry
<1>k. \A c \in Execs, i \in Slots : Fd(s, c, i) = Fd(r, c, i) /\ Pd(s, c, i) = Pd(r, c, i)
  BY <1>f, <1>t DEF Fd, Pd, Slots, SameSlots
<1> HIDE DEF s
<1>2. SlotInv(s)
  BY <1>f, <1>k DEF RegInv, SlotInv
<1>3. PollInv(s)
  <2>1. \A p \in r.pollUsed : r.poll[p].execData \in Execs
    BY <1>t DEF RegInv, PollInv, Registry
  <2> QED BY <2>1, <1>f, <1>k DEF RegInv, PollInv
<1>4. EpollInv(s)
  BY <1>f DEF RegInv, EpollInv
<1>5. FdInv(s)
  <2>2. \A c \in Execs \ s.execUsed : s.exec[c] = r.exec[c]
    BY <1>t, <1>f
  <2> QED BY <2>2, <1>f, <1>k DEF RegInv, FdInv
<1>6. /\ Excess(s) = Excess(r)
      /\ \A c \in Execs, i \in Slots : Watch(s, c, i) = Watch(r, c, i)
  BY <1>f, <1>k DEF Excess, Watch
<1> QED BY <1>1, <1>2, <1>3, <1>4, <1>5, <1>6 DEF RegInv, s

\* An executor takes an open descriptor that no slot holds into an empty slot.
TakeFd(d, k, f) == IF k = 0 THEN [d EXCEPT !.fd0 = f] ELSE [d EXCEPT !.fd1 = f]

Unheld(r, f) == \A c \in Execs, i \in Slots : Fd(r, c, i) # f

LEMMA TakeFdInv ==
  ASSUME NEW r, RegInv(r), NEW e \in r.execUsed, NEW k \in Slots,
         NEW f \in r.open, Unheld(r, f), Fd(r, e, k) = None
  PROVE  /\ RegInv([r EXCEPT !.exec[e] = TakeFd(@, k, f)])
         /\ Excess([r EXCEPT !.exec[e] = TakeFd(@, k, f)]) = Excess(r)
         /\ \A c \in Execs, i \in Slots :
              Watch([r EXCEPT !.exec[e] = TakeFd(@, k, f)], c, i) = Watch(r, c, i)
<1> DEFINE d == TakeFd(r.exec[e], k, f)
           s == [r EXCEPT !.exec[e] = d]
<1>t. r \in Registry /\ e \in Execs /\ f \in Fds /\ f # None
  BY DEF RegInv, Registry
<1>d. d \in ExecutorData
  BY <1>t DEF TakeFd, Registry, ExecutorData
<1>1. s \in Registry
  BY <1>t, <1>d DEF Registry
<1>f. /\ s.execUsed = r.execUsed /\ s.poll = r.poll /\ s.pollUsed = r.pollUsed
      /\ s.epoll = r.epoll /\ s.open = r.open /\ s.numOfPollFds = r.numOfPollFds
      /\ \A c \in Execs : s.exec[c] = IF c = e THEN d ELSE r.exec[c]
  BY <1>t DEF Registry
<1>k. \A c \in Execs, i \in Slots :
        /\ Pd(s, c, i) = Pd(r, c, i)
        /\ Fd(s, c, i) = IF c = e /\ i = k THEN f ELSE Fd(r, c, i)
  BY <1>f, <1>t DEF Fd, Pd, Slots, TakeFd, Registry, ExecutorData
<1>n. Pd(r, e, k) = None
  BY <1>t DEF RegInv, SlotInv
<1> HIDE DEF s, d
<1>2. SlotInv(s)
  BY <1>f, <1>k, <1>n DEF RegInv, SlotInv
<1>3. PollInv(s)
  <2>1. \A p \in r.pollUsed : r.poll[p].execData \in Execs
    BY <1>t DEF RegInv, PollInv, Registry
  <2> QED BY <2>1, <1>f, <1>k DEF RegInv, PollInv
<1>4. EpollInv(s)
  BY <1>f DEF RegInv, EpollInv
<1>5. FdInv(s)
  <2>1. \A c \in Execs, i \in Slots : Fd(s, c, i) # None => Fd(s, c, i) \in s.open
    BY <1>f, <1>k DEF RegInv, FdInv
  <2>2. \A c, b \in Execs, i, j \in Slots :
          Fd(s, c, i) # None /\ Fd(s, c, i) = Fd(s, b, j) => c = b /\ i = j
    BY <1>k DEF RegInv, FdInv, Unheld
  <2>3. \A c \in Execs \ s.execUsed : s.exec[c] = DownExecutorData
    BY <1>t, <1>f DEF RegInv, FdInv
  <2> QED BY <2>1, <2>2, <2>3 DEF FdInv
<1>6. RegInv(s)
  BY <1>1, <1>2, <1>3, <1>4, <1>5 DEF RegInv
<1>7. /\ Excess(s) = Excess(r)
      /\ \A c \in Execs, i \in Slots : Watch(s, c, i) = Watch(r, c, i)
  BY <1>f, <1>k, <1>n DEF Excess, Watch
<1> QED BY <1>6, <1>7 DEF s, d

----------------------------------------------------------------------------
(* What a call on behalf of executor e leaves alone: the other executors   *)
(* and what is watched for them, the open descriptors that no executor     *)
(* holds (the queued clients), and the accuracy of the load counter.       *)

Loose(r) == {f \in r.open : Unheld(r, f)}

Frame(r, s, e) ==
  /\ \A c \in Execs \ {e} : s.exec[c] = r.exec[c]
  /\ \A c \in Execs \ {e}, i \in Slots : Watch(s, c, i) = Watch(r, c, i)
  /\ Loose(s) = Loose(r)
  /\ Excess(s) = Excess(r)

Keeps(r, s, e) == RegInv(s) /\ Frame(r, s, e) /\ s.execUsed = r.execUsed

\* The same of the registry by name.
Taken(r, e, k, f) == [r EXCEPT !.exec[e] = TakeFd(@, k, f)]

LEMMA TakenInv ==
  ASSUME NEW r, RegInv(r), NEW e \in r.execUsed, NEW k \in Slots,
         NEW f \in r.open, Unheld(r, f), Fd(r, e, k) = None
  PROVE  /\ RegInv(Taken(r, e, k, f)) /\ Excess(Taken(r, e, k, f)) = Excess(r)
         /\ \A c \in Execs, i \in Slots : Watch(Taken(r, e, k, f), c, i) = Watch(r, c, i)
BY TakeFdInv DEF Taken

\* Everything but the PollData pointers.
SameButPoll(d, c) ==
  /\ d.pExecutor = c.pExecutor /\ d.state = c.state
  /\ d.fd0 = c.fd0 /\ d.fd1 = c.fd1
  /\ d.pipe = c.pipe /\ d.bytesInPipe = c.bytesInPipe
  /\ d.removeOnTimeout = c.removeOnTimeout /\ d.retryCounter = c.retryCounter

LEMMA KeepsRefl ==
  ASSUME NEW r, RegInv(r), NEW e
  PROVE  Keeps(r, r, e)
BY DEF Keeps, Frame

LEMMA KeepsTrans ==
  ASSUME NEW r, NEW s, NEW t, NEW e, Keeps(r, s, e), Keeps(s, t, e)
  PROVE  Keeps(r, t, e)
BY DEF Keeps, Frame

\* addPollFd, whether it succeeds or not.
LEMMA AddKeeps ==
  ASSUME NEW r, RegInv(r), NEW e \in r.execUsed, NEW fd, NEW ev \in Interest,
         NEW o \in addPollFd(r, e, fd, ev)
  PROVE  /\ Keeps(r, o.reg, e) /\ SameButPoll(o.reg.exec[e], r.exec[e])
         /\ o.ok => \E k \in Slots :
              /\ Fd(r, e, k) = fd /\ Pd(o.reg, e, k) # None
              /\ \A i \in Slots \ {k} : Pd(o.reg, e, i) = Pd(r, e, i)
              /\ \A i \in Slots :
                   Watch(o.reg, e, i) = IF i = k THEN ev ELSE Watch(r, e, i)
<1>t. r \in Registry /\ e \in Execs
  BY DEF RegInv, Registry
<1>1. CASE o = Failed(r)
  BY <1>1, KeepsRefl DEF Failed, SameButPoll
<1>2. CASE o # Failed(r)
  <2>1. /\ fd # None /\ (Slot0(r, e, fd) \/ Slot1(r, e, fd))
        /\ PollDataOf(r, e, fd) = None
        /\ fd \in r.open /\ r.epoll[fd].ptr = None
        /\ \E p \in AllocFrom(PollDatas \ r.pollUsed) :
             o = Done(Register(r, e, fd, ev, p))
    BY <1>2 DEF addPollFd
  <2>2. PICK p \in PollDatas \ r.pollUsed : o = Done(Register(r, e, fd, ev, p))
    <3>1. PollDatas \ r.pollUsed \in SUBSET PollDatas
      OBVIOUS
    <3> QED BY <2>1, <3>1
  <2> DEFINE s == Register(r, e, fd, ev, p)
  <2>3. /\ RegInv(s) /\ Excess(s) = Excess(r)
        /\ \E k \in Slots :
              /\ Fd(r, e, k) = fd
              /\ \A c \in Execs, i \in Slots :
                   /\ Pd(s, c, i) = IF c = e /\ i = k THEN p ELSE Pd(r, c, i)
                   /\ Watch(s, c, i) = IF c = e /\ i = k THEN ev ELSE Watch(r, c, i)
    BY <2>1, RegisterInv
  <2>4. /\ s.exec = [r.exec EXCEPT ![e] = SetPollData(@, fd, p)]
        /\ s.open = r.open /\ s.execUsed = r.execUsed
    BY <1>t DEF Register, Registry
  <2>5. /\ \A c \in Execs \ {e} : s.exec[c] = r.exec[c]
        /\ SameButPoll(s.exec[e], r.exec[e])
    BY <1>t, <2>4 DEF SameButPoll, SetPollData, Registry, ExecutorData
  <2>6. \A c \in Execs, i \in Slots : Fd(s, c, i) = Fd(r, c, i)
    BY <2>5 DEF Fd, SameButPoll
  <2>7. Loose(s) = Loose(r)
    BY <2>4, <2>6 DEF Loose, Unheld
  <2>8. o.reg = s
    BY <2>2 DEF Done
  <2> HIDE DEF s
  <2>9. Keeps(r, s, e)
    BY <2>3, <2>4, <2>5, <2>7 DEF Keeps, Frame
  <2>10. p # None
    BY <2>2
  <2> QED BY <1>t, <2>3, <2>5, <2>8, <2>9, <2>10
<1> QED BY <1>1, <1>2

\* removePollFd.
LEMMA RemoveKeeps ==
  ASSUME NEW r, RegInv(r), NEW e \in r.execUsed, NEW k \in Slots,
         Pd(r, e, k) # None
  PROVE  LET o == removePollFd(r, e, Fd(r, e, k)) IN
         /\ o.ok /\ Keeps(r, o.reg, e) /\ SameButPoll(o.reg.exec[e], r.exec[e])
         /\ o.reg.open = r.open
         /\ \A i \in Slots :
              /\ Pd(o.reg, e, i) = IF i = k THEN None ELSE Pd(r, e, i)
              /\ Watch(o.reg, e, i) = IF i = k THEN {} ELSE Watch(r, e, i)
<1>t. r \in Registry /\ e \in Execs
  BY DEF RegInv, Registry
<1> DEFINE s == Unregistered(r, e, k)
<1>1. /\ removePollFd(r, e, Fd(r, e, k)) = Done(s)
      /\ RegInv(s) /\ s.execUsed = r.execUsed /\ s.open = r.open
      /\ Excess(s) = Excess(r)
      /\ s.exec = [r.exec EXCEPT ![e] = SetPollData(@, Fd(r, e, k), None)]
      /\ \A c \in Execs, i \in Slots :
           /\ Fd(s, c, i) = Fd(r, c, i)
           /\ Pd(s, c, i) = IF c = e /\ i = k THEN None ELSE Pd(r, c, i)
           /\ Watch(s, c, i) = IF c = e /\ i = k THEN {} ELSE Watch(r, c, i)
  BY UnregisterInv
<1> HIDE DEF s
<1>2. /\ \A c \in Execs \ {e} : s.exec[c] = r.exec[c]
      /\ SameButPoll(s.exec[e], r.exec[e])
  BY <1>t, <1>1 DEF SameButPoll, SetPollData, Registry, ExecutorData
<1>3. Loose(s) = Loose(r)
  BY <1>1 DEF Loose, Unheld
<1>4. removePollFd(r, e, Fd(r, e, k)).ok /\ removePollFd(r, e, Fd(r, e, k)).reg = s
  BY <1>1 DEF Done
<1>5. Keeps(r, s, e)
  BY <1>1, <1>2, <1>3 DEF Keeps, Frame
<1>6. \A i \in Slots : /\ Pd(s, e, i) = IF i = k THEN None ELSE Pd(r, e, i)
                       /\ Watch(s, e, i) = IF i = k THEN {} ELSE Watch(r, e, i)
  BY <1>1, <1>t
<1> QED BY <1>1, <1>2, <1>4, <1>5, <1>6

\* editPollFd.
LEMMA EditKeeps ==
  ASSUME NEW r, RegInv(r), NEW e \in r.execUsed, NEW fd, NEW ev \in Interest,
         NEW o \in editPollFd(r, e, fd, ev)
  PROVE  /\ Keeps(r, o.reg, e) /\ o.reg.exec = r.exec
         /\ o.ok => \E k \in Slots :
              /\ Fd(r, e, k) = fd /\ Pd(r, e, k) # None
              /\ \A i \in Slots :
                   Watch(o.reg, e, i) = IF i = k THEN ev ELSE Watch(r, e, i)
<1>t. r \in Registry /\ e \in Execs
  BY DEF RegInv, Registry
<1>1. CASE o = Failed(r)
  BY <1>1, KeepsRefl DEF Failed
<1>2. CASE o # Failed(r)
  <2> DEFINE p == PollDataOf(r, e, fd)
             s == [r EXCEPT !.epoll[fd] = [ptr |-> p, events |-> ev]]
  <2>1. p # None /\ r.epoll[fd].ptr # None /\ o = Done(s)
    BY <1>2 DEF editPollFd
  <2>2. PICK k \in Slots : fd = Fd(r, e, k) /\ p = Pd(r, e, k)
    BY <2>1 DEF PollDataOf, Slot0, Slot1, Fd, Pd, Slots
  <2>3. /\ fd \in Fds /\ p \in PollDatas /\ r.epoll[fd].ptr = p
    <3>1. fd \in Fds \cup {None} /\ p \in PollDatas \cup {None}
      BY <1>t, <2>2 DEF Fd, Pd, Registry, ExecutorData
    <3> HIDE DEF p, s
    <3>2. Pd(r, e, k) # None
      BY <2>1, <2>2
    <3>3. Fd(r, e, k) # None /\ r.epoll[Fd(r, e, k)].ptr = Pd(r, e, k)
      BY <1>t, <3>2 DEF RegInv, SlotInv
    <3> QED BY <3>1, <3>2, <3>3, <2>1, <2>2
  <2>4. s \in Registry
    BY <1>t, <2>3 DEF Registry
  <2>5. /\ s.exec = r.exec /\ s.execUsed = r.execUsed /\ s.poll = r.poll
        /\ s.pollUsed = r.pollUsed /\ s.open = r.open /\ s.numOfPollFds = r.numOfPollFds
        /\ \A f \in Fds : s.epoll[f].ptr = r.epoll[f].ptr
        /\ \A f \in Fds : s.epoll[f].events = IF f = fd THEN ev ELSE r.epoll[f].events
    BY <1>t, <2>3 DEF Registry
  <2>6. \A c \in Execs, i \in Slots : Fd(s, c, i) = Fd(r, c, i) /\ Pd(s, c, i) = Pd(r, c, i)
    BY <2>5 DEF Fd, Pd
  <2> HIDE DEF s, p
  <2>7. SlotInv(s)
    <3>1. \A c \in Execs, i \in Slots : Fd(r, c, i) \in Fds \cup {None}
      BY <1>t DEF Fd, Registry, ExecutorData
    <3> QED BY <3>1, <2>5, <2>6 DEF RegInv, SlotInv
  <2>8. PollInv(s)
    <3>1. \A q \in r.pollUsed : r.poll[q].execData \in Execs
      BY <1>t DEF RegInv, PollInv, Registry
    <3> QED BY <3>1, <2>5, <2>6 DEF RegInv, PollInv
  <2>9. EpollInv(s)
    BY <2>5 DEF RegInv, EpollInv
  <2>10. FdInv(s)
    BY <2>5, <2>6 DEF RegInv, FdInv
  <2>11. Loose(s) = Loose(r)
    BY <2>5, <2>6 DEF Loose, Unheld
  <2>12. \A c \in Execs, i \in Slots :
           Watch(s, c, i) = IF c = e /\ i = k THEN ev ELSE Watch(r, c, i)
    <3> SUFFICES ASSUME NEW c \in Execs, NEW i \in Slots
                 PROVE  Watch(s, c, i) = IF c = e /\ i = k THEN ev ELSE Watch(r, c, i)
      OBVIOUS
    <3>1. CASE c = e /\ i = k
      BY <3>1, <2>1, <2>2, <2>3, <2>5, <2>6 DEF Watch
    <3>2. CASE ~(c = e /\ i = k)
      <4>1. Pd(r, c, i) # None => Fd(r, c, i) \in Fds /\ Fd(r, c, i) # fd
        <5>1. Fd(r, c, i) \in Fds \cup {None}
          BY <1>t DEF Fd, Registry, ExecutorData
        <5>2. Pd(r, c, i) # None => Fd(r, c, i) # None
          BY DEF RegInv, SlotInv
        <5>3. Fd(r, c, i) # fd
          BY <3>2, <2>2, <2>3, <1>t DEF RegInv, FdInv
        <5> QED BY <5>1, <5>2, <5>3
      <4> QED BY <3>2, <4>1, <2>5, <2>6 DEF Watch
    <3> QED BY <3>1, <3>2
  <2>13. Keeps(r, s, e)
    <3>1. Excess(s) = Excess(r)
      BY <2>5 DEF Excess
    <3>2. RegInv(s)
      BY <2>4, <2>7, <2>8, <2>9, <2>10 DEF RegInv
    <3> QED BY <2>5, <2>11, <2>12, <3>1, <3>2 DEF Keeps, Frame
  <2>14. o.reg = s
    BY <2>1 DEF Done
  <2> QED BY <1>t, <2>1, <2>2, <2>5, <2>12, <2>13, <2>14
<1> QED BY <1>1, <1>2

\* A descriptor whose slot has no PollData is not in the interest list.
LEMMA UnpolledFd ==
  ASSUME NEW r, RegInv(r), NEW e \in Execs, NEW k \in Slots,
         Pd(r, e, k) = None, Fd(r, e, k) # None
  PROVE  /\ Fd(r, e, k) \in Fds
         /\ r.epoll[Fd(r, e, k)].ptr = None
<1>t. r \in Registry /\ Fd(r, e, k) \in Fds
  BY DEF RegInv, Registry, Fd, ExecutorData
<1> SUFFICES ASSUME r.epoll[Fd(r, e, k)].ptr # None PROVE FALSE
  BY <1>t
<1> DEFINE f == Fd(r, e, k)
           p == r.epoll[f].ptr
<1>1. p \in r.pollUsed /\ r.poll[p].fd = f /\ p \in PollDatas
  BY <1>t DEF RegInv, EpollInv, Registry
<1>2. PICK i \in Slots : Pd(r, r.poll[p].execData, i) = p
  BY <1>1 DEF RegInv, PollInv
<1>3. r.poll[p].execData \in Execs /\ p # None
  BY <1>t, <1>1 DEF RegInv, PollInv, Registry
<1>4. Fd(r, r.poll[p].execData, i) = f
  <2> DEFINE c == r.poll[p].execData
  <2>1. r.poll[p] = [fd |-> Fd(r, c, i), execData |-> c]
    BY <1>2, <1>3 DEF RegInv, SlotInv
  <2> HIDE DEF p, f
  <2> QED BY <2>1, <1>1
<1>5. r.poll[p].execData = e /\ i = k
  BY <1>3, <1>4 DEF RegInv, FdInv
<1> QED BY <1>2, <1>3, <1>5

\* close() of an unpolled descriptor of slot k, which becomes empty.
LeaveFd(d, k) == IF k = 0 THEN [d EXCEPT !.fd0 = None] ELSE [d EXCEPT !.fd1 = None]

Closed(q, e, k) ==
  [CloseAll(q, {Fd(q, e, k)}) EXCEPT !.exec[e] = LeaveFd(@, k)]

LEMMA ClosedKeeps ==
  ASSUME NEW q, RegInv(q), NEW e \in q.execUsed, NEW k \in Slots,
         Fd(q, e, k) # None, Pd(q, e, k) = None
  PROVE  /\ Keeps(q, Closed(q, e, k), e)
         /\ Closed(q, e, k).exec[e] = LeaveFd(q.exec[e], k)
         /\ \A i \in Slots : Watch(Closed(q, e, k), e, i) = Watch(q, e, i)
<1> DEFINE f == Fd(q, e, k)
           s == Closed(q, e, k)
           d == LeaveFd(q.exec[e], k)
<1>t. q \in Registry /\ e \in Execs /\ f \in Fds /\ q.epoll[f].ptr = None
  <2>1. q \in Registry /\ e \in Execs
    BY DEF RegInv, Registry
  <2> QED BY <2>1, UnpolledFd
<1>d. d \in ExecutorData
  BY <1>t DEF LeaveFd, Registry, ExecutorData
<1> DEFINE ep == [g \in Fds |-> IF g \in {f} THEN NotPolled ELSE q.epoll[g]]
<1>p. ep \in [Fds -> [ptr : PollDatas \cup {None}, events : Interest]]
  BY <1>t DEF Registry, NotPolled, Interest
<1>f. s = [q EXCEPT !.open = @ \ {f}, !.epoll = ep, !.exec[e] = d]
  BY <1>t DEF Closed, CloseAll, Registry
<1>y. \A g \in Fds : ep[g].ptr = q.epoll[g].ptr
  BY <1>t DEF NotPolled
<1>k. \A b \in ExecutorData :
        b = d => /\ b.pollData0 = q.exec[e].pollData0 /\ b.pollData1 = q.exec[e].pollData1
                 /\ b.fd0 = (IF k = 0 THEN None ELSE q.exec[e].fd0)
                 /\ b.fd1 = (IF k = 1 THEN None ELSE q.exec[e].fd1)
  BY <1>t DEF LeaveFd, Registry, ExecutorData, Slots
<1> HIDE DEF ep, d, s
<1>g. /\ s.execUsed = q.execUsed /\ s.poll = q.poll /\ s.pollUsed = q.pollUsed
      /\ s.open = q.open \ {f} /\ s.epoll = ep /\ s.numOfPollFds = q.numOfPollFds
      /\ \A c \in Execs : s.exec[c] = IF c = e THEN d ELSE q.exec[c]
  BY <1>t, <1>f DEF Registry
<1>s. s \in Registry
  BY <1>t, <1>f, <1>p, <1>d DEF Registry
<1>v. \A c \in Execs, i \in Slots :
        /\ Pd(s, c, i) = Pd(q, c, i)
        /\ Fd(s, c, i) = IF c = e /\ i = k THEN None ELSE Fd(q, c, i)
  BY <1>t, <1>g, <1>k, <1>d DEF Fd, Pd, Slots
<1>u. \A c \in Execs, i \in Slots : Fd(q, c, i) = f => c = e /\ i = k
  BY <1>t DEF RegInv, FdInv
<1>w. \A c \in Execs, i \in Slots : Fd(q, c, i) \in Fds \cup {None}
  BY <1>t DEF Fd, Registry, ExecutorData
<1>x. \A c \in Execs, i \in Slots : Watch(s, c, i) = Watch(q, c, i)
  <2> SUFFICES ASSUME NEW c \in Execs, NEW i \in Slots, Pd(q, c, i) # None
               PROVE  s.epoll[Fd(s, c, i)] = q.epoll[Fd(q, c, i)]
    BY <1>v DEF Watch
  <2>1. Fd(q, c, i) # None /\ ~(c = e /\ i = k)
    BY DEF RegInv, SlotInv
  <2>2. Fd(s, c, i) = Fd(q, c, i) /\ Fd(q, c, i) # f /\ Fd(q, c, i) \in Fds
    BY <2>1, <1>v, <1>u, <1>w
  <2> QED BY <2>2, <1>g DEF ep
<1> HIDE DEF f
<1>2. SlotInv(s)
  <2> SUFFICES ASSUME NEW c \in Execs, NEW i \in Slots, Pd(s, c, i) # None
               PROVE  /\ Fd(s, c, i) # None
                      /\ Pd(s, c, i) \in s.pollUsed
                      /\ s.poll[Pd(s, c, i)] = [fd |-> Fd(s, c, i), execData |-> c]
                      /\ s.epoll[Fd(s, c, i)].ptr = Pd(s, c, i)
    BY DEF SlotInv
  <2>1. Pd(q, c, i) # None /\ Pd(s, c, i) = Pd(q, c, i) /\ Fd(s, c, i) = Fd(q, c, i)
    BY <1>v
  <2>2. /\ Fd(q, c, i) # None
        /\ Pd(q, c, i) \in q.pollUsed
        /\ q.poll[Pd(q, c, i)] = [fd |-> Fd(q, c, i), execData |-> c]
        /\ q.epoll[Fd(q, c, i)].ptr = Pd(q, c, i)
    BY <2>1 DEF RegInv, SlotInv
  <2> QED BY <2>1, <2>2, <1>g, <1>y, <1>w
<1>3. PollInv(s)
  <2>1. \A p \in q.pollUsed : q.poll[p].execData \in Execs
    BY <1>t DEF RegInv, PollInv, Registry
  <2> QED BY <2>1, <1>g, <1>v DEF RegInv, PollInv
<1>4. EpollInv(s)
  <2> SUFFICES ASSUME NEW h \in Fds, s.epoll[h].ptr # None
               PROVE  /\ h \in s.open
                      /\ s.epoll[h].ptr \in s.pollUsed
                      /\ s.poll[s.epoll[h].ptr].fd = h
    BY DEF EpollInv
  <2>1. s.epoll[h].ptr = q.epoll[h].ptr /\ q.epoll[h].ptr # None
    BY <1>g, <1>y
  <2>2. h \in q.open /\ q.epoll[h].ptr \in q.pollUsed /\ q.poll[q.epoll[h].ptr].fd = h
    BY <2>1 DEF RegInv, EpollInv
  <2>3. h # f
    BY <2>1, <1>t
  <2> QED BY <2>1, <2>2, <2>3, <1>g
<1>5. FdInv(s)
  <2>1. \A c \in Execs, i \in Slots : Fd(s, c, i) # None => Fd(s, c, i) \in s.open
    <3> SUFFICES ASSUME NEW c \in Execs, NEW i \in Slots, Fd(s, c, i) # None
                 PROVE  Fd(s, c, i) \in q.open \ {f}
      BY <1>g
    <3>1. ~(c = e /\ i = k) /\ Fd(s, c, i) = Fd(q, c, i)
      BY <1>v
    <3>2. Fd(q, c, i) \in q.open
      BY <3>1 DEF RegInv, FdInv
    <3> QED BY <3>1, <3>2, <1>u
  <2>2. \A c, b \in Execs, i, j \in Slots :
          Fd(s, c, i) # None /\ Fd(s, c, i) = Fd(s, b, j) => c = b /\ i = j
    BY <1>v DEF RegInv, FdInv
  <2>3. \A c \in Execs \ s.execUsed : s.exec[c] = DownExecutorData
    BY <1>t, <1>g DEF RegInv, FdInv
  <2> QED BY <2>1, <2>2, <2>3 DEF FdInv
<1>6. Loose(s) = Loose(q)
  <2>1. \A g : Unheld(q, g) => g # f
    BY <1>t DEF Unheld, f
  <2>2. \A g \in Fds : g # f => (Unheld(q, g) <=> Unheld(s, g))
    BY <1>v, <1>t DEF Unheld, f
  <2>3. q.open \subseteq Fds
    BY <1>t DEF Registry
  <2> QED BY <2>1, <2>2, <2>3, <1>g DEF Loose
<1>7. Keeps(q, s, e)
  <2>1. Excess(s) = Excess(q)
    BY <1>g DEF Excess
  <2>2. RegInv(s)
    BY <1>s, <1>2, <1>3, <1>4, <1>5 DEF RegInv
  <2> QED BY <2>1, <2>2, <1>6, <1>g, <1>x DEF Keeps, Frame
<1>8. s.exec[e] = d
  BY <1>g, <1>t
<1> QED BY <1>7, <1>8, <1>x, <1>t DEF s, d

\* Remove the PollData of slot k if it has one.
Drop(r, e, k) ==
  IF Pd(r, e, k) = None THEN r ELSE removePollFd(r, e, Fd(r, e, k)).reg

LEMMA DropKeeps ==
  ASSUME NEW r, RegInv(r), NEW e \in r.execUsed, NEW k \in Slots
  PROVE  /\ Keeps(r, Drop(r, e, k), e)
         /\ SameButPoll(Drop(r, e, k).exec[e], r.exec[e])
         /\ \A i \in Slots :
              /\ Pd(Drop(r, e, k), e, i) = IF i = k THEN None ELSE Pd(r, e, i)
              /\ Watch(Drop(r, e, k), e, i) = IF i = k THEN {} ELSE Watch(r, e, i)
<1>1. CASE Pd(r, e, k) = None
  BY <1>1, KeepsRefl DEF Drop, SameButPoll, Watch
<1>2. CASE Pd(r, e, k) # None
  BY <1>2, RemoveKeeps DEF Drop
<1> QED BY <1>1, <1>2

LEMMA DropNames ==
  ASSUME NEW r, NEW e
  PROVE  DropPollData0(r, e) = Drop(r, e, 0) /\ DropPollData1(r, e) = Drop(r, e, 1)
BY DEF DropPollData0, DropPollData1, Drop, Pd, Fd

\* closeFd for data.fd1.
LEMMA CloseKeeps ==
  ASSUME NEW r, RegInv(r), NEW e \in r.execUsed, r.exec[e].fd1 # None
  PROVE  /\ Keeps(r, closeFd1(r, e), e)
         /\ closeFd1(r, e).exec[e].fd1 = None
         /\ closeFd1(r, e).exec[e].pExecutor = r.exec[e].pExecutor
         /\ closeFd1(r, e).exec[e].bytesInPipe = r.exec[e].bytesInPipe
         /\ Pd(closeFd1(r, e), e, 0) = Pd(r, e, 0) /\ Pd(closeFd1(r, e), e, 1) = None
         /\ Watch(closeFd1(r, e), e, 0) = Watch(r, e, 0)
<1> DEFINE q == Drop(r, e, 1)
<1>1. /\ Keeps(r, q, e) /\ SameButPoll(q.exec[e], r.exec[e])
      /\ Pd(q, e, 1) = None /\ Pd(q, e, 0) = Pd(r, e, 0)
      /\ Watch(q, e, 0) = Watch(r, e, 0) /\ 0 \in Slots /\ 1 \in Slots
  BY DropKeeps DEF Slots
<1>2. closeFd1(r, e) = Closed(q, e, 1)
  <2>1. Fd(q, e, 1) = q.exec[e].fd1
    BY DEF Fd
  <2>2. \A d : LeaveFd(d, 1) = [d EXCEPT !.fd1 = None]
    BY DEF LeaveFd
  <2>3. closeFd1(r, e) = [CloseAll(q, {q.exec[e].fd1}) EXCEPT !.exec[e].fd1 = None]
    BY DropNames DEF closeFd1
  <2> HIDE DEF q
  <2> QED BY <2>1, <2>2, <2>3 DEF Closed
<1> HIDE DEF q
<1>3. /\ RegInv(q) /\ e \in q.execUsed /\ Fd(q, e, 1) # None
      /\ q.exec[e] \in ExecutorData
  BY <1>1 DEF Keeps, SameButPoll, Fd, RegInv, Registry
<1>4. /\ Keeps(q, Closed(q, e, 1), e) /\ Closed(q, e, 1).exec[e] = LeaveFd(q.exec[e], 1)
      /\ Watch(Closed(q, e, 1), e, 0) = Watch(q, e, 0)
  BY <1>1, <1>3, ClosedKeeps
<1>5. Keeps(r, Closed(q, e, 1), e)
  BY <1>1, <1>4, KeepsTrans
<1>6. /\ LeaveFd(q.exec[e], 1).fd1 = None
      /\ LeaveFd(q.exec[e], 1).pExecutor = r.exec[e].pExecutor
      /\ LeaveFd(q.exec[e], 1).bytesInPipe = r.exec[e].bytesInPipe
  BY <1>1, <1>3 DEF LeaveFd, SameButPoll, ExecutorData
<1>7. \A i \in Slots : Pd(Closed(q, e, 1), e, i) = Pd(q, e, i)
  <2>1. /\ LeaveFd(q.exec[e], 1).pollData0 = q.exec[e].pollData0
        /\ LeaveFd(q.exec[e], 1).pollData1 = q.exec[e].pollData1
    BY <1>3 DEF LeaveFd, ExecutorData
  <2> QED BY <2>1, <1>4 DEF Pd
<1> QED BY <1>1, <1>2, <1>4, <1>5, <1>6, <1>7

\* removeExecutorData.
LEMMA RemoveExecutorInv ==
  ASSUME NEW r, RegInv(r), NEW e \in r.execUsed
  PROVE  /\ RegInv(removeExecutorData(r, e))
         /\ Frame(r, removeExecutorData(r, e), e)
         /\ removeExecutorData(r, e).execUsed = r.execUsed \ {e}
<1> DEFINE q1 == Drop(r, e, 0)
           q == Drop(q1, e, 1)
           fs == {Fd(q, e, 0), Fd(q, e, 1)}
           ep == [g \in Fds |-> IF g \in fs THEN NotPolled ELSE q.epoll[g]]
           s == removeExecutorData(r, e)
<1>a. /\ Keeps(r, q1, e) /\ Pd(q1, e, 0) = None
  BY DropKeeps DEF Slots
<1>b. RegInv(q1) /\ e \in q1.execUsed
  BY <1>a DEF Keeps
<1>c. Keeps(q1, q, e) /\ Pd(q, e, 0) = None /\ Pd(q, e, 1) = None
  <2> HIDE DEF q1
  <2> QED BY <1>a, <1>b, DropKeeps DEF Slots
<1>n. s = [q EXCEPT !.open = @ \ fs, !.epoll = ep, !.exec[e] = DownExecutorData,
                    !.execUsed = @ \ {e}]
  <2>1. fs = {q.exec[e].fd0, q.exec[e].fd1}
    BY DEF Fd
  <2>2. DropPollData1(DropPollData0(r, e), e) = q
    BY DropNames
  <2> HIDE DEF q
  <2>3. s = [down(q, e) EXCEPT !.execUsed = @ \ {e}]
    BY <2>2 DEF removeExecutorData
  <2>4. q \in Registry
    BY <1>c DEF Keeps, RegInv
  <2>5. CloseAll(q, fs) = [q EXCEPT !.open = @ \ fs, !.epoll = ep]
    BY <2>4 DEF CloseAll, Registry
  <2> HIDE DEF fs, ep
  <2>6. down(q, e) = [CloseAll(q, fs) EXCEPT !.exec[e] = DownExecutorData]
    BY <2>1 DEF down
  <2> QED BY <2>3, <2>5, <2>6
<1>q. Keeps(r, q, e)
  BY <1>a, <1>c, KeepsTrans
<1> HIDE DEF q1, q
<1>t. /\ q \in Registry /\ RegInv(q) /\ e \in q.execUsed /\ e \in Execs
      /\ q.execUsed \subseteq Execs /\ q.open \subseteq Fds
  BY <1>q DEF Keeps, RegInv, Registry
<1>h. \A i \in Slots : Pd(q, e, i) = None
  BY <1>c DEF Slots
<1>u. \A g \in Fds : g \in fs => q.epoll[g].ptr = None
  <2>1. \A i \in Slots : Fd(q, e, i) # None => q.epoll[Fd(q, e, i)].ptr = None
    BY <1>t, <1>h, UnpolledFd
  <2> QED BY <2>1, <1>t DEF Slots
<1>v. \A c \in Execs, i \in Slots : Fd(q, c, i) # None /\ Fd(q, c, i) \in fs => c = e
  <2>1. \A c \in Execs, i, j \in Slots : Fd(q, c, i) # None /\ Fd(q, c, i) = Fd(q, e, j) => c = e
    BY <1>t DEF RegInv, FdInv
  <2> QED BY <2>1 DEF Slots
<1>p. ep \in [Fds -> [ptr : PollDatas \cup {None}, events : Interest]]
  <2>1. NotPolled \in [ptr : PollDatas \cup {None}, events : Interest]
    BY DEF NotPolled, Interest
  <2> HIDE DEF fs
  <2> QED BY <2>1, <1>t DEF Registry
<1>y. \A g \in Fds : ep[g].ptr = q.epoll[g].ptr
  BY <1>u DEF NotPolled
<1>d. DownExecutorData \in ExecutorData
  BY DEF DownExecutorData, ExecutorData, Kinds, States
<1>w. \A i \in Slots : Fd(q, e, i) \in fs
  BY DEF Slots
<1>x. fs \subseteq {Fd(q, e, i) : i \in Slots}
  BY DEF Slots
<1>o. \A g \in Fds \ fs : ep[g] = q.epoll[g]
  OBVIOUS
<1> HIDE DEF fs, ep, s
<1>s. s \in Registry
  BY <1>t, <1>n, <1>p, <1>d DEF Registry
<1>g. /\ s.execUsed = q.execUsed \ {e} /\ s.poll = q.poll /\ s.pollUsed = q.pollUsed
      /\ s.open = q.open \ fs /\ s.epoll = ep /\ s.numOfPollFds = q.numOfPollFds
      /\ \A c \in Execs : s.exec[c] = IF c = e THEN DownExecutorData ELSE q.exec[c]
  BY <1>t, <1>n DEF Registry
<1>k. \A c \in Execs, i \in Slots :
        /\ Pd(s, c, i) = Pd(q, c, i)
        /\ Fd(s, c, i) = IF c = e THEN None ELSE Fd(q, c, i)
  BY <1>g, <1>h DEF Fd, Pd, DownExecutorData
<1>z. \A c \in Execs, i \in Slots : Fd(q, c, i) \in Fds \cup {None}
  BY <1>t DEF Fd, Registry, ExecutorData
<1>2. SlotInv(s)
  <2> SUFFICES ASSUME NEW c \in Execs, NEW i \in Slots, Pd(s, c, i) # None
               PROVE  /\ Fd(s, c, i) # None
                      /\ Pd(s, c, i) \in s.pollUsed
                      /\ s.poll[Pd(s, c, i)] = [fd |-> Fd(s, c, i), execData |-> c]
                      /\ s.epoll[Fd(s, c, i)].ptr = Pd(s, c, i)
    BY DEF SlotInv
  <2>1. Pd(q, c, i) # None /\ Pd(s, c, i) = Pd(q, c, i) /\ c # e /\ Fd(s, c, i) = Fd(q, c, i)
    BY <1>k, <1>h
  <2>2. /\ Fd(q, c, i) # None
        /\ Pd(q, c, i) \in q.pollUsed
        /\ q.poll[Pd(q, c, i)] = [fd |-> Fd(q, c, i), execData |-> c]
        /\ q.epoll[Fd(q, c, i)].ptr = Pd(q, c, i)
    BY <2>1, <1>t DEF RegInv, SlotInv
  <2> QED BY <2>1, <2>2, <1>g, <1>y, <1>z
<1>3. PollInv(s)
  <2> SUFFICES ASSUME NEW p \in PollDatas
               PROVE  IF p \in s.pollUsed
                      THEN /\ s.poll[p].execData \in s.execUsed
                           /\ s.poll[p].fd # None
                           /\ \E i \in Slots : Pd(s, s.poll[p].execData, i) = p
                      ELSE s.poll[p] = DownPollData
    BY DEF PollInv
  <2>1. CASE p \in q.pollUsed
    <3>1. /\ q.poll[p].execData \in q.execUsed /\ q.poll[p].fd # None
          /\ \E i \in Slots : Pd(q, q.poll[p].execData, i) = p
      BY <2>1, <1>t DEF RegInv, PollInv
    <3>2. q.poll[p].execData # e
      BY <3>1, <1>h
    <3>3. q.poll[p].execData \in Execs
      BY <3>1, <1>t
    <3> QED BY <2>1, <3>1, <3>2, <3>3, <1>g, <1>k
  <2>2. CASE p \notin q.pollUsed
    BY <2>2, <1>g, <1>t DEF RegInv, PollInv
  <2> QED BY <2>1, <2>2
<1>4. EpollInv(s)
  <2> SUFFICES ASSUME NEW h \in Fds, s.epoll[h].ptr # None
               PROVE  /\ h \in s.open
                      /\ s.epoll[h].ptr \in s.pollUsed
                      /\ s.poll[s.epoll[h].ptr].fd = h
    BY DEF EpollInv
  <2>1. s.epoll[h].ptr = q.epoll[h].ptr /\ q.epoll[h].ptr # None
    BY <1>g, <1>y
  <2>2. h \in q.open /\ q.epoll[h].ptr \in q.pollUsed /\ q.poll[q.epoll[h].ptr].fd = h
    BY <2>1, <1>t DEF RegInv, EpollInv
  <2>3. h \notin fs
    BY <2>1, <1>u
  <2> QED BY <2>1, <2>2, <2>3, <1>g
<1>5. FdInv(s)
  <2>1. \A c \in Execs, i \in Slots : Fd(s, c, i) # None => Fd(s, c, i) \in s.open
    <3> SUFFICES ASSUME NEW c \in Execs, NEW i \in Slots, Fd(s, c, i) # None
                 PROVE  Fd(s, c, i) \in q.open \ fs
      BY <1>g
    <3>1. c # e /\ Fd(s, c, i) = Fd(q, c, i)
      BY <1>k
    <3>2. Fd(q, c, i) \in q.open
      BY <3>1, <1>t DEF RegInv, FdInv
    <3> QED BY <3>1, <3>2, <1>v
  <2>2. \A c, b \in Execs, i, j \in Slots :
          Fd(s, c, i) # None /\ Fd(s, c, i) = Fd(s, b, j) => c = b /\ i = j
    BY <1>k, <1>t DEF RegInv, FdInv
  <2>3. \A c \in Execs \ s.execUsed : s.exec[c] = DownExecutorData
    BY <1>t, <1>g DEF RegInv, FdInv
  <2> QED BY <2>1, <2>2, <2>3 DEF FdInv
<1>6. Loose(s) = Loose(q)
  <2>1. \A g \in Fds : g \in fs => ~Unheld(q, g)
    BY <1>t, <1>x DEF Unheld
  <2>2. \A g \in Fds : g \notin fs => (Unheld(q, g) <=> Unheld(s, g))
    BY <1>k, <1>t, <1>w DEF Unheld
  <2> QED BY <2>1, <2>2, <1>t, <1>g DEF Loose
<1>7. \A c \in Execs \ {e} : s.exec[c] = r.exec[c]
  BY <1>q, <1>g DEF Keeps, Frame
<1>8. Loose(s) = Loose(r) /\ s.execUsed = r.execUsed \ {e}
  BY <1>6, <1>q, <1>g DEF Keeps, Frame
<1>9. \A c \in Execs \ {e}, i \in Slots : Watch(s, c, i) = Watch(r, c, i)
  <2> SUFFICES ASSUME NEW c \in Execs \ {e}, NEW i \in Slots
               PROVE  Watch(s, c, i) = Watch(q, c, i)
    BY <1>q DEF Keeps, Frame
  <2>1. Pd(s, c, i) = Pd(q, c, i) /\ Fd(s, c, i) = Fd(q, c, i)
    BY <1>k
  <2>2. Pd(q, c, i) # None => Fd(q, c, i) # None
    BY <1>t DEF RegInv, SlotInv
  <2>3. Pd(q, c, i) # None => Fd(q, c, i) \in Fds \ fs
    BY <2>2, <1>v, <1>z
  <2> QED BY <2>1, <2>3, <1>o, <1>g DEF Watch
<1>10. Excess(s) = Excess(r)
  <2>1. Excess(s) = Excess(q)
    BY <1>g DEF Excess
  <2> QED BY <2>1, <1>q DEF Keeps, Frame
<1>11. RegInv(s)
  BY <1>s, <1>2, <1>3, <1>4, <1>5 DEF RegInv
<1> QED BY <1>7, <1>8, <1>9, <1>10, <1>11 DEF Frame, s

\* createExecutorData, and a descriptor returned by the kernel.
LEMMA CreateInv ==
  ASSUME NEW r, RegInv(r), NEW e \in Execs \ r.execUsed
  PROVE  /\ RegInv(createExecutorData(r, e))
         /\ createExecutorData(r, e).exec = r.exec
         /\ createExecutorData(r, e).open = r.open
         /\ createExecutorData(r, e).execUsed = r.execUsed \cup {e}
         /\ Excess(createExecutorData(r, e)) = Excess(r)
         /\ \A c, i : Watch(createExecutorData(r, e), c, i) = Watch(r, c, i)
<1> DEFINE s == createExecutorData(r, e)
<1>t. r \in Registry
  BY DEF RegInv
<1>1. s \in Registry
  BY <1>t DEF createExecutorData, Registry
<1>f. /\ s.exec = r.exec /\ s.execUsed = r.execUsed \cup {e} /\ s.poll = r.poll
      /\ s.pollUsed = r.pollUsed /\ s.epoll = r.epoll /\ s.open = r.open
      /\ s.numOfPollFds = r.numOfPollFds
  BY <1>t DEF createExecutorData, Registry
<1>k. \A c, i : Fd(s, c, i) = Fd(r, c, i) /\ Pd(s, c, i) = Pd(r, c, i)
  BY <1>f DEF Fd, Pd
<1> HIDE DEF s
<1>2. SlotInv(s) /\ PollInv(s) /\ EpollInv(s) /\ FdInv(s)
  BY <1>f, <1>k DEF RegInv, SlotInv, PollInv, EpollInv, FdInv
<1>3. Excess(s) = Excess(r) /\ \A c, i : Watch(s, c, i) = Watch(r, c, i)
  BY <1>f, <1>k DEF Excess, Watch
<1> QED BY <1>1, <1>2, <1>3, <1>f DEF RegInv, s

LEMMA OpenInv ==
  ASSUME NEW r, RegInv(r), NEW f \in Fds \ r.open
  PROVE  /\ RegInv(OpenFd(r, f))
         /\ OpenFd(r, f).exec = r.exec /\ OpenFd(r, f).execUsed = r.execUsed
         /\ OpenFd(r, f).open = r.open \cup {f}
         /\ Unheld(r, f) /\ Unheld(OpenFd(r, f), f)
         /\ Loose(OpenFd(r, f)) = Loose(r) \cup {f}
         /\ Excess(OpenFd(r, f)) = Excess(r)
         /\ \A c, i : Watch(OpenFd(r, f), c, i) = Watch(r, c, i)
<1> DEFINE s == OpenFd(r, f)
<1>t. r \in Registry
  BY DEF RegInv
<1>1. s \in Registry
  BY <1>t DEF OpenFd, Registry
<1>f. /\ s.exec = r.exec /\ s.execUsed = r.execUsed /\ s.poll = r.poll
      /\ s.pollUsed = r.pollUsed /\ s.epoll = r.epoll /\ s.open = r.open \cup {f}
      /\ s.numOfPollFds = r.numOfPollFds
  BY <1>t DEF OpenFd, Registry
<1>k. \A c, i : Fd(s, c, i) = Fd(r, c, i) /\ Pd(s, c, i) = Pd(r, c, i)
  BY <1>f DEF Fd, Pd
<1>u. Unheld(r, f)
  BY DEF RegInv, FdInv, Unheld
<1> HIDE DEF s
<1>2. SlotInv(s) /\ PollInv(s) /\ EpollInv(s) /\ FdInv(s)
  BY <1>f, <1>k DEF RegInv, SlotInv, PollInv, EpollInv, FdInv
<1>3. Unheld(s, f) /\ Loose(s) = Loose(r) \cup {f}
  BY <1>f, <1>k, <1>u DEF Unheld, Loose
<1>4. Excess(s) = Excess(r) /\ \A c, i : Watch(s, c, i) = Watch(r, c, i)
  BY <1>f, <1>k DEF Excess, Watch
<1> QED BY <1>1, <1>2, <1>3, <1>4, <1>f, <1>u DEF RegInv, s

----------------------------------------------------------------------------
(* PART 2. Every outcome of an executor's handler *)

\* The handler keeps the registry consistent and does not change which
\* executor serves the connection.
Good(r, s, e) == Keeps(r, s, e) /\ s.exec[e].pExecutor = r.exec[e].pExecutor

\* It does not change the connection's descriptors and pipe either.
SameConn(d, c) ==
  d.fd0 = c.fd0 /\ d.fd1 = c.fd1 /\ d.bytesInPipe = c.bytesInPipe

Step(r, s, e) == Good(r, s, e) /\ SameConn(s.exec[e], r.exec[e])

\* What the connection waits for is the same.
SamePolling(r, s, e) ==
  \A i \in Slots : Pd(s, e, i) = Pd(r, e, i) /\ Watch(s, e, i) = Watch(r, e, i)

SameWait(r, s, e) ==
  /\ SamePolling(r, s, e)
  /\ s.exec[e].state = r.exec[e].state
  /\ s.exec[e].bytesInPipe = r.exec[e].bytesInPipe

LEMMA GoodRefl ==
  ASSUME NEW r, RegInv(r), NEW e
  PROVE  Good(r, r, e) /\ Step(r, r, e)
BY KeepsRefl DEF Good, Step, SameConn

LEMMA GoodTrans ==
  ASSUME NEW r, NEW s, NEW t, NEW e, Good(r, s, e), Good(s, t, e)
  PROVE  Good(r, t, e)
BY KeepsTrans DEF Good

LEMMA StepTrans ==
  ASSUME NEW r, NEW s, NEW t, NEW e, Step(r, s, e), Step(s, t, e)
  PROVE  Step(r, t, e)
BY GoodTrans DEF Step, SameConn

\* What the next call of a handler may rely on.
LEMMA GoodFacts ==
  ASSUME NEW r, RegInv(r), NEW e \in r.execUsed, NEW s, Good(r, s, e)
  PROVE  RegInv(s) /\ e \in s.execUsed
BY DEF Good, Keeps

\* Writing fields other than the descriptors and the PollData.
LEMMA UpdateKeeps ==
  ASSUME NEW r, RegInv(r), NEW e \in r.execUsed, NEW d \in ExecutorData,
         SameSlots(d, r.exec[e])
  PROVE  /\ Keeps(r, [r EXCEPT !.exec[e] = d], e)
         /\ [r EXCEPT !.exec[e] = d].exec[e] = d
         /\ \A i \in Slots : Watch([r EXCEPT !.exec[e] = d], e, i) = Watch(r, e, i)
<1> DEFINE s == [r EXCEPT !.exec[e] = d]
<1>t. r \in Registry /\ e \in Execs
  BY DEF RegInv, Registry
<1>1. /\ RegInv(s) /\ Excess(s) = Excess(r)
      /\ \A c \in Execs, i \in Slots : Watch(s, c, i) = Watch(r, c, i)
  BY UpdateInv
<1>2. /\ s.execUsed = r.execUsed /\ s.open = r.open
      /\ \A c \in Execs : s.exec[c] = IF c = e THEN d ELSE r.exec[c]
  BY <1>t DEF Registry
<1>3. \A c \in Execs, i \in Slots : Fd(s, c, i) = Fd(r, c, i)
  BY <1>2 DEF Fd, SameSlots
<1> HIDE DEF s
<1>4. Loose(s) = Loose(r)
  BY <1>2, <1>3 DEF Loose, Unheld
<1> QED BY <1>t, <1>1, <1>2, <1>4 DEF Keeps, Frame, s

LEMMA SettersStep ==
  ASSUME NEW r, RegInv(r), NEW e \in r.execUsed
  PROVE  /\ Step(r, Retry(r, e), e)
         /\ Step(r, Progress(r, e), e)
         /\ \A st \in States : Step(r, SetState(r, e, st), e)
         /\ \A b \in BOOLEAN : Step(r, RemoveOnTimeout(r, e, b), e)
         /\ Step(r, [r EXCEPT !.exec[e].pipe = TRUE], e)
<1>t. r \in Registry /\ e \in Execs /\ r.exec[e] \in ExecutorData
  BY DEF RegInv, Registry
<1>1. ASSUME NEW d \in ExecutorData, SameSlots(d, r.exec[e]),
             d.pExecutor = r.exec[e].pExecutor,
             d.bytesInPipe = r.exec[e].bytesInPipe
      PROVE  Step(r, [r EXCEPT !.exec[e] = d], e)
  BY <1>1, UpdateKeeps DEF Step, Good, SameConn, SameSlots
<1>2. Step(r, Retry(r, e), e)
  <2> DEFINE n == r.exec[e].retryCounter + 1
             d == [r.exec[e] EXCEPT !.retryCounter = n]
  <2>1. n \in Nat
    BY <1>t DEF ExecutorData
  <2>2. Retry(r, e) = [r EXCEPT !.exec[e] = d]
    BY DEF Retry
  <2> HIDE DEF n
  <2>3. /\ d \in ExecutorData /\ SameSlots(d, r.exec[e])
        /\ d.pExecutor = r.exec[e].pExecutor /\ d.bytesInPipe = r.exec[e].bytesInPipe
    BY <1>t, <2>1 DEF ExecutorData, SameSlots
  <2> HIDE DEF d
  <2> QED BY <1>1, <2>2, <2>3
<1>3. Step(r, Progress(r, e), e)
  <2> DEFINE d == [r.exec[e] EXCEPT !.retryCounter = 0]
  <2>2. Progress(r, e) = [r EXCEPT !.exec[e] = d]
    BY DEF Progress
  <2>3. /\ d \in ExecutorData /\ SameSlots(d, r.exec[e])
        /\ d.pExecutor = r.exec[e].pExecutor /\ d.bytesInPipe = r.exec[e].bytesInPipe
    BY <1>t DEF ExecutorData, SameSlots
  <2> HIDE DEF d
  <2> QED BY <1>1, <2>2, <2>3
<1>4. ASSUME NEW st \in States PROVE Step(r, SetState(r, e, st), e)
  <2> DEFINE d == [r.exec[e] EXCEPT !.state = st]
  <2>2. SetState(r, e, st) = [r EXCEPT !.exec[e] = d]
    BY DEF SetState
  <2>3. /\ d \in ExecutorData /\ SameSlots(d, r.exec[e])
        /\ d.pExecutor = r.exec[e].pExecutor /\ d.bytesInPipe = r.exec[e].bytesInPipe
    BY <1>t DEF ExecutorData, SameSlots
  <2> HIDE DEF d
  <2> QED BY <1>1, <2>2, <2>3
<1>5. ASSUME NEW b \in BOOLEAN PROVE Step(r, RemoveOnTimeout(r, e, b), e)
  <2> DEFINE d == [r.exec[e] EXCEPT !.removeOnTimeout = b]
  <2>2. RemoveOnTimeout(r, e, b) = [r EXCEPT !.exec[e] = d]
    BY DEF RemoveOnTimeout
  <2>3. /\ d \in ExecutorData /\ SameSlots(d, r.exec[e])
        /\ d.pExecutor = r.exec[e].pExecutor /\ d.bytesInPipe = r.exec[e].bytesInPipe
    BY <1>t DEF ExecutorData, SameSlots
  <2> HIDE DEF d
  <2> QED BY <1>1, <2>2, <2>3
<1>6. Step(r, [r EXCEPT !.exec[e].pipe = TRUE], e)
  <2> DEFINE d == [r.exec[e] EXCEPT !.pipe = TRUE]
  <2>3. /\ d \in ExecutorData /\ SameSlots(d, r.exec[e])
        /\ d.pExecutor = r.exec[e].pExecutor /\ d.bytesInPipe = r.exec[e].bytesInPipe
    BY <1>t DEF ExecutorData, SameSlots
  <2> HIDE DEF d
  <2>4. Step(r, [r EXCEPT !.exec[e] = d], e)
    BY <1>1, <2>3
  <2> QED BY <2>4 DEF d
<1> QED BY <1>2, <1>3, <1>4, <1>5, <1>6

\* The number of chunks in the pipe.
LEMMA BytesGood ==
  ASSUME NEW r, RegInv(r), NEW e \in r.execUsed, NEW n \in 0 .. MaxPipe
  PROVE  /\ Good(r, [r EXCEPT !.exec[e].bytesInPipe = n], e)
         /\ [r EXCEPT !.exec[e].bytesInPipe = n].exec[e] =
              [r.exec[e] EXCEPT !.bytesInPipe = n]
<1>t. r \in Registry /\ e \in Execs /\ r.exec[e] \in ExecutorData
  BY DEF RegInv, Registry
<1> DEFINE d == [r.exec[e] EXCEPT !.bytesInPipe = n]
<1>1. d \in ExecutorData /\ SameSlots(d, r.exec[e]) /\ d.pExecutor = r.exec[e].pExecutor
  BY <1>t DEF ExecutorData, SameSlots
<1> HIDE DEF d
<1>2. Keeps(r, [r EXCEPT !.exec[e] = d], e) /\ [r EXCEPT !.exec[e] = d].exec[e] = d
  BY <1>1, UpdateKeeps
<1> QED BY <1>1, <1>2 DEF Good, d

----------------------------------------------------------------------------
(* The calls, seen from a handler. *)

LEMMA CallsStep ==
  ASSUME NEW r, RegInv(r), NEW e \in r.execUsed
  PROVE  /\ \A fd, ev : ev \in Interest =>
              \A o \in addPollFd(r, e, fd, ev) : Step(r, o.reg, e)
         /\ \A fd, ev : ev \in Interest =>
              \A o \in editPollFd(r, e, fd, ev) : Step(r, o.reg, e)
         /\ \A k \in Slots : Pd(r, e, k) # None =>
              Step(r, removePollFd(r, e, Fd(r, e, k)).reg, e)
<1>1. ASSUME NEW fd, NEW ev, ev \in Interest, NEW o \in addPollFd(r, e, fd, ev)
      PROVE  Step(r, o.reg, e)
  BY <1>1, AddKeeps DEF Step, Good, SameConn, SameButPoll
<1>2. ASSUME NEW fd, NEW ev, ev \in Interest, NEW o \in editPollFd(r, e, fd, ev)
      PROVE  Step(r, o.reg, e)
  BY <1>2, EditKeeps DEF Step, Good, SameConn
<1>3. ASSUME NEW k \in Slots, Pd(r, e, k) # None
      PROVE  Step(r, removePollFd(r, e, Fd(r, e, k)).reg, e)
  <2>1. LET o == removePollFd(r, e, Fd(r, e, k)) IN
        Keeps(r, o.reg, e) /\ SameButPoll(o.reg.exec[e], r.exec[e])
    BY <1>3, RemoveKeeps
  <2> QED BY <2>1 DEF Step, Good, SameConn, SameButPoll
<1> QED BY <1>1, <1>2, <1>3

LEMMA PollingStep ==
  ASSUME NEW r, RegInv(r), NEW e \in r.execUsed
  PROVE  /\ \A o \in PollFd0(r, e) : Step(r, o.reg, e)
         /\ \A o \in PollFd1(r, e) : Step(r, o.reg, e)
         /\ \A o \in UnpollFd0(r, e) : Step(r, o.reg, e)
         /\ \A o \in UnpollFd1(r, e) : Step(r, o.reg, e)
         /\ \A o \in openPipe(r, e) : Step(r, o.reg, e)
<1>i. {"IN"} \in Interest /\ {"OUT"} \in Interest
  BY DEF Interest
<1>s. 0 \in Slots /\ 1 \in Slots
  BY DEF Slots
<1>0. Step(r, r, e)
  BY GoodRefl
<1>1. \A o \in PollFd0(r, e) : Step(r, o.reg, e)
  BY <1>i, <1>0, CallsStep DEF PollFd0, Done
<1>2. \A o \in PollFd1(r, e) : Step(r, o.reg, e)
  BY <1>i, <1>0, CallsStep DEF PollFd1, Done
<1>3. \A o \in UnpollFd0(r, e) : Step(r, o.reg, e)
  <2>1. Pd(r, e, 0) = r.exec[e].pollData0 /\ Fd(r, e, 0) = r.exec[e].fd0
    BY DEF Pd, Fd
  <2>2. Pd(r, e, 0) # None => Step(r, removePollFd(r, e, Fd(r, e, 0)).reg, e)
    BY <1>s, CallsStep
  <2> QED BY <2>1, <2>2, <1>0 DEF UnpollFd0, Done
<1>4. \A o \in UnpollFd1(r, e) : Step(r, o.reg, e)
  <2>1. Pd(r, e, 1) = r.exec[e].pollData1 /\ Fd(r, e, 1) = r.exec[e].fd1
    BY DEF Pd, Fd
  <2>2. Pd(r, e, 1) # None => Step(r, removePollFd(r, e, Fd(r, e, 1)).reg, e)
    BY <1>s, CallsStep
  <2> QED BY <2>1, <2>2, <1>0 DEF UnpollFd1, Done
<1>5. \A o \in openPipe(r, e) : Step(r, o.reg, e)
  BY <1>0, SettersStep DEF openPipe, Done, Failed
<1> QED BY <1>1, <1>2, <1>3, <1>4, <1>5

\* Opening a file or a socket into fd1.
Opened(r, e, f) == [OpenFd(r, f) EXCEPT !.exec[e].fd1 = f]

LEMMA OpenFd1Good ==
  ASSUME NEW r, RegInv(r), NEW e \in r.execUsed, r.exec[e].fd1 = None,
         NEW f \in FreshFds(r)
  PROVE  /\ Good(r, Opened(r, e, f), e) /\ SameWait(r, Opened(r, e, f), e)
         /\ Opened(r, e, f).exec[e].fd1 = f
<1>t. r \in Registry /\ e \in Execs
  BY DEF RegInv, Registry
<1>f. f \in Fds \ r.open
  <2>1. Fds \ r.open \in SUBSET Fds
    OBVIOUS
  <2> QED BY <2>1, AllocAssumption DEF FreshFds
<1> DEFINE q == OpenFd(r, f)
           s == [q EXCEPT !.exec[e] = TakeFd(@, 1, f)]
<1>1. /\ RegInv(q) /\ q.exec = r.exec /\ q.execUsed = r.execUsed
      /\ q.open = r.open \cup {f} /\ Unheld(r, f) /\ Unheld(q, f)
      /\ Loose(q) = Loose(r) \cup {f} /\ Excess(q) = Excess(r)
      /\ \A c, i : Watch(q, c, i) = Watch(r, c, i)
  BY <1>f, OpenInv
<1> HIDE DEF q
<1>2. Fd(q, e, 1) = None /\ 1 \in Slots /\ q \in Registry
  BY <1>1 DEF Fd, Slots, RegInv
<1>3. /\ RegInv(s) /\ Excess(s) = Excess(r)
      /\ \A c \in Execs, i \in Slots : Watch(s, c, i) = Watch(r, c, i)
  <2>1. s = Taken(q, e, 1, f)
    BY DEF Taken
  <2>2. e \in q.execUsed /\ f \in q.open
    BY <1>1
  <2> HIDE DEF s
  <2> QED BY <1>1, <1>2, <2>1, <2>2, TakenInv
<1>4. /\ s.execUsed = r.execUsed /\ s.open = q.open
      /\ \A c \in Execs : s.exec[c] = IF c = e THEN TakeFd(r.exec[e], 1, f) ELSE r.exec[c]
  BY <1>t, <1>1, <1>2 DEF Registry
<1>5. \A c \in Execs, i \in Slots : Fd(s, c, i) = IF c = e /\ i = 1 THEN f ELSE Fd(r, c, i)
  BY <1>t, <1>4 DEF Fd, Slots, TakeFd, Registry, ExecutorData
<1>6. LET d == TakeFd(r.exec[e], 1, f) IN
      /\ d.pExecutor = r.exec[e].pExecutor /\ d.fd1 = f
      /\ d.state = r.exec[e].state /\ d.bytesInPipe = r.exec[e].bytesInPipe
      /\ d.pollData0 = r.exec[e].pollData0 /\ d.pollData1 = r.exec[e].pollData1
  BY <1>t DEF TakeFd, Registry, ExecutorData
<1>7. s = [q EXCEPT !.exec[e].fd1 = f]
  BY DEF TakeFd
<1> HIDE DEF s
<1>8. Loose(s) = Loose(r)
  <2>1. ~Unheld(s, f) /\ Fd(r, e, 1) = None
    BY <1>t, <1>5 DEF Unheld, Slots, Fd
  <2>2. \A g \in Fds : g # f => (Unheld(s, g) <=> Unheld(r, g))
    BY <1>t, <1>5, <2>1, NoneAssumption DEF Unheld, Slots
  <2>3. r.open \subseteq Fds
    BY <1>t DEF Registry
  <2> QED BY <2>1, <2>2, <2>3, <1>1, <1>4, <1>f DEF Loose
<1>9. Good(r, s, e)
  BY <1>3, <1>4, <1>6, <1>8, <1>t DEF Good, Keeps, Frame
<1>10. SameWait(r, s, e) /\ s.exec[e].fd1 = f
  BY <1>3, <1>4, <1>6, <1>t DEF SameWait, SamePolling, Pd
<1> QED BY <1>7, <1>9, <1>10 DEF q, Opened

----------------------------------------------------------------------------
(* The handlers. *)

LEMMA RequestUpGood ==
  ASSUME NEW r, RegInv(r), NEW e \in r.execUsed, NEW o \in RequestUp(r, e)
  PROVE  Step(r, o.reg, e)
<1> DEFINE q == RemoveOnTimeout(r, e, TRUE)
<1>1. Step(r, q, e)
  BY SettersStep
<1>2. RegInv(q) /\ e \in q.execUsed
  BY <1>1, GoodFacts DEF Step
<1>3. PICK a \in addPollFd(q, e, r.exec[e].fd0, {"IN"}) :
        o = IF a.ok THEN Done(SetState(a.reg, e, "readRequest")) ELSE a
  BY DEF RequestUp
<1> HIDE DEF q
<1>4. Step(q, a.reg, e)
  BY <1>2, CallsStep DEF Interest
<1>5. RegInv(a.reg) /\ e \in a.reg.execUsed
  BY <1>2, <1>4, GoodFacts DEF Step
<1>6. Step(a.reg, SetState(a.reg, e, "readRequest"), e)
  BY <1>5, SettersStep DEF States
<1>7. o.reg = a.reg \/ o.reg = SetState(a.reg, e, "readRequest")
  BY <1>3 DEF Done
<1> QED BY <1>1, <1>4, <1>6, <1>7, StepTrans

\* The outcomes of FileExecutor::up(): an early failure, the 404 response, or
\* the response of an open file.
LEMMA FileUpCases ==
  ASSUME NEW r, NEW e, NEW o \in FileUp(r, e)
  PROVE  LET q == RemoveOnTimeout(r, e, TRUE) IN
         \/ ~o.ok /\ o.reg = q
         \/ \E a \in editPollFd(q, e, q.exec[e].fd0, {"OUT"}) :
              \/ ~a.ok /\ o = a
              \/ a.ok /\ o = Done(SetState(a.reg, e, "sendOnlyHeaders"))
         \/ \E f \in FreshFds(q) :
              \/ ~o.ok /\ o.reg = Opened(q, e, f)
              \/ \E st \in {"sendHeaders", "sendOnlyHeaders"} :
                   o \in editPollFd(SetState(Opened(q, e, f), e, st), e,
                                   Opened(q, e, f).exec[e].fd0, {"OUT"})
<1> DEFINE q == RemoveOnTimeout(r, e, TRUE)
           A == editPollFd(q, e, q.exec[e].fd0, {"OUT"})
           D(f) == UNION {editPollFd(SetState(Opened(q, e, f), e, st), e,
                                     Opened(q, e, f).exec[e].fd0, {"OUT"}) :
                          st \in {"sendHeaders", "sendOnlyHeaders"}}
           B(f) == {Failed(Opened(q, e, f))} \cup D(f)
           C == ThenUp(A, LAMBDA t : {Done(SetState(t, e, "sendOnlyHeaders"))})
           U == UNION {B(f) : f \in FreshFds(q)}
<1>1. o \in {Failed(q)} \cup C \cup U
  BY DEF FileUp, Opened
<1>2. ASSUME o \in C
      PROVE  \E a \in A :
               \/ ~a.ok /\ o = a
               \/ a.ok /\ o = Done(SetState(a.reg, e, "sendOnlyHeaders"))
  <2> HIDE DEF A
  <2>1. PICK a \in A : o \in IF a.ok THEN {Done(SetState(a.reg, e, "sendOnlyHeaders"))} ELSE {a}
    BY <1>2 DEF ThenUp
  <2> QED BY <2>1
<1>3. ASSUME o \in U
      PROVE  \E f \in FreshFds(q) : o = Failed(Opened(q, e, f)) \/ o \in D(f)
  <2> HIDE DEF D
  <2> QED BY <1>3
<1>4. \A f : o \in D(f) => \E st \in {"sendHeaders", "sendOnlyHeaders"} :
              o \in editPollFd(SetState(Opened(q, e, f), e, st), e,
                              Opened(q, e, f).exec[e].fd0, {"OUT"})
  OBVIOUS
<1>5. \A x : ~Failed(x).ok /\ Failed(x).reg = x
  BY DEF Failed
<1> HIDE DEF A, C, D, U
<1>6. \/ ~o.ok /\ o.reg = q
      \/ \E a \in A :
           \/ ~a.ok /\ o = a
           \/ a.ok /\ o = Done(SetState(a.reg, e, "sendOnlyHeaders"))
      \/ \E f \in FreshFds(q) : (~o.ok /\ o.reg = Opened(q, e, f)) \/ o \in D(f)
  BY <1>1, <1>2, <1>3, <1>5
<1> QED BY <1>4, <1>6 DEF A

LEMMA FileUpGood ==
  ASSUME NEW r, RegInv(r), NEW e \in r.execUsed, r.exec[e].fd1 = None,
         NEW o \in FileUp(r, e)
  PROVE  Good(r, o.reg, e)
<1> DEFINE q == RemoveOnTimeout(r, e, TRUE)
<1>i. {"OUT"} \in Interest /\ {"sendHeaders", "sendOnlyHeaders"} \subseteq States
  BY DEF Interest, States
<1>1. Step(r, q, e)
  BY SettersStep
<1>2. /\ RegInv(q) /\ e \in q.execUsed /\ q.exec[e].fd1 = None
      /\ Good(r, q, e)
  BY <1>1, GoodFacts DEF Step, SameConn
<1>3. \/ o.reg = q
      \/ \E a \in editPollFd(q, e, q.exec[e].fd0, {"OUT"}) :
           o.reg = a.reg \/ o.reg = SetState(a.reg, e, "sendOnlyHeaders")
      \/ \E f \in FreshFds(q) :
           \/ o.reg = Opened(q, e, f)
           \/ \E st \in {"sendHeaders", "sendOnlyHeaders"} :
                o \in editPollFd(SetState(Opened(q, e, f), e, st), e,
                                Opened(q, e, f).exec[e].fd0, {"OUT"})
  <2>1. \A x : Done(x).reg = x
    BY DEF Done
  <2>2. \/ ~o.ok /\ o.reg = q
        \/ \E a \in editPollFd(q, e, q.exec[e].fd0, {"OUT"}) :
             \/ ~a.ok /\ o = a
             \/ a.ok /\ o = Done(SetState(a.reg, e, "sendOnlyHeaders"))
        \/ \E f \in FreshFds(q) :
             \/ ~o.ok /\ o.reg = Opened(q, e, f)
             \/ \E st \in {"sendHeaders", "sendOnlyHeaders"} :
                  o \in editPollFd(SetState(Opened(q, e, f), e, st), e,
                                  Opened(q, e, f).exec[e].fd0, {"OUT"})
    BY FileUpCases
  <2> HIDE DEF q
  <2> QED BY <2>1, <2>2
<1> HIDE DEF q
<1>4. CASE o.reg = q
  BY <1>2, <1>4
<1>5. ASSUME NEW a \in editPollFd(q, e, q.exec[e].fd0, {"OUT"}),
             o.reg = a.reg \/ o.reg = SetState(a.reg, e, "sendOnlyHeaders")
      PROVE  Good(r, o.reg, e)
  <2>1. Good(q, a.reg, e)
    BY <1>2, <1>i, CallsStep DEF Step
  <2>2. RegInv(a.reg) /\ e \in a.reg.execUsed
    BY <1>2, <2>1, GoodFacts
  <2>3. Good(a.reg, SetState(a.reg, e, "sendOnlyHeaders"), e)
    BY <2>2, <1>i, SettersStep DEF Step
  <2> QED BY <1>2, <1>5, <2>1, <2>3, GoodTrans
<1>6. ASSUME NEW f \in FreshFds(q)
      PROVE  /\ Good(r, Opened(q, e, f), e)
             /\ \A st \in {"sendHeaders", "sendOnlyHeaders"} :
                  \A a \in editPollFd(SetState(Opened(q, e, f), e, st), e,
                                     Opened(q, e, f).exec[e].fd0, {"OUT"}) :
                    Good(r, a.reg, e)
  <2> DEFINE s == Opened(q, e, f)
  <2>1. Good(q, s, e)
    BY <1>2, OpenFd1Good
  <2> HIDE DEF s
  <2>2. RegInv(s) /\ e \in s.execUsed /\ Good(r, s, e)
    BY <1>2, <2>1, GoodFacts, GoodTrans
  <2>3. ASSUME NEW st \in {"sendHeaders", "sendOnlyHeaders"},
               NEW a \in editPollFd(SetState(s, e, st), e, s.exec[e].fd0, {"OUT"})
        PROVE  Good(r, a.reg, e)
    <3>1. Good(s, SetState(s, e, st), e)
      BY <2>2, <1>i, SettersStep DEF Step
    <3>2. RegInv(SetState(s, e, st)) /\ e \in SetState(s, e, st).execUsed
      BY <2>2, <3>1, GoodFacts
    <3>3. Good(SetState(s, e, st), a.reg, e)
      BY <3>2, <1>i, CallsStep DEF Step
    <3> QED BY <2>2, <3>1, <3>3, GoodTrans
  <2> QED BY <2>2, <2>3 DEF s
<1> QED BY <1>3, <1>4, <1>5, <1>6

\* How ProxyExecutorSplice::up() ends when addPollFd made outcome a and then
\* removePollFd outcome b: one of them fails, or the connection to the backend
\* is under way.
ProxyUpEnds(o, a, b, e) ==
  \/ ~a.ok /\ o = a
  \/ ~b.ok /\ o = b
  \/ a.ok /\ b.ok /\ \E st \in {"forwardRequest", "waitConnect"} :
                        o = Done(SetState(b.reg, e, st))

Unpolled0(r, e) == removePollFd(r, e, r.exec[e].fd0)

LEMMA ProxyUpCases ==
  ASSUME NEW r, NEW e, NEW o \in ProxyUp(r, e)
  PROVE  LET q == RemoveOnTimeout(r, e, TRUE) IN
         \/ ~o.ok /\ o.reg = q
         \/ \E f \in FreshFds(q) : \E a \in addPollFd(Opened(q, e, f), e, f, {"OUT"}) :
              ProxyUpEnds(o, a, Unpolled0(a.reg, e), e)
<1> DEFINE q == RemoveOnTimeout(r, e, TRUE)
           A(f) == addPollFd(Opened(q, e, f), e, f, {"OUT"})
           b(t) == Unpolled0(t, e)
           last(u) == {Done(SetState(u, e, "forwardRequest")),
                       Done(SetState(u, e, "waitConnect"))}
           U == UNION {ThenUp(A(f), LAMBDA t : ThenUp({b(t)}, LAMBDA u : last(u))) :
                       f \in FreshFds(q)}
<1>1. o \in {Failed(q)} \cup U
  BY DEF ProxyUp, Opened, Unpolled0
<1>2. ASSUME o \in U
      PROVE  \E f \in FreshFds(q) : \E a \in A(f) :
               \/ ~a.ok /\ o = a
               \/ ~b(a.reg).ok /\ o = b(a.reg)
               \/ a.ok /\ b(a.reg).ok /\ o \in last(b(a.reg).reg)
  <2> HIDE DEF A, b, last
  <2>1. PICK f \in FreshFds(q) :
          o \in ThenUp(A(f), LAMBDA t : ThenUp({b(t)}, LAMBDA u : last(u)))
    BY <1>2
  <2>2. PICK a \in A(f) :
          \/ ~a.ok /\ o = a
          \/ a.ok /\ o \in ThenUp({b(a.reg)}, LAMBDA u : last(u))
    BY <2>1 DEF ThenUp
  <2>3. o \in ThenUp({b(a.reg)}, LAMBDA u : last(u)) =>
          (~b(a.reg).ok /\ o = b(a.reg)) \/ (b(a.reg).ok /\ o \in last(b(a.reg).reg))
    BY DEF ThenUp
  <2> QED BY <2>2, <2>3
<1>3. \A u : o \in last(u) =>
        \E st \in {"forwardRequest", "waitConnect"} : o = Done(SetState(u, e, st))
  OBVIOUS
<1>4. CASE o = Failed(q)
  BY <1>4 DEF Failed
<1> HIDE DEF last, U
<1>5. CASE o \in U
  <2>1. PICK f \in FreshFds(q) : \E a \in A(f) :
               \/ ~a.ok /\ o = a
               \/ ~b(a.reg).ok /\ o = b(a.reg)
               \/ a.ok /\ b(a.reg).ok /\ o \in last(b(a.reg).reg)
    BY <1>2, <1>5
  <2>2. PICK a \in A(f) :
               \/ ~a.ok /\ o = a
               \/ ~b(a.reg).ok /\ o = b(a.reg)
               \/ a.ok /\ b(a.reg).ok /\ o \in last(b(a.reg).reg)
    BY <2>1
  <2>3. ProxyUpEnds(o, a, b(a.reg), e)
    BY <2>2, <1>3 DEF ProxyUpEnds
  <2> QED BY <2>3
<1> QED BY <1>1, <1>4, <1>5

LEMMA ProxyUpGood ==
  ASSUME NEW r, RegInv(r), NEW e \in r.execUsed, r.exec[e].fd1 = None,
         NEW o \in ProxyUp(r, e)
  PROVE  Good(r, o.reg, e)
<1> DEFINE q == RemoveOnTimeout(r, e, TRUE)
<1>1. Step(r, q, e)
  BY SettersStep
<1>2. /\ RegInv(q) /\ e \in q.execUsed /\ q.exec[e].fd1 = None
      /\ Good(r, q, e)
  BY <1>1, GoodFacts DEF Step, SameConn
<1>3. CASE o.reg = q
  BY <1>2, <1>3
<1>4. ASSUME NEW f \in FreshFds(q), NEW a \in addPollFd(Opened(q, e, f), e, f, {"OUT"}),
             ProxyUpEnds(o, a, Unpolled0(a.reg, e), e)
      PROVE  Good(r, o.reg, e)
  <2> DEFINE s == Opened(q, e, f)
             b == Unpolled0(a.reg, e)
  <2>1. Good(q, s, e)
    BY <1>2, OpenFd1Good
  <2> HIDE DEF s, q
  <2>2. RegInv(s) /\ e \in s.execUsed /\ Good(r, s, e)
    BY <1>2, <2>1, GoodFacts, GoodTrans
  <2>3. Good(s, a.reg, e)
    BY <2>2, CallsStep DEF Step, Interest, s
  <2>4. RegInv(a.reg) /\ e \in a.reg.execUsed /\ Good(r, a.reg, e)
    BY <2>2, <2>3, GoodFacts, GoodTrans
  <2>5. Good(a.reg, b.reg, e)
    <3>1. Pd(a.reg, e, 0) = a.reg.exec[e].pollData0 /\ Fd(a.reg, e, 0) = a.reg.exec[e].fd0
      BY DEF Pd, Fd
    <3>2. CASE a.reg.exec[e].pollData0 # None
      BY <2>4, <3>1, <3>2, CallsStep DEF Slots, Step, Unpolled0
    <3>3. CASE a.reg.exec[e].pollData0 = None
      <4>1. b.reg = a.reg
        BY <3>3 DEF Unpolled0, removePollFd, PollDataOf, Slot0, Failed
      <4> QED BY <4>1, <2>4, GoodRefl
    <3> QED BY <3>2, <3>3
  <2> HIDE DEF b
  <2>6. RegInv(b.reg) /\ e \in b.reg.execUsed /\ Good(r, b.reg, e)
    BY <2>4, <2>5, GoodFacts, GoodTrans
  <2>7. \A st \in {"forwardRequest", "waitConnect"} : Good(r, SetState(b.reg, e, st), e)
    <3>1. \A st \in {"forwardRequest", "waitConnect"} : Good(b.reg, SetState(b.reg, e, st), e)
      BY <2>6, SettersStep DEF Step, States
    <3> QED BY <3>1, <2>6, GoodTrans
  <2> QED BY <1>4, <2>4, <2>6, <2>7 DEF b, ProxyUpEnds, Done
<1>5. \/ o.reg = q
      \/ \E f \in FreshFds(q) : \E a \in addPollFd(Opened(q, e, f), e, f, {"OUT"}) :
           ProxyUpEnds(o, a, Unpolled0(a.reg, e), e)
  BY ProxyUpCases
<1> QED BY <1>3, <1>4, <1>5

\* What a handler that ends with RetryOk does.
LEMMA RetryOkStep ==
  ASSUME NEW r, RegInv(r), NEW e \in r.execUsed, NEW o \in RetryOk(r, e)
  PROVE  Step(r, o.reg, e)
<1>1. o.reg = Retry(r, e)
  BY DEF RetryOk, Return
<1>2. Step(r, Retry(r, e), e)
  BY SettersStep
<1> QED BY <1>1, <1>2

LEMMA ForwardRequestCases ==
  ASSUME NEW r, NEW e, NEW o \in process_forwardRequest(r, e),
         NEW q, q = SetState(Progress(r, e), e, "forwardResponse")
  PROVE  \/ o \in {Return(removeExecutorError, r), Return(ok, Retry(r, e)),
                   Return(ok, Progress(r, e))}
         \/ \E a \in editPollFd(q, e, r.exec[e].fd1, {"IN"}) :
              \/ o = Return(removeExecutorError, a.reg)
              \/ a.ok /\ \E b \in openPipe(a.reg, e) :
                   \/ o = Return(removeExecutorError, b.reg)
                   \/ b.ok /\ o = Return(ok, b.reg)
<1> DEFINE A == editPollFd(q, e, r.exec[e].fd1, {"IN"})
           C(x) == Then(openPipe(x, e), LAMBDA y : {Return(ok, y)})
           D == Then(A, LAMBDA x : C(x))
<1>1. \/ o \in {Return(removeExecutorError, r), Return(ok, Retry(r, e)),
                Return(ok, Progress(r, e))}
      \/ o \in D
  BY DEF process_forwardRequest
<1>2. ASSUME o \in D
      PROVE  \E a \in A :
               \/ o = Return(removeExecutorError, a.reg)
               \/ a.ok /\ o \in C(a.reg)
  <2> HIDE DEF A, C
  <2>1. PICK a \in A : o \in IF a.ok THEN C(a.reg) ELSE {Return(removeExecutorError, a.reg)}
    BY <1>2 DEF Then
  <2> QED BY <2>1
<1>3. \A x : o \in C(x) => \E b \in openPipe(x, e) :
              \/ o = Return(removeExecutorError, b.reg)
              \/ b.ok /\ o = Return(ok, b.reg)
  BY DEF Then
<1> HIDE DEF C, D
<1> QED BY <1>1, <1>2, <1>3

LEMMA ForwardRequestStep ==
  ASSUME NEW r, RegInv(r), NEW e \in r.execUsed,
         NEW o \in process_forwardRequest(r, e)
  PROVE  Step(r, o.reg, e)
<1> DEFINE q == SetState(Progress(r, e), e, "forwardResponse")
           A == editPollFd(q, e, r.exec[e].fd1, {"IN"})
<1>0. Step(r, r, e) /\ Step(r, Retry(r, e), e) /\ Step(r, Progress(r, e), e)
  BY GoodRefl, SettersStep
<1>1. Step(r, q, e)
  <2> DEFINE p == Progress(r, e)
  <2>1. RegInv(p) /\ e \in p.execUsed
    BY <1>0, GoodFacts DEF Step
  <2> HIDE DEF p
  <2>2. Step(p, SetState(p, e, "forwardResponse"), e)
    BY <2>1, SettersStep DEF States
  <2> QED BY <1>0, <2>2, StepTrans DEF p
<1> HIDE DEF q
<1>2. RegInv(q) /\ e \in q.execUsed
  BY <1>1, GoodFacts DEF Step
<1>3. \A a \in A : /\ Step(r, a.reg, e)
                   /\ \A b \in openPipe(a.reg, e) : Step(r, b.reg, e)
  <2> TAKE a \in A
  <2>1. Step(q, a.reg, e)
    BY <1>2, CallsStep DEF Interest
  <2>2. RegInv(a.reg) /\ e \in a.reg.execUsed /\ Step(r, a.reg, e)
    BY <1>1, <1>2, <2>1, GoodFacts, StepTrans DEF Step
  <2>3. \A b \in openPipe(a.reg, e) : Step(a.reg, b.reg, e)
    BY <2>2, PollingStep
  <2> QED BY <2>2, <2>3, StepTrans
<1>4. \/ o.reg \in {r, Retry(r, e), Progress(r, e)}
      \/ \E a \in A : o.reg = a.reg \/ \E b \in openPipe(a.reg, e) : o.reg = b.reg
  BY ForwardRequestCases DEF Return, q
<1> HIDE DEF A
<1> QED BY <1>0, <1>3, <1>4

LEMMA WaitConnectStep ==
  ASSUME NEW r, RegInv(r), NEW e \in r.execUsed,
         NEW o \in process_waitConnect(r, e)
  PROVE  Step(r, o.reg, e)
<1> DEFINE q == SetState(r, e, "forwardRequest")
<1>1. Step(r, q, e) /\ Step(r, r, e) /\ Step(r, Retry(r, e), e)
  BY GoodRefl, SettersStep DEF States
<1>2. RegInv(q) /\ e \in q.execUsed
  BY <1>1, GoodFacts DEF Step
<1>3. o.reg \in {r, Retry(r, e)} \/ o \in process_forwardRequest(q, e)
  BY DEF process_waitConnect, Return
<1> HIDE DEF q
<1>4. o \in process_forwardRequest(q, e) => Step(q, o.reg, e)
  BY <1>2, ForwardRequestStep
<1> QED BY <1>1, <1>3, <1>4, StepTrans

\* n is what splice() moved to the client: not more than the pipe held.
LEMMA SpliceWrittenGood ==
  ASSUME NEW r, RegInv(r), NEW e \in r.execUsed,
         NEW n \in 1 .. r.exec[e].bytesInPipe, NEW o \in SpliceWritten(r, e, n)
  PROVE  Good(r, o.reg, e)
<1> DEFINE left == r.exec[e].bytesInPipe - n
           s == [r EXCEPT !.exec[e].bytesInPipe = left]
           q == Progress(s, e)
<1>t. r \in Registry /\ e \in Execs /\ r.exec[e].bytesInPipe \in 0 .. MaxPipe
  BY DEF RegInv, Registry, ExecutorData
<1>1. left \in 0 .. MaxPipe
  BY <1>t, MaxPipeAssumption
<1> HIDE DEF left
<1>2. Good(r, s, e)
  BY <1>1, BytesGood
<1> HIDE DEF s
<1>3. RegInv(s) /\ e \in s.execUsed
  BY <1>2, GoodFacts
<1>4. Good(s, q, e)
  BY <1>3, SettersStep DEF Step
<1> HIDE DEF q
<1>5. RegInv(q) /\ e \in q.execUsed /\ Good(r, q, e)
  BY <1>2, <1>3, <1>4, GoodFacts, GoodTrans
<1> DEFINE P == Then(PollFd0(q, e), LAMBDA x : RetryOk(x, e))
           C(x) == Then(PollFd1(x, e), LAMBDA t : RetryOk(t, e))
           U == Then(UnpollFd0(q, e), LAMBDA x : C(x))
<1>6. \/ o.reg = q \/ o \in P \/ o \in U
  BY DEF SpliceWritten, Return, q, s, left
<1>7. ASSUME o \in P PROVE Good(r, o.reg, e)
  <2>1. PICK a \in PollFd0(q, e) : o.reg = a.reg \/ o \in RetryOk(a.reg, e)
    BY <1>7 DEF Then, Return
  <2>2. Step(q, a.reg, e)
    BY <1>5, PollingStep
  <2>3. RegInv(a.reg) /\ e \in a.reg.execUsed /\ Good(r, a.reg, e)
    BY <1>5, <2>2, GoodFacts, GoodTrans DEF Step
  <2>4. o \in RetryOk(a.reg, e) => Good(a.reg, o.reg, e)
    BY <2>3, RetryOkStep DEF Step
  <2> QED BY <2>1, <2>3, <2>4, GoodTrans
<1>8. ASSUME o \in U PROVE Good(r, o.reg, e)
  <2>1. PICK a \in UnpollFd0(q, e) : o.reg = a.reg \/ o \in C(a.reg)
    <3> HIDE DEF C
    <3> QED BY <1>8 DEF Then, Return
  <2>2. Step(q, a.reg, e)
    BY <1>5, PollingStep
  <2>3. RegInv(a.reg) /\ e \in a.reg.execUsed /\ Good(r, a.reg, e)
    BY <1>5, <2>2, GoodFacts, GoodTrans DEF Step
  <2>4. ASSUME o \in C(a.reg) PROVE Good(r, o.reg, e)
    <3>1. PICK b \in PollFd1(a.reg, e) : o.reg = b.reg \/ o \in RetryOk(b.reg, e)
      BY <2>4 DEF Then, Return
    <3>2. Step(a.reg, b.reg, e)
      BY <2>3, PollingStep
    <3>3. RegInv(b.reg) /\ e \in b.reg.execUsed /\ Good(r, b.reg, e)
      BY <2>3, <3>2, GoodFacts, GoodTrans DEF Step
    <3>4. o \in RetryOk(b.reg, e) => Good(b.reg, o.reg, e)
      BY <3>3, RetryOkStep DEF Step
    <3> QED BY <3>1, <3>3, <3>4, GoodTrans
  <2> QED BY <2>1, <2>3, <2>4
<1> HIDE DEF P, U
<1> QED BY <1>5, <1>6, <1>7, <1>8

LEMMA ResponseWriteGood ==
  ASSUME NEW r, RegInv(r), NEW e \in r.execUsed,
         NEW o \in process_forwardResponseWrite(r, e)
  PROVE  Good(r, o.reg, e)
<1> DEFINE q == Retry(r, e)
           P == Then(PollFd0(q, e), LAMBDA x : {Return(ok, x)})
<1>1. Step(r, r, e) /\ Step(r, q, e)
  BY GoodRefl, SettersStep
<1>2. RegInv(q) /\ e \in q.execUsed
  BY <1>1, GoodFacts DEF Step
<1>3. \/ o.reg = r \/ o \in P \/ o \in RetryOk(r, e)
      \/ \E n \in 1 .. r.exec[e].bytesInPipe : o \in SpliceWritten(r, e, n)
  <2> DEFINE W(n) == SpliceWritten(r, e, n)
             U == UNION {W(n) : n \in 1 .. r.exec[e].bytesInPipe}
  <2>1. \/ o \in {Return(removeExecutorError, r)} \cup P \cup U
        \/ o = Return(removeExecutorOk, r) \/ o \in RetryOk(r, e)
    <3> HIDE DEF q
    <3> QED BY DEF process_forwardResponseWrite, q
  <2>2. o \in U => \E n \in 1 .. r.exec[e].bytesInPipe : o \in W(n)
    <3> HIDE DEF W
    <3> QED OBVIOUS
  <2> HIDE DEF U, P
  <2> QED BY <2>1, <2>2 DEF Return
<1> HIDE DEF q
<1>4. ASSUME o \in P PROVE Step(r, o.reg, e)
  <2>1. PICK a \in PollFd0(q, e) : o.reg = a.reg
    BY <1>4 DEF Then, Return
  <2> QED BY <2>1, <1>1, <1>2, PollingStep, StepTrans
<1> HIDE DEF P
<1> QED BY <1>1, <1>3, <1>4, RetryOkStep, SpliceWrittenGood DEF Step

LEMMA ResponseReadGood ==
  ASSUME NEW r, RegInv(r), NEW e \in r.execUsed, r.exec[e].fd1 # None,
         NEW o \in process_forwardResponseRead(r, e)
  PROVE  Good(r, o.reg, e)
<1> DEFINE room == MaxPipe - r.exec[e].bytesInPipe
           q == Retry(r, e)
           P == Then(UnpollFd1(q, e), LAMBDA x : {Return(ok, x)})
           c == closeFd1(r, e)
           w == SetState(c, e, "forwardResponseOnlyWrite")
           g == Progress(r, e)
           m(n) == [g EXCEPT !.exec[e].bytesInPipe = @ + n]
<1>1. Step(r, r, e) /\ Step(r, q, e) /\ Step(r, g, e)
  BY GoodRefl, SettersStep
<1>2. RegInv(q) /\ e \in q.execUsed /\ RegInv(g) /\ e \in g.execUsed
  BY <1>1, GoodFacts DEF Step
<1>3. \/ o.reg = r \/ o \in P \/ o \in RetryOk(r, e)
      \/ o \in process_forwardResponseWrite(w, e)
      \/ \E n \in 1 .. room : o \in process_forwardResponseWrite(m(n), e)
  <2> DEFINE X(n) == process_forwardResponseWrite(m(n), e)
             U == UNION {X(n) : n \in 1 .. room}
             V == process_forwardResponseWrite(w, e)
             R == RetryOk(r, e)
  <2>1. o \in {Return(removeExecutorError, r)} \cup P \cup R \cup V \cup U
    BY DEF process_forwardResponseRead
  <2>2. o \in U => \E n \in 1 .. room : o \in X(n)
    <3> HIDE DEF X, room
    <3> QED OBVIOUS
  <2> HIDE DEF U, P, V, R
  <2>3. o.reg = r \/ o \in P \/ o \in R \/ o \in V \/ o \in U
    BY <2>1 DEF Return
  <2> QED BY <2>2, <2>3 DEF V, R
<1>4. ASSUME o \in P PROVE Step(r, o.reg, e)
  <2> HIDE DEF q
  <2>1. PICK a \in UnpollFd1(q, e) : o.reg = a.reg
    BY <1>4 DEF Then, Return
  <2> QED BY <2>1, <1>1, <1>2, PollingStep, StepTrans
<1>5. ASSUME o \in process_forwardResponseWrite(w, e) PROVE Good(r, o.reg, e)
  <2>1. Good(r, c, e)
    BY CloseKeeps DEF Good
  <2>2. RegInv(c) /\ e \in c.execUsed
    BY <2>1, GoodFacts
  <2> HIDE DEF c
  <2>3. Good(c, w, e)
    BY <2>2, SettersStep DEF Step, States
  <2> HIDE DEF w
  <2>4. RegInv(w) /\ e \in w.execUsed /\ Good(r, w, e)
    BY <2>1, <2>2, <2>3, GoodFacts, GoodTrans
  <2>5. Good(w, o.reg, e)
    BY <2>4, <1>5, ResponseWriteGood
  <2> QED BY <2>4, <2>5, GoodTrans
<1>6. ASSUME NEW n \in 1 .. room, o \in process_forwardResponseWrite(m(n), e)
      PROVE  Good(r, o.reg, e)
  <2> DEFINE k == g.exec[e].bytesInPipe + n
             s == [g EXCEPT !.exec[e].bytesInPipe = k]
  <2>1. k \in 0 .. MaxPipe
    <3>1. r.exec[e].bytesInPipe \in 0 .. MaxPipe /\ g.exec[e].bytesInPipe = r.exec[e].bytesInPipe
      BY <1>1 DEF Step, SameConn, RegInv, Registry, ExecutorData
    <3> HIDE DEF g
    <3> QED BY <3>1, MaxPipeAssumption
  <2>2. m(n) = s
    OBVIOUS
  <2> HIDE DEF k, g, m
  <2>3. Good(g, s, e)
    BY <1>2, <2>1, BytesGood
  <2> HIDE DEF s
  <2>4. RegInv(s) /\ e \in s.execUsed /\ Good(r, s, e)
    BY <1>1, <1>2, <2>3, GoodFacts, GoodTrans DEF Step
  <2>5. Good(s, o.reg, e)
    BY <2>2, <2>4, <1>6, ResponseWriteGood
  <2> QED BY <2>4, <2>5, GoodTrans
<1> HIDE DEF P, w, m, room
<1> QED BY <1>1, <1>3, <1>4, <1>5, <1>6, RetryOkStep DEF Step

LEMMA FileProcessStep ==
  ASSUME NEW r, RegInv(r), NEW e \in r.execUsed, NEW fd, NEW ev,
         NEW o \in FileProcess(r, e, fd, ev)
  PROVE  Step(r, o.reg, e)
<1> DEFINE q == Progress(r, e)
<1>1. Step(r, r, e) /\ Step(r, Retry(r, e), e) /\ Step(r, q, e)
  BY GoodRefl, SettersStep
<1>2. RegInv(q) /\ e \in q.execUsed
  BY <1>1, GoodFacts DEF Step
<1> HIDE DEF q
<1>3. Step(r, SetState(q, e, "sendFile"), e)
  <2>1. Step(q, SetState(q, e, "sendFile"), e)
    BY <1>2, SettersStep DEF States
  <2> QED BY <1>1, <2>1, StepTrans
<1>4. o.reg \in {r, Retry(r, e), q, SetState(q, e, "sendFile")}
  <2>1. \A x \in process_sendHeaders(r, e) :
          x.reg \in {r, Retry(r, e), q, SetState(q, e, "sendFile")}
    BY DEF process_sendHeaders, Return, q
  <2>2. \A x \in process_sendFile(r, e) : x.reg \in {r, Retry(r, e), q}
    BY DEF process_sendFile, Return, q
  <2>3. \/ o \in process_sendHeaders(r, e) \/ o \in process_sendFile(r, e)
        \/ o = Return(removeExecutorError, r)
    BY DEF FileProcess
  <2> QED BY <2>1, <2>2, <2>3 DEF Return
<1> QED BY <1>1, <1>3, <1>4

LEMMA ProxyProcessGood ==
  ASSUME NEW r, RegInv(r), NEW e \in r.execUsed, NEW fd, fd # None, NEW ev,
         NEW o \in ProxyProcess(r, e, fd, ev)
  PROVE  Good(r, o.reg, e)
<1>1. \/ o \in process_waitConnect(r, e) \/ o \in process_forwardRequest(r, e)
      \/ fd = r.exec[e].fd1 /\ o \in process_forwardResponseRead(r, e)
      \/ o \in process_forwardResponseWrite(r, e)
      \/ o = Return(removeExecutorError, r)
  BY DEF ProxyProcess
<1>2. o = Return(removeExecutorError, r) => Good(r, o.reg, e)
  BY GoodRefl DEF Return
<1> QED BY <1>1, <1>2, WaitConnectStep, ForwardRequestStep, ResponseReadGood,
           ResponseWriteGood DEF Step

\* What holds of the executor of a connection: while the request is read there
\* is no second descriptor.
ConnOK(d) ==
  /\ d.pExecutor \in {"request", "file", "proxy"}
  /\ d.pExecutor = "request" => d.fd1 = None

LEMMA SetExecutorKeeps ==
  ASSUME NEW r, RegInv(r), NEW e \in r.execUsed, r.exec[e].fd1 = None,
         NEW kind \in {"file", "proxy"}, NEW o \in setExecutor(r, e, kind)
  PROVE  Keeps(r, o.reg, e) /\ o.reg.exec[e].pExecutor = kind
<1> DEFINE q == SetExecutor(r, e, kind)
           A == IF kind = "file" THEN FileUp(q, e) ELSE ProxyUp(q, e)
<1>1. Keeps(r, q, e) /\ q.exec[e].pExecutor = kind /\ q.exec[e].fd1 = None
  <2> DEFINE d == [r.exec[e] EXCEPT !.pExecutor = kind]
  <2>1. r \in Registry /\ e \in Execs /\ r.exec[e] \in ExecutorData
    BY DEF RegInv, Registry
  <2>2. d \in ExecutorData /\ SameSlots(d, r.exec[e]) /\ d.pExecutor = kind /\ d.fd1 = None
    BY <2>1 DEF ExecutorData, SameSlots, Kinds
  <2> HIDE DEF d
  <2>3. Keeps(r, [r EXCEPT !.exec[e] = d], e) /\ [r EXCEPT !.exec[e] = d].exec[e] = d
    BY <2>2, UpdateKeeps
  <2>4. q = [r EXCEPT !.exec[e] = d]
    BY DEF SetExecutor, d
  <2> QED BY <2>2, <2>3, <2>4
<1> HIDE DEF q
<1>2. RegInv(q) /\ e \in q.execUsed
  BY <1>1 DEF Keeps
<1>3. \A a \in A : Good(q, a.reg, e)
  BY <1>1, <1>2, FileUpGood, ProxyUpGood
<1>4. \E a \in A : o.reg = a.reg
  <2>1. o \in Then(A, LAMBDA x : {Return(ok, x)})
    BY DEF setExecutor, q
  <2> HIDE DEF A
  <2> QED BY <2>1 DEF Then, Return
<1> HIDE DEF A
<1> QED BY <1>1, <1>3, <1>4, KeepsTrans DEF Good

LEMMA RequestProcessKeeps ==
  ASSUME NEW r, RegInv(r), NEW e \in r.execUsed, r.exec[e].pExecutor = "request",
         r.exec[e].fd1 = None, NEW fd, NEW ev, NEW o \in RequestProcess(r, e, fd, ev)
  PROVE  Keeps(r, o.reg, e) /\ ConnOK(o.reg.exec[e])
<1> DEFINE q == Progress(r, e)
<1>1. Step(r, r, e) /\ Step(r, Retry(r, e), e) /\ Step(r, q, e)
  BY GoodRefl, SettersStep
<1> HIDE DEF q
<1>2. RegInv(q) /\ e \in q.execUsed /\ q.exec[e].fd1 = None
  BY <1>1, GoodFacts DEF Step, SameConn
<1>3. \/ o.reg \in {r, q, Retry(r, e)}
      \/ \E kind \in {"file", "proxy"} : o \in setExecutor(q, e, kind)
  BY DEF RequestProcess, process_readRequest, q, Return
<1>4. CASE o.reg \in {r, q, Retry(r, e)}
  BY <1>1, <1>4 DEF Step, Good, SameConn, ConnOK
<1>5. ASSUME NEW kind \in {"file", "proxy"}, o \in setExecutor(q, e, kind)
      PROVE  Keeps(r, o.reg, e) /\ ConnOK(o.reg.exec[e])
  BY <1>1, <1>2, <1>5, SetExecutorKeeps, KeepsTrans DEF Step, Good, ConnOK
<1> QED BY <1>3, <1>4, <1>5

\* process() of any executor of a client connection.
LEMMA ProcessKeeps ==
  ASSUME NEW r, RegInv(r), NEW e \in r.execUsed, ConnOK(r.exec[e]),
         NEW fd, fd # None, NEW ev, NEW o \in process(r, e, fd, ev)
  PROVE  Keeps(r, o.reg, e) /\ ConnOK(o.reg.exec[e])
<1>1. CASE r.exec[e].pExecutor = "request"
  <2>1. o \in RequestProcess(r, e, fd, ev)
    BY <1>1 DEF process
  <2> QED BY <1>1, <2>1, RequestProcessKeeps DEF ConnOK
<1>2. CASE r.exec[e].pExecutor = "file"
  <2>1. o \in FileProcess(r, e, fd, ev)
    BY <1>2 DEF process
  <2> QED BY <1>2, <2>1, FileProcessStep DEF Step, Good, ConnOK
<1>3. CASE r.exec[e].pExecutor = "proxy"
  <2>1. o \in ProxyProcess(r, e, fd, ev)
    BY <1>3 DEF process
  <2> QED BY <1>3, <2>1, ProxyProcessGood DEF Good, ConnOK
<1> QED BY <1>1, <1>2, <1>3 DEF ConnOK

----------------------------------------------------------------------------
(* What a handler that keeps the connection leaves it waiting for.         *)

\* Of the two descriptors of a proxy the client's is watched only to write to
\* it and the backend's only to read from it.
Piped(r, e) ==
  /\ Pd(r, e, 0) # None => "OUT" \in Watch(r, e, 0)
  /\ Pd(r, e, 1) # None => "IN" \in Watch(r, e, 1)

\* What a connection waits for is watched. A proxy that forwards the response
\* watches the client while there are bytes in the pipe and only then.
Watched(r, e) ==
  LET st == r.exec[e].state
      n == r.exec[e].bytesInPipe IN
  \/ st = "readRequest" /\ "IN" \in Watch(r, e, 0) /\ n = 0
  \/ /\ st \in {"sendHeaders", "sendOnlyHeaders", "sendFile"}
     /\ "OUT" \in Watch(r, e, 0)
  \/ /\ st \in {"waitConnect", "forwardRequest"}
     /\ "OUT" \in Watch(r, e, 1) /\ Pd(r, e, 0) = None /\ n = 0
  \/ /\ st = "forwardResponse" /\ Piped(r, e)
     /\ IF n > 0 THEN Pd(r, e, 0) # None
        ELSE Pd(r, e, 0) = None /\ Pd(r, e, 1) # None
  \/ /\ st = "forwardResponseOnlyWrite" /\ Piped(r, e)
     /\ n > 0 /\ Pd(r, e, 0) # None

\* The handler's result removes the executor, or the connection waits.
Waits(o, e) ==
  o.result \in {removeExecutorOk, removeExecutorError} \/ Watched(o.reg, e)

LEMMA SameWaitWatched ==
  ASSUME NEW r, NEW s, NEW e, SameWait(r, s, e)
  PROVE  /\ Watched(r, e) => Watched(s, e)
         /\ Piped(r, e) => Piped(s, e)
<1>1. /\ Pd(s, e, 0) = Pd(r, e, 0) /\ Pd(s, e, 1) = Pd(r, e, 1)
      /\ Watch(s, e, 0) = Watch(r, e, 0) /\ Watch(s, e, 1) = Watch(r, e, 1)
      /\ s.exec[e].state = r.exec[e].state
      /\ s.exec[e].bytesInPipe = r.exec[e].bytesInPipe
  BY DEF SameWait, SamePolling, Slots
<1>2. Piped(r, e) => Piped(s, e)
  BY <1>1 DEF Piped
<1> QED BY <1>1, <1>2 DEF Watched

LEMMA SameWaitTrans ==
  ASSUME NEW r, NEW s, NEW t, NEW e, SameWait(r, s, e), SameWait(s, t, e)
  PROVE  SameWait(r, t, e)
BY DEF SameWait, SamePolling

LEMMA UpdateWait ==
  ASSUME NEW r, RegInv(r), NEW e \in r.execUsed, NEW d \in ExecutorData,
         SameSlots(d, r.exec[e])
  PROVE  SamePolling(r, [r EXCEPT !.exec[e] = d], e)
BY UpdateKeeps DEF SamePolling, Pd, SameSlots

LEMMA SettersWait ==
  ASSUME NEW r, RegInv(r), NEW e \in r.execUsed
  PROVE  /\ SameWait(r, Retry(r, e), e)
         /\ SameWait(r, Progress(r, e), e)
         /\ SameWait(r, RemoveOnTimeout(r, e, TRUE), e)
         /\ \A kind \in Kinds : SameWait(r, SetExecutor(r, e, kind), e)
<1>t. r \in Registry /\ e \in Execs /\ r.exec[e] \in ExecutorData
  BY DEF RegInv, Registry
<1>1. ASSUME NEW d \in ExecutorData, SameSlots(d, r.exec[e]),
             d.state = r.exec[e].state, d.bytesInPipe = r.exec[e].bytesInPipe
      PROVE  SameWait(r, [r EXCEPT !.exec[e] = d], e)
  BY <1>1, UpdateWait, UpdateKeeps DEF SameWait
<1>2. SameWait(r, Retry(r, e), e)
  <2> DEFINE n == r.exec[e].retryCounter + 1
             d == [r.exec[e] EXCEPT !.retryCounter = n]
  <2>1. n \in Nat
    BY <1>t DEF ExecutorData
  <2>2. Retry(r, e) = [r EXCEPT !.exec[e] = d]
    BY DEF Retry
  <2> HIDE DEF n
  <2>3. /\ d \in ExecutorData /\ SameSlots(d, r.exec[e])
        /\ d.state = r.exec[e].state /\ d.bytesInPipe = r.exec[e].bytesInPipe
    BY <1>t, <2>1 DEF ExecutorData, SameSlots
  <2> HIDE DEF d
  <2> QED BY <1>1, <2>2, <2>3
<1>3. SameWait(r, Progress(r, e), e)
  <2> DEFINE d == [r.exec[e] EXCEPT !.retryCounter = 0]
  <2>2. Progress(r, e) = [r EXCEPT !.exec[e] = d]
    BY DEF Progress
  <2>3. /\ d \in ExecutorData /\ SameSlots(d, r.exec[e])
        /\ d.state = r.exec[e].state /\ d.bytesInPipe = r.exec[e].bytesInPipe
    BY <1>t DEF ExecutorData, SameSlots
  <2> HIDE DEF d
  <2> QED BY <1>1, <2>2, <2>3
<1>4. SameWait(r, RemoveOnTimeout(r, e, TRUE), e)
  <2> DEFINE d == [r.exec[e] EXCEPT !.removeOnTimeout = TRUE]
  <2>2. RemoveOnTimeout(r, e, TRUE) = [r EXCEPT !.exec[e] = d]
    BY DEF RemoveOnTimeout
  <2>3. /\ d \in ExecutorData /\ SameSlots(d, r.exec[e])
        /\ d.state = r.exec[e].state /\ d.bytesInPipe = r.exec[e].bytesInPipe
    BY <1>t DEF ExecutorData, SameSlots
  <2> HIDE DEF d
  <2> QED BY <1>1, <2>2, <2>3
<1>5. ASSUME NEW kind \in Kinds PROVE SameWait(r, SetExecutor(r, e, kind), e)
  <2> DEFINE d == [r.exec[e] EXCEPT !.pExecutor = kind]
  <2>2. SetExecutor(r, e, kind) = [r EXCEPT !.exec[e] = d]
    BY DEF SetExecutor
  <2>3. /\ d \in ExecutorData /\ SameSlots(d, r.exec[e])
        /\ d.state = r.exec[e].state /\ d.bytesInPipe = r.exec[e].bytesInPipe
    BY <1>t DEF ExecutorData, SameSlots
  <2> HIDE DEF d
  <2> QED BY <1>1, <2>2, <2>3
<1> QED BY <1>2, <1>3, <1>4, <1>5

LEMMA SetStateWait ==
  ASSUME NEW r, RegInv(r), NEW e \in r.execUsed, NEW st \in States
  PROVE  /\ Step(r, SetState(r, e, st), e)
         /\ SamePolling(r, SetState(r, e, st), e)
         /\ SetState(r, e, st).exec[e].state = st
         /\ SetState(r, e, st).exec[e].bytesInPipe = r.exec[e].bytesInPipe
<1>t. r \in Registry /\ e \in Execs /\ r.exec[e] \in ExecutorData
  BY DEF RegInv, Registry
<1> DEFINE d == [r.exec[e] EXCEPT !.state = st]
<1>1. SetState(r, e, st) = [r EXCEPT !.exec[e] = d]
  BY DEF SetState
<1>2. /\ d \in ExecutorData /\ SameSlots(d, r.exec[e])
      /\ d.state = st /\ d.bytesInPipe = r.exec[e].bytesInPipe
  BY <1>t DEF ExecutorData, SameSlots
<1> HIDE DEF d
<1>3. /\ SamePolling(r, [r EXCEPT !.exec[e] = d], e)
      /\ [r EXCEPT !.exec[e] = d].exec[e] = d
  BY <1>2, UpdateWait, UpdateKeeps
<1>4. Step(r, SetState(r, e, st), e)
  BY SettersStep
<1> QED BY <1>1, <1>2, <1>3, <1>4

LEMMA OpenPipeWait ==
  ASSUME NEW r, RegInv(r), NEW e \in r.execUsed, NEW o \in openPipe(r, e), o.ok
  PROVE  SameWait(r, o.reg, e)
<1>t. r \in Registry /\ e \in Execs /\ r.exec[e] \in ExecutorData
  BY DEF RegInv, Registry
<1> DEFINE d == [r.exec[e] EXCEPT !.pipe = TRUE]
<1>1. o.reg = [r EXCEPT !.exec[e] = d]
  <2> DEFINE b == [r EXCEPT !.exec[e].pipe = TRUE]
  <2>1. o \in {Failed(r), Done(b)}
    BY DEF openPipe
  <2> HIDE DEF b
  <2>2. o.reg = b
    BY <2>1 DEF Done, Failed
  <2> QED BY <2>2 DEF b
<1>2. /\ d \in ExecutorData /\ SameSlots(d, r.exec[e])
      /\ d.state = r.exec[e].state /\ d.bytesInPipe = r.exec[e].bytesInPipe
  BY <1>t DEF ExecutorData, SameSlots
<1> HIDE DEF d
<1>3. /\ SamePolling(r, [r EXCEPT !.exec[e] = d], e)
      /\ [r EXCEPT !.exec[e] = d].exec[e] = d
  BY <1>2, UpdateWait, UpdateKeeps
<1> QED BY <1>1, <1>2, <1>3 DEF SameWait

\* The number of chunks in the pipe.
SetBytes(r, e, n) == [r EXCEPT !.exec[e].bytesInPipe = n]

LEMMA SetBytesWait ==
  ASSUME NEW r, RegInv(r), NEW e \in r.execUsed, NEW n \in 0 .. MaxPipe
  PROVE  /\ Good(r, SetBytes(r, e, n), e)
         /\ SamePolling(r, SetBytes(r, e, n), e)
         /\ SetBytes(r, e, n).exec[e].state = r.exec[e].state
         /\ SetBytes(r, e, n).exec[e].bytesInPipe = n
<1>t. r \in Registry /\ e \in Execs /\ r.exec[e] \in ExecutorData
  BY DEF RegInv, Registry
<1> DEFINE d == [r.exec[e] EXCEPT !.bytesInPipe = n]
<1>1. SetBytes(r, e, n) = [r EXCEPT !.exec[e] = d]
  BY DEF SetBytes
<1>2. /\ d \in ExecutorData /\ SameSlots(d, r.exec[e])
      /\ d.state = r.exec[e].state /\ d.bytesInPipe = n
  BY <1>t DEF ExecutorData, SameSlots
<1> HIDE DEF d
<1>3. /\ SamePolling(r, [r EXCEPT !.exec[e] = d], e)
      /\ [r EXCEPT !.exec[e] = d].exec[e] = d
  BY <1>2, UpdateWait, UpdateKeeps
<1>4. Good(r, SetBytes(r, e, n), e)
  BY BytesGood DEF SetBytes
<1> QED BY <1>1, <1>2, <1>3, <1>4

\* A call on the descriptor of slot k leaves the other slot alone.
SameOther(r, s, e, k) ==
  /\ \A i \in Slots \ {k} : Pd(s, e, i) = Pd(r, e, i) /\ Watch(s, e, i) = Watch(r, e, i)
  /\ s.exec[e].state = r.exec[e].state
  /\ s.exec[e].bytesInPipe = r.exec[e].bytesInPipe

LEMMA AddWait ==
  ASSUME NEW r, RegInv(r), NEW e \in r.execUsed, NEW k \in Slots,
         NEW ev \in Interest, NEW o \in addPollFd(r, e, Fd(r, e, k), ev), o.ok
  PROVE  /\ SameOther(r, o.reg, e, k)
         /\ Pd(o.reg, e, k) # None /\ Watch(o.reg, e, k) = ev
<1>1. /\ Keeps(r, o.reg, e) /\ SameButPoll(o.reg.exec[e], r.exec[e])
      /\ \E j \in Slots :
           /\ Fd(r, e, j) = Fd(r, e, k) /\ Pd(o.reg, e, j) # None
           /\ \A i \in Slots \ {j} : Pd(o.reg, e, i) = Pd(r, e, i)
           /\ \A i \in Slots :
                Watch(o.reg, e, i) = IF i = j THEN ev ELSE Watch(r, e, i)
  BY AddKeeps
<1>2. PICK j \in Slots :
           /\ Fd(r, e, j) = Fd(r, e, k) /\ Pd(o.reg, e, j) # None
           /\ \A i \in Slots \ {j} : Pd(o.reg, e, i) = Pd(r, e, i)
           /\ \A i \in Slots :
                Watch(o.reg, e, i) = IF i = j THEN ev ELSE Watch(r, e, i)
  BY <1>1
<1>3. e \in Execs /\ RegInv(o.reg) /\ Fd(o.reg, e, j) = Fd(r, e, j)
  BY <1>1 DEF RegInv, Registry, Keeps, Fd, SameButPoll
<1>4. Fd(r, e, j) # None
  <2>1. Fd(o.reg, e, j) # None
    BY <1>2, <1>3 DEF RegInv, SlotInv
  <2> QED BY <2>1, <1>3
<1>5. j = k
  BY <1>2, <1>3, <1>4 DEF RegInv, FdInv
<1> QED BY <1>1, <1>2, <1>5 DEF SameOther, SameButPoll

LEMMA EditWait ==
  ASSUME NEW r, RegInv(r), NEW e \in r.execUsed, NEW k \in Slots,
         NEW ev \in Interest, NEW o \in editPollFd(r, e, Fd(r, e, k), ev), o.ok
  PROVE  /\ SameOther(r, o.reg, e, k)
         /\ Pd(o.reg, e, k) # None /\ Watch(o.reg, e, k) = ev
<1>1. /\ o.reg.exec = r.exec
      /\ \E j \in Slots :
           /\ Fd(r, e, j) = Fd(r, e, k) /\ Pd(r, e, j) # None
           /\ \A i \in Slots :
                Watch(o.reg, e, i) = IF i = j THEN ev ELSE Watch(r, e, i)
  BY EditKeeps
<1>2. PICK j \in Slots :
           /\ Fd(r, e, j) = Fd(r, e, k) /\ Pd(r, e, j) # None
           /\ \A i \in Slots :
                Watch(o.reg, e, i) = IF i = j THEN ev ELSE Watch(r, e, i)
  BY <1>1
<1>3. e \in Execs
  BY DEF RegInv, Registry
<1>4. Fd(r, e, j) # None
  BY <1>2, <1>3 DEF RegInv, SlotInv
<1>5. j = k
  BY <1>2, <1>3, <1>4 DEF RegInv, FdInv
<1>6. \A i \in Slots : Pd(o.reg, e, i) = Pd(r, e, i)
  BY <1>1 DEF Pd
<1> QED BY <1>1, <1>2, <1>5, <1>6 DEF SameOther

LEMMA RemoveWait ==
  ASSUME NEW r, RegInv(r), NEW e \in r.execUsed, NEW k \in Slots,
         Pd(r, e, k) # None
  PROVE  LET o == removePollFd(r, e, Fd(r, e, k)) IN
         SameOther(r, o.reg, e, k) /\ Pd(o.reg, e, k) = None
<1>1. LET o == removePollFd(r, e, Fd(r, e, k)) IN
      /\ SameButPoll(o.reg.exec[e], r.exec[e])
      /\ \A i \in Slots :
           /\ Pd(o.reg, e, i) = IF i = k THEN None ELSE Pd(r, e, i)
           /\ Watch(o.reg, e, i) = IF i = k THEN {} ELSE Watch(r, e, i)
  BY RemoveKeeps
<1> QED BY <1>1 DEF SameOther, SameButPoll

\* Each of the four calls of the proxy, when it returns 0.
LEMMA PollingWait ==
  ASSUME NEW r, RegInv(r), NEW e \in r.execUsed, Piped(r, e)
  PROVE  /\ \A o \in PollFd0(r, e) : o.ok =>
              /\ SameOther(r, o.reg, e, 0) /\ Piped(o.reg, e) /\ Pd(o.reg, e, 0) # None
         /\ \A o \in PollFd1(r, e) : o.ok =>
              /\ SameOther(r, o.reg, e, 1) /\ Piped(o.reg, e) /\ Pd(o.reg, e, 1) # None
         /\ \A o \in UnpollFd0(r, e) : o.ok =>
              /\ SameOther(r, o.reg, e, 0) /\ Piped(o.reg, e) /\ Pd(o.reg, e, 0) = None
         /\ \A o \in UnpollFd1(r, e) : o.ok =>
              /\ SameOther(r, o.reg, e, 1) /\ Piped(o.reg, e) /\ Pd(o.reg, e, 1) = None
<1>i. {"IN"} \in Interest /\ {"OUT"} \in Interest /\ 0 \in Slots /\ 1 \in Slots
  BY DEF Interest, Slots
<1>n. /\ Pd(r, e, 0) = r.exec[e].pollData0 /\ Fd(r, e, 0) = r.exec[e].fd0
      /\ Pd(r, e, 1) = r.exec[e].pollData1 /\ Fd(r, e, 1) = r.exec[e].fd1
  BY DEF Pd, Fd
<1>s. \A k \in Slots : SameOther(r, r, e, k)
  BY DEF SameOther
<1>0. ASSUME NEW s, NEW k \in Slots, SameOther(r, s, e, k),
             k = 0 => (Pd(s, e, 0) # None => "OUT" \in Watch(s, e, 0)),
             k = 1 => (Pd(s, e, 1) # None => "IN" \in Watch(s, e, 1))
      PROVE  Piped(s, e)
  BY <1>0, <1>i DEF Piped, SameOther, Slots
<1>1. ASSUME NEW o \in PollFd0(r, e), o.ok
      PROVE  /\ SameOther(r, o.reg, e, 0) /\ Piped(o.reg, e) /\ Pd(o.reg, e, 0) # None
  <2>1. CASE r.exec[e].pollData0 # None
    BY <1>1, <2>1, <1>n, <1>s, <1>i DEF PollFd0, Done
  <2>2. CASE r.exec[e].pollData0 = None
    <3>1. /\ SameOther(r, o.reg, e, 0) /\ Pd(o.reg, e, 0) # None
          /\ Watch(o.reg, e, 0) = {"OUT"}
      BY <1>1, <2>2, <1>n, <1>i, AddWait DEF PollFd0
    <3> QED BY <3>1, <1>0, <1>i
  <2> QED BY <2>1, <2>2
<1>2. ASSUME NEW o \in PollFd1(r, e), o.ok
      PROVE  /\ SameOther(r, o.reg, e, 1) /\ Piped(o.reg, e) /\ Pd(o.reg, e, 1) # None
  <2>1. CASE r.exec[e].pollData1 # None
    BY <1>2, <2>1, <1>n, <1>s, <1>i DEF PollFd1, Done
  <2>2. CASE r.exec[e].pollData1 = None
    <3>1. /\ SameOther(r, o.reg, e, 1) /\ Pd(o.reg, e, 1) # None
          /\ Watch(o.reg, e, 1) = {"IN"}
      BY <1>2, <2>2, <1>n, <1>i, AddWait DEF PollFd1
    <3> QED BY <3>1, <1>0, <1>i
  <2> QED BY <2>1, <2>2
<1>3. ASSUME NEW o \in UnpollFd0(r, e), o.ok
      PROVE  /\ SameOther(r, o.reg, e, 0) /\ Piped(o.reg, e) /\ Pd(o.reg, e, 0) = None
  <2>1. CASE r.exec[e].pollData0 = None
    BY <1>3, <2>1, <1>n, <1>s, <1>i DEF UnpollFd0, Done
  <2>2. CASE r.exec[e].pollData0 # None
    <3>1. o = removePollFd(r, e, Fd(r, e, 0))
      BY <1>3, <2>2, <1>n DEF UnpollFd0
    <3>2. SameOther(r, o.reg, e, 0) /\ Pd(o.reg, e, 0) = None
      BY <2>2, <3>1, <1>n, <1>i, RemoveWait
    <3> QED BY <3>2, <1>0, <1>i
  <2> QED BY <2>1, <2>2
<1>4. ASSUME NEW o \in UnpollFd1(r, e), o.ok
      PROVE  /\ SameOther(r, o.reg, e, 1) /\ Piped(o.reg, e) /\ Pd(o.reg, e, 1) = None
  <2>1. CASE r.exec[e].pollData1 = None
    BY <1>4, <2>1, <1>n, <1>s, <1>i DEF UnpollFd1, Done
  <2>2. CASE r.exec[e].pollData1 # None
    <3>1. o = removePollFd(r, e, Fd(r, e, 1))
      BY <1>4, <2>2, <1>n DEF UnpollFd1
    <3>2. SameOther(r, o.reg, e, 1) /\ Pd(o.reg, e, 1) = None
      BY <2>2, <3>1, <1>n, <1>i, RemoveWait
    <3> QED BY <3>2, <1>0, <1>i
  <2> QED BY <2>1, <2>2
<1> QED BY <1>1, <1>2, <1>3, <1>4

\* The two descriptors by slot.
LEMMA SlotNames ==
  ASSUME NEW r, NEW e
  PROVE  /\ Fd(r, e, 0) = r.exec[e].fd0 /\ Fd(r, e, 1) = r.exec[e].fd1
         /\ Pd(r, e, 0) = r.exec[e].pollData0 /\ Pd(r, e, 1) = r.exec[e].pollData1
         /\ 0 \in Slots /\ 1 \in Slots
BY DEF Fd, Pd, Slots

LEMMA RequestUpWait ==
  ASSUME NEW r, RegInv(r), NEW e \in r.execUsed, r.exec[e].bytesInPipe = 0,
         NEW o \in RequestUp(r, e), o.ok
  PROVE  Watched(o.reg, e)
<1> DEFINE q == RemoveOnTimeout(r, e, TRUE)
<1>1. Step(r, q, e) /\ SameWait(r, q, e)
  BY SettersStep, SettersWait
<1>2. RegInv(q) /\ e \in q.execUsed /\ q.exec[e].bytesInPipe = 0
  BY <1>1, GoodFacts DEF Step, SameWait
<1>3. PICK a \in addPollFd(q, e, r.exec[e].fd0, {"IN"}) :
        o = IF a.ok THEN Done(SetState(a.reg, e, "readRequest")) ELSE a
  BY DEF RequestUp
<1> HIDE DEF q
<1>4. a.ok /\ o.reg = SetState(a.reg, e, "readRequest")
  BY <1>3 DEF Done
<1>5. r.exec[e].fd0 = Fd(q, e, 0)
  BY <1>1, SlotNames DEF Step, SameConn
<1>6. SameOther(q, a.reg, e, 0) /\ Watch(a.reg, e, 0) = {"IN"}
  BY <1>2, <1>3, <1>4, <1>5, AddWait DEF Interest, Slots
<1>7. RegInv(a.reg) /\ e \in a.reg.execUsed
  BY <1>2, <1>3, CallsStep, GoodFacts DEF Step, Interest
<1>8. /\ SamePolling(a.reg, o.reg, e) /\ o.reg.exec[e].state = "readRequest"
      /\ o.reg.exec[e].bytesInPipe = a.reg.exec[e].bytesInPipe
  BY <1>4, <1>7, SetStateWait DEF States
<1> QED BY <1>2, <1>6, <1>8 DEF Watched, SamePolling, SameOther, Slots

LEMMA FileUpWait ==
  ASSUME NEW r, RegInv(r), NEW e \in r.execUsed, r.exec[e].fd1 = None,
         NEW o \in FileUp(r, e), o.ok
  PROVE  Watched(o.reg, e)
<1> DEFINE q == RemoveOnTimeout(r, e, TRUE)
<1>i. {"OUT"} \in Interest /\ {"sendHeaders", "sendOnlyHeaders"} \subseteq States
  BY DEF Interest, States
<1>1. Step(r, q, e)
  BY SettersStep
<1>2. RegInv(q) /\ e \in q.execUsed /\ q.exec[e].fd1 = None
  BY <1>1, GoodFacts DEF Step, SameConn
<1>3. \/ \E a \in editPollFd(q, e, q.exec[e].fd0, {"OUT"}) :
           a.ok /\ o.reg = SetState(a.reg, e, "sendOnlyHeaders")
      \/ \E f \in FreshFds(q), st \in {"sendHeaders", "sendOnlyHeaders"} :
           o \in editPollFd(SetState(Opened(q, e, f), e, st), e,
                           Opened(q, e, f).exec[e].fd0, {"OUT"})
  <2>1. \A x : Done(x).reg = x
    BY DEF Done
  <2>2. \/ ~o.ok /\ o.reg = q
        \/ \E a \in editPollFd(q, e, q.exec[e].fd0, {"OUT"}) :
             \/ ~a.ok /\ o = a
             \/ a.ok /\ o = Done(SetState(a.reg, e, "sendOnlyHeaders"))
        \/ \E f \in FreshFds(q) :
             \/ ~o.ok /\ o.reg = Opened(q, e, f)
             \/ \E st \in {"sendHeaders", "sendOnlyHeaders"} :
                  o \in editPollFd(SetState(Opened(q, e, f), e, st), e,
                                  Opened(q, e, f).exec[e].fd0, {"OUT"})
    BY FileUpCases
  <2> HIDE DEF q
  <2> QED BY <2>1, <2>2
<1> HIDE DEF q
<1>4. ASSUME NEW a \in editPollFd(q, e, q.exec[e].fd0, {"OUT"}), a.ok,
             o.reg = SetState(a.reg, e, "sendOnlyHeaders")
      PROVE  Watched(o.reg, e)
  <2>1. Watch(a.reg, e, 0) = {"OUT"}
    BY <1>2, <1>4, <1>i, EditWait, SlotNames
  <2>2. RegInv(a.reg) /\ e \in a.reg.execUsed
    BY <1>2, <1>i, CallsStep, GoodFacts DEF Step
  <2>3. SamePolling(a.reg, o.reg, e) /\ o.reg.exec[e].state = "sendOnlyHeaders"
    BY <1>4, <1>i, <2>2, SetStateWait
  <2> QED BY <2>1, <2>3 DEF Watched, SamePolling, Slots
<1>5. ASSUME NEW f \in FreshFds(q), NEW st \in {"sendHeaders", "sendOnlyHeaders"},
             o \in editPollFd(SetState(Opened(q, e, f), e, st), e,
                             Opened(q, e, f).exec[e].fd0, {"OUT"})
      PROVE  Watched(o.reg, e)
  <2> DEFINE s == Opened(q, e, f)
             t == SetState(s, e, st)
  <2>1. RegInv(s) /\ e \in s.execUsed
    BY <1>2, OpenFd1Good, GoodFacts
  <2> HIDE DEF s
  <2>2. Step(s, t, e) /\ t.exec[e].state = st
    BY <2>1, <1>i, SetStateWait
  <2>3. RegInv(t) /\ e \in t.execUsed /\ Fd(t, e, 0) = s.exec[e].fd0
    BY <2>1, <2>2, GoodFacts, SlotNames DEF Step, SameConn
  <2>4. o \in editPollFd(t, e, Fd(t, e, 0), {"OUT"})
    BY <1>5, <2>3 DEF s
  <2> HIDE DEF t
  <2>5. SameOther(t, o.reg, e, 0) /\ Watch(o.reg, e, 0) = {"OUT"}
    BY <1>i, <2>3, <2>4, EditWait, SlotNames
  <2> QED BY <2>2, <2>5 DEF Watched, SameOther
<1> QED BY <1>3, <1>4, <1>5

LEMMA ProxyUpWait ==
  ASSUME NEW r, RegInv(r), NEW e \in r.execUsed, r.exec[e].fd1 = None,
         r.exec[e].bytesInPipe = 0, NEW o \in ProxyUp(r, e), o.ok
  PROVE  Watched(o.reg, e)
<1> DEFINE q == RemoveOnTimeout(r, e, TRUE)
<1>1. Step(r, q, e)
  BY SettersStep
<1>2. /\ RegInv(q) /\ e \in q.execUsed
      /\ q.exec[e].fd1 = None /\ q.exec[e].bytesInPipe = 0
  BY <1>1, GoodFacts DEF Step, SameConn
<1>3. \E f \in FreshFds(q) : \E a \in addPollFd(Opened(q, e, f), e, f, {"OUT"}) :
        ProxyUpEnds(o, a, Unpolled0(a.reg, e), e)
  BY ProxyUpCases
<1> HIDE DEF q
<1>4. PICK f \in FreshFds(q) : \E a \in addPollFd(Opened(q, e, f), e, f, {"OUT"}) :
        ProxyUpEnds(o, a, Unpolled0(a.reg, e), e)
  BY <1>3
<1> DEFINE s == Opened(q, e, f)
<1>5. /\ Good(q, s, e) /\ s.exec[e].bytesInPipe = 0 /\ Fd(s, e, 1) = f
  BY <1>2, OpenFd1Good, SlotNames DEF SameWait
<1>6. PICK a \in addPollFd(s, e, Fd(s, e, 1), {"OUT"}) :
        ProxyUpEnds(o, a, Unpolled0(a.reg, e), e)
  BY <1>4, <1>5
<1> HIDE DEF s
<1>7. RegInv(s) /\ e \in s.execUsed
  BY <1>2, <1>5, GoodFacts
<1> DEFINE b == Unpolled0(a.reg, e)
<1>8. /\ a.ok /\ b.ok
      /\ \E st \in {"forwardRequest", "waitConnect"} : o.reg = SetState(b.reg, e, st)
  BY <1>6 DEF ProxyUpEnds, Done
<1>9. /\ SameOther(s, a.reg, e, 1) /\ Watch(a.reg, e, 1) = {"OUT"}
      /\ RegInv(a.reg) /\ e \in a.reg.execUsed
  BY <1>6, <1>7, <1>8, AddWait, CallsStep, GoodFacts, SlotNames DEF Step, Interest
<1>10. Pd(a.reg, e, 0) # None
  BY <1>8, SlotNames DEF Unpolled0, removePollFd, PollDataOf, Slot0, Failed
<1>11. /\ SameOther(a.reg, b.reg, e, 0) /\ Pd(b.reg, e, 0) = None
       /\ RegInv(b.reg) /\ e \in b.reg.execUsed
  BY <1>9, <1>10, RemoveWait, CallsStep, GoodFacts, SlotNames DEF Step, Unpolled0
<1> HIDE DEF b
<1>12. PICK st \in {"forwardRequest", "waitConnect"} : o.reg = SetState(b.reg, e, st)
  BY <1>8
<1>13. /\ SamePolling(b.reg, o.reg, e) /\ o.reg.exec[e].state = st
       /\ o.reg.exec[e].bytesInPipe = b.reg.exec[e].bytesInPipe
  BY <1>11, <1>12, SetStateWait DEF States
<1>14. /\ Pd(o.reg, e, 0) = None /\ Watch(o.reg, e, 1) = {"OUT"}
       /\ o.reg.exec[e].bytesInPipe = 0
  BY <1>5, <1>9, <1>11, <1>13 DEF SamePolling, SameOther, Slots
<1> QED BY <1>12, <1>13, <1>14 DEF Watched

----------------------------------------------------------------------------
(* The handlers of an event. *)

LEMMA RetryOkWait ==
  ASSUME NEW r, RegInv(r), NEW e \in r.execUsed, Watched(r, e),
         NEW o \in RetryOk(r, e)
  PROVE  Waits(o, e)
<1>1. o.reg = Retry(r, e)
  BY DEF RetryOk, Return
<1>2. SameWait(r, Retry(r, e), e)
  BY SettersWait
<1> QED BY <1>1, <1>2, SameWaitWatched DEF Waits

LEMMA ForwardRequestWait ==
  ASSUME NEW r, RegInv(r), NEW e \in r.execUsed,
         r.exec[e].state = "forwardRequest", Watched(r, e),
         NEW o \in process_forwardRequest(r, e)
  PROVE  Waits(o, e)
<1> DEFINE p == Progress(r, e)
           q == SetState(p, e, "forwardResponse")
<1>1. Step(r, p, e) /\ SameWait(r, p, e) /\ SameWait(r, Retry(r, e), e)
  BY SettersStep, SettersWait
<1>2. RegInv(p) /\ e \in p.execUsed /\ Watched(p, e) /\ Watched(Retry(r, e), e)
  BY <1>1, GoodFacts, SameWaitWatched DEF Step
<1>3. \/ o \in {Return(removeExecutorError, r), Return(ok, Retry(r, e)), Return(ok, p)}
      \/ \E a \in editPollFd(q, e, r.exec[e].fd1, {"IN"}) :
           \/ o = Return(removeExecutorError, a.reg)
           \/ a.ok /\ \E b \in openPipe(a.reg, e) :
                \/ o = Return(removeExecutorError, b.reg)
                \/ b.ok /\ o = Return(ok, b.reg)
  BY ForwardRequestCases
<1> HIDE DEF p
<1>4. CASE o \in {Return(removeExecutorError, r), Return(ok, Retry(r, e)), Return(ok, p)}
  BY <1>2, <1>4 DEF Return, Waits
<1>5. /\ Step(p, q, e) /\ SamePolling(p, q, e)
      /\ q.exec[e].state = "forwardResponse"
      /\ q.exec[e].bytesInPipe = p.exec[e].bytesInPipe
  BY <1>2, SetStateWait DEF States
<1> HIDE DEF q
<1>6. RegInv(q) /\ e \in q.execUsed /\ Fd(q, e, 1) = r.exec[e].fd1
  BY <1>1, <1>2, <1>5, GoodFacts, SlotNames DEF Step, SameConn
<1>7. p.exec[e].bytesInPipe = 0 /\ Pd(p, e, 0) = None
  <2>1. p.exec[e].state = "forwardRequest"
    BY <1>1 DEF SameWait
  <2> QED BY <2>1, <1>2 DEF Watched
<1>8. ASSUME NEW a \in editPollFd(q, e, r.exec[e].fd1, {"IN"}), a.ok,
             NEW b \in openPipe(a.reg, e), b.ok
      PROVE  Watched(b.reg, e)
  <2>1. /\ SameOther(q, a.reg, e, 1)
        /\ Pd(a.reg, e, 1) # None /\ Watch(a.reg, e, 1) = {"IN"}
    BY <1>6, <1>8, EditWait, SlotNames DEF Interest
  <2>2. /\ Pd(a.reg, e, 0) = None /\ a.reg.exec[e].bytesInPipe = 0
        /\ a.reg.exec[e].state = "forwardResponse"
    BY <1>5, <1>7, <2>1 DEF SameOther, SamePolling, Slots
  <2>3. Watched(a.reg, e)
    BY <2>1, <2>2 DEF Watched, Piped
  <2>4. RegInv(a.reg) /\ e \in a.reg.execUsed
    BY <1>6, CallsStep, GoodFacts DEF Step, Interest
  <2> QED BY <1>8, <2>3, <2>4, OpenPipeWait, SameWaitWatched
<1>9. ASSUME NEW a \in editPollFd(q, e, r.exec[e].fd1, {"IN"}),
             \/ o = Return(removeExecutorError, a.reg)
             \/ a.ok /\ \E b \in openPipe(a.reg, e) :
                  \/ o = Return(removeExecutorError, b.reg)
                  \/ b.ok /\ o = Return(ok, b.reg)
      PROVE  Waits(o, e)
  BY <1>8, <1>9 DEF Return, Waits
<1> QED BY <1>3, <1>4, <1>9

LEMMA WaitConnectWait ==
  ASSUME NEW r, RegInv(r), NEW e \in r.execUsed,
         r.exec[e].state = "waitConnect", Watched(r, e),
         NEW o \in process_waitConnect(r, e)
  PROVE  Waits(o, e)
<1> DEFINE q == SetState(r, e, "forwardRequest")
<1>1. /\ Step(r, q, e) /\ SamePolling(r, q, e)
      /\ q.exec[e].state = "forwardRequest"
      /\ q.exec[e].bytesInPipe = r.exec[e].bytesInPipe
  BY SetStateWait DEF States
<1>2. \/ o \in {Return(removeExecutorError, r), Return(ok, Retry(r, e))}
      \/ o \in process_forwardRequest(q, e)
  BY DEF process_waitConnect
<1> HIDE DEF q
<1>3. RegInv(q) /\ e \in q.execUsed
  BY <1>1, GoodFacts DEF Step
<1>4. Watched(q, e)
  BY <1>1 DEF Watched, SamePolling, Slots
<1>5. Watched(Retry(r, e), e)
  BY SettersWait, SameWaitWatched
<1> QED BY <1>1, <1>2, <1>3, <1>4, <1>5, ForwardRequestWait DEF Waits, Return

LEMMA SpliceWrittenWait ==
  ASSUME NEW r, RegInv(r), NEW e \in r.execUsed, Piped(r, e),
         r.exec[e].state \in {"forwardResponse", "forwardResponseOnlyWrite"},
         NEW n \in 1 .. r.exec[e].bytesInPipe, NEW o \in SpliceWritten(r, e, n)
  PROVE  Waits(o, e)
<1> DEFINE left == r.exec[e].bytesInPipe - n
           s == SetBytes(r, e, left)
           q == Progress(s, e)
<1>t. r \in Registry /\ e \in Execs /\ r.exec[e].bytesInPipe \in 0 .. MaxPipe
  BY DEF RegInv, Registry, ExecutorData
<1>1. left \in 0 .. MaxPipe
  BY <1>t, MaxPipeAssumption
<1>d. \/ /\ r.exec[e].state = "forwardResponseOnlyWrite" /\ left = 0
         /\ o = Return(removeExecutorOk, q)
      \/ left > 0 /\ o \in Then(PollFd0(q, e), LAMBDA x : RetryOk(x, e))
      \/ /\ r.exec[e].state = "forwardResponse" /\ left = 0
         /\ o \in Then(UnpollFd0(q, e),
                       LAMBDA x : Then(PollFd1(x, e), LAMBDA t : RetryOk(t, e)))
  BY <1>1 DEF SpliceWritten, SetBytes
<1> HIDE DEF left
<1>2. /\ Good(r, s, e) /\ SamePolling(r, s, e)
      /\ s.exec[e].state = r.exec[e].state /\ s.exec[e].bytesInPipe = left
  BY <1>1, SetBytesWait
<1> HIDE DEF s
<1>3. RegInv(s) /\ e \in s.execUsed
  BY <1>2, GoodFacts
<1>4. Step(s, q, e) /\ SameWait(s, q, e)
  BY <1>3, SettersStep, SettersWait
<1> HIDE DEF q
<1>5. /\ RegInv(q) /\ e \in q.execUsed
      /\ q.exec[e].state = r.exec[e].state /\ q.exec[e].bytesInPipe = left
  BY <1>2, <1>3, <1>4, GoodFacts DEF Step, SameWait
<1>6. Piped(q, e)
  BY <1>2, <1>4 DEF Piped, SameWait, SamePolling, Slots
<1>7. CASE left > 0 /\ o \in Then(PollFd0(q, e), LAMBDA x : RetryOk(x, e))
  <2>1. PICK a \in PollFd0(q, e) :
          \/ o = Return(removeExecutorError, a.reg)
          \/ a.ok /\ o \in RetryOk(a.reg, e)
    BY <1>7 DEF Then
  <2>2. ASSUME a.ok PROVE Watched(a.reg, e)
    <3>1. SameOther(q, a.reg, e, 0) /\ Piped(a.reg, e) /\ Pd(a.reg, e, 0) # None
      BY <1>5, <1>6, <2>2, PollingWait
    <3> QED BY <1>5, <1>7, <3>1 DEF Watched, SameOther
  <2>3. RegInv(a.reg) /\ e \in a.reg.execUsed
    BY <1>5, PollingStep, GoodFacts DEF Step
  <2> QED BY <2>1, <2>2, <2>3, RetryOkWait DEF Waits, Return
<1>8. CASE /\ r.exec[e].state = "forwardResponse" /\ left = 0
           /\ o \in Then(UnpollFd0(q, e),
                         LAMBDA x : Then(PollFd1(x, e), LAMBDA t : RetryOk(t, e)))
  <2> DEFINE C(x) == Then(PollFd1(x, e), LAMBDA t : RetryOk(t, e))
  <2>1. PICK a \in UnpollFd0(q, e) :
          \/ o = Return(removeExecutorError, a.reg)
          \/ a.ok /\ o \in C(a.reg)
    <3>1. o \in Then(UnpollFd0(q, e), LAMBDA x : C(x))
      BY <1>8
    <3> HIDE DEF C
    <3> QED BY <3>1 DEF Then
  <2>2. a.ok => /\ SameOther(q, a.reg, e, 0) /\ Piped(a.reg, e)
                /\ Pd(a.reg, e, 0) = None
    BY <1>5, <1>6, PollingWait
  <2>3. RegInv(a.reg) /\ e \in a.reg.execUsed
    BY <1>5, PollingStep, GoodFacts DEF Step
  <2>4. ASSUME a.ok, o \in C(a.reg) PROVE Waits(o, e)
    <3>1. PICK b \in PollFd1(a.reg, e) :
            \/ o = Return(removeExecutorError, b.reg)
            \/ b.ok /\ o \in RetryOk(b.reg, e)
      BY <2>4 DEF Then
    <3>2. ASSUME b.ok PROVE Watched(b.reg, e)
      <4>1. SameOther(a.reg, b.reg, e, 1) /\ Piped(b.reg, e) /\ Pd(b.reg, e, 1) # None
        BY <2>2, <2>3, <2>4, <3>2, PollingWait
      <4>2. /\ Pd(b.reg, e, 0) = None /\ b.reg.exec[e].bytesInPipe = 0
            /\ b.reg.exec[e].state = "forwardResponse"
        BY <1>5, <1>8, <2>2, <2>4, <4>1 DEF SameOther, Slots
      <4> QED BY <4>1, <4>2 DEF Watched
    <3>3. RegInv(b.reg) /\ e \in b.reg.execUsed
      BY <2>3, PollingStep, GoodFacts DEF Step
    <3> QED BY <3>1, <3>2, <3>3, RetryOkWait DEF Waits, Return
  <2> HIDE DEF C
  <2> QED BY <2>1, <2>4 DEF Waits, Return
<1> QED BY <1>d, <1>7, <1>8 DEF Waits, Return

\* The pipe is empty only when nobody waits for the client.
LEMMA ResponseWriteWait ==
  ASSUME NEW r, RegInv(r), NEW e \in r.execUsed, Piped(r, e),
         r.exec[e].state \in {"forwardResponse", "forwardResponseOnlyWrite"},
         \/ r.exec[e].state = "forwardResponseOnlyWrite"
         \/ r.exec[e].bytesInPipe > 0
         \/ Pd(r, e, 0) = None /\ Pd(r, e, 1) # None,
         NEW o \in process_forwardResponseWrite(r, e)
  PROVE  Waits(o, e)
<1> DEFINE q == Retry(r, e)
           P == Then(PollFd0(q, e), LAMBDA x : {Return(ok, x)})
<1>t. r.exec[e].bytesInPipe \in 0 .. MaxPipe
  BY DEF RegInv, Registry, ExecutorData
<1>1. Step(r, q, e) /\ SameWait(r, q, e)
  BY SettersStep, SettersWait
<1>2. RegInv(q) /\ e \in q.execUsed /\ Piped(q, e)
  BY <1>1, GoodFacts, SameWaitWatched DEF Step
<1>3. \/ o = Return(removeExecutorError, r) \/ o = Return(removeExecutorOk, r)
      \/ r.exec[e].bytesInPipe > 0 /\ o \in P
      \/ \E n \in 1 .. r.exec[e].bytesInPipe : o \in SpliceWritten(r, e, n)
      \/ /\ ~(r.exec[e].bytesInPipe > 0) /\ o \in RetryOk(r, e)
         /\ r.exec[e].state = "forwardResponse"
  <2> DEFINE W(n) == SpliceWritten(r, e, n)
             U == UNION {W(n) : n \in 1 .. r.exec[e].bytesInPipe}
  <2>1. IF r.exec[e].bytesInPipe > 0
        THEN o \in {Return(removeExecutorError, r)} \cup P \cup U
        ELSE IF r.exec[e].state = "forwardResponseOnlyWrite"
             THEN o = Return(removeExecutorOk, r)
             ELSE o \in RetryOk(r, e)
    <3> HIDE DEF q
    <3> QED BY DEF process_forwardResponseWrite, q
  <2>2. o \in U => \E n \in 1 .. r.exec[e].bytesInPipe : o \in W(n)
    <3> HIDE DEF W
    <3> QED OBVIOUS
  <2> HIDE DEF U, P
  <2> QED BY <2>1, <2>2
<1> HIDE DEF q
<1>4. ASSUME r.exec[e].bytesInPipe > 0, o \in P PROVE Waits(o, e)
  <2>1. PICK a \in PollFd0(q, e) :
          o = Return(removeExecutorError, a.reg) \/ (a.ok /\ o = Return(ok, a.reg))
    BY <1>4 DEF Then
  <2>2. ASSUME a.ok PROVE Watched(a.reg, e)
    <3>1. SameOther(q, a.reg, e, 0) /\ Piped(a.reg, e) /\ Pd(a.reg, e, 0) # None
      BY <1>2, <2>2, PollingWait
    <3>2. /\ a.reg.exec[e].bytesInPipe > 0
          /\ a.reg.exec[e].state \in {"forwardResponse", "forwardResponseOnlyWrite"}
      BY <1>1, <1>4, <3>1 DEF SameOther, SameWait
    <3> QED BY <3>1, <3>2 DEF Watched
  <2> QED BY <2>1, <2>2 DEF Waits, Return
<1> HIDE DEF P
<1>5. ASSUME ~(r.exec[e].bytesInPipe > 0), o \in RetryOk(r, e),
             r.exec[e].state = "forwardResponse"
      PROVE  Waits(o, e)
  <2>1. Watched(r, e)
    BY <1>5, <1>t, MaxPipeAssumption DEF Watched
  <2> QED BY <1>5, <2>1, RetryOkWait
<1> QED BY <1>3, <1>4, <1>5, SpliceWrittenWait DEF Waits, Return

LEMMA ResponseReadWait ==
  ASSUME NEW r, RegInv(r), NEW e \in r.execUsed, r.exec[e].fd1 # None,
         r.exec[e].state = "forwardResponse", Watched(r, e),
         NEW o \in process_forwardResponseRead(r, e)
  PROVE  Waits(o, e)
<1> DEFINE room == MaxPipe - r.exec[e].bytesInPipe
           q == Retry(r, e)
           P == Then(UnpollFd1(q, e), LAMBDA x : {Return(ok, x)})
           c == closeFd1(r, e)
           w == SetState(c, e, "forwardResponseOnlyWrite")
           g == Progress(r, e)
           m(n) == [g EXCEPT !.exec[e].bytesInPipe = @ + n]
<1>t. r.exec[e].bytesInPipe \in 0 .. MaxPipe
  BY DEF RegInv, Registry, ExecutorData
<1>0. /\ Piped(r, e)
      /\ IF r.exec[e].bytesInPipe > 0 THEN Pd(r, e, 0) # None
         ELSE Pd(r, e, 0) = None /\ Pd(r, e, 1) # None
  BY DEF Watched
<1>1. Step(r, q, e) /\ SameWait(r, q, e) /\ Step(r, g, e) /\ SameWait(r, g, e)
  BY SettersStep, SettersWait
<1>2. /\ RegInv(q) /\ e \in q.execUsed /\ RegInv(g) /\ e \in g.execUsed
      /\ Piped(q, e) /\ Piped(g, e)
  BY <1>0, <1>1, GoodFacts, SameWaitWatched DEF Step
<1>3. \/ o = Return(removeExecutorError, r) \/ o \in RetryOk(r, e)
      \/ r.exec[e].bytesInPipe > 0 /\ o \in P
      \/ o \in process_forwardResponseWrite(w, e)
      \/ \E n \in 1 .. room : o \in process_forwardResponseWrite(m(n), e)
  <2> DEFINE X(n) == process_forwardResponseWrite(m(n), e)
             U == UNION {X(n) : n \in 1 .. room}
             V == process_forwardResponseWrite(w, e)
             R == RetryOk(r, e)
  <2>1. o \in ({Return(removeExecutorError, r)} \cup
               (IF r.exec[e].bytesInPipe > 0 THEN P ELSE R) \cup
               (IF room = 0 THEN {} ELSE V)) \cup U
    BY DEF process_forwardResponseRead
  <2>2. o \in U => \E n \in 1 .. room : o \in X(n)
    <3> HIDE DEF X, room
    <3> QED OBVIOUS
  <2> HIDE DEF U, P, V, R
  <2>3. \/ o = Return(removeExecutorError, r) \/ o \in R \/ o \in V \/ o \in U
        \/ r.exec[e].bytesInPipe > 0 /\ o \in P
    BY <2>1
  <2> QED BY <2>2, <2>3 DEF V, R
<1>4. ASSUME r.exec[e].bytesInPipe > 0, o \in P PROVE Waits(o, e)
  <2> HIDE DEF q
  <2>1. PICK a \in UnpollFd1(q, e) :
          o = Return(removeExecutorError, a.reg) \/ (a.ok /\ o = Return(ok, a.reg))
    BY <1>4 DEF Then
  <2>2. ASSUME a.ok PROVE Watched(a.reg, e)
    <3>1. SameOther(q, a.reg, e, 1) /\ Piped(a.reg, e)
      BY <1>2, <2>2, PollingWait
    <3>2. /\ a.reg.exec[e].bytesInPipe > 0 /\ Pd(a.reg, e, 0) # None
          /\ a.reg.exec[e].state = "forwardResponse"
      <4>1. /\ Pd(q, e, 0) # None /\ q.exec[e].state = "forwardResponse"
            /\ q.exec[e].bytesInPipe > 0
        BY <1>0, <1>1, <1>4 DEF SameWait, SamePolling, Slots
      <4> QED BY <4>1, <3>1 DEF SameOther, Slots
    <3> QED BY <3>1, <3>2 DEF Watched
  <2> QED BY <2>1, <2>2 DEF Waits, Return
<1>5. ASSUME o \in process_forwardResponseWrite(w, e) PROVE Waits(o, e)
  <2>1. /\ Good(r, c, e)
        /\ Pd(c, e, 0) = Pd(r, e, 0) /\ Pd(c, e, 1) = None
        /\ Watch(c, e, 0) = Watch(r, e, 0)
    BY CloseKeeps DEF Good
  <2>2. RegInv(c) /\ e \in c.execUsed
    BY <2>1, GoodFacts
  <2> HIDE DEF c
  <2>3. /\ Step(c, w, e) /\ SamePolling(c, w, e)
        /\ w.exec[e].state = "forwardResponseOnlyWrite"
    BY <2>2, SetStateWait DEF States
  <2> HIDE DEF w
  <2>4. RegInv(w) /\ e \in w.execUsed
    BY <2>2, <2>3, GoodFacts DEF Step
  <2>5. Piped(w, e)
    BY <1>0, <2>1, <2>3 DEF Piped, SamePolling, Slots
  <2> QED BY <1>5, <2>3, <2>4, <2>5, ResponseWriteWait
<1>6. ASSUME NEW n \in 1 .. room, o \in process_forwardResponseWrite(m(n), e)
      PROVE  Waits(o, e)
  <2> DEFINE k == g.exec[e].bytesInPipe + n
             s == SetBytes(g, e, k)
  <2>1. k \in 0 .. MaxPipe /\ k > 0
    <3>1. g.exec[e].bytesInPipe = r.exec[e].bytesInPipe
      BY <1>1 DEF SameWait
    <3> HIDE DEF g
    <3> QED BY <1>t, <3>1, MaxPipeAssumption
  <2>2. m(n) = s
    BY DEF SetBytes
  <2> HIDE DEF k, g, m
  <2>3. /\ Good(g, s, e) /\ SamePolling(g, s, e)
        /\ s.exec[e].state = g.exec[e].state /\ s.exec[e].bytesInPipe = k
    BY <1>2, <2>1, SetBytesWait
  <2> HIDE DEF s
  <2>4. /\ RegInv(s) /\ e \in s.execUsed /\ s.exec[e].bytesInPipe > 0
        /\ s.exec[e].state = "forwardResponse"
    BY <1>1, <1>2, <2>1, <2>3, GoodFacts DEF SameWait
  <2>5. Piped(s, e)
    BY <1>2, <2>3 DEF Piped, SamePolling, Slots
  <2> QED BY <1>6, <2>2, <2>4, <2>5, ResponseWriteWait
<1> HIDE DEF P, w, m, room
<1>7. o \in RetryOk(r, e) => Waits(o, e)
  BY RetryOkWait
<1> QED BY <1>3, <1>4, <1>5, <1>6, <1>7 DEF Waits, Return

LEMMA FileProcessWait ==
  ASSUME NEW r, RegInv(r), NEW e \in r.execUsed, Watched(r, e), NEW fd, NEW ev,
         NEW o \in FileProcess(r, e, fd, ev)
  PROVE  Waits(o, e)
<1> DEFINE q == Progress(r, e)
           z == SetState(q, e, "sendFile")
<1>1. /\ Step(r, q, e) /\ SameWait(r, q, e)
      /\ Watched(q, e) /\ Watched(Retry(r, e), e)
  BY SettersStep, SettersWait, SameWaitWatched
<1>2. RegInv(q) /\ e \in q.execUsed
  BY <1>1, GoodFacts DEF Step
<1>3. \/ o.result \in {removeExecutorOk, removeExecutorError}
      \/ o.reg \in {q, Retry(r, e)}
      \/ r.exec[e].state = "sendHeaders" /\ o.reg = z
  <2>1. \A x \in process_sendHeaders(r, e) :
          \/ x.result \in {removeExecutorOk, removeExecutorError}
          \/ x.reg \in {q, Retry(r, e)}
          \/ r.exec[e].state # "sendOnlyHeaders" /\ x.reg = z
    BY DEF process_sendHeaders, Return
  <2>2. \A x \in process_sendFile(r, e) :
          \/ x.result \in {removeExecutorOk, removeExecutorError}
          \/ x.reg \in {q, Retry(r, e)}
    BY DEF process_sendFile, Return
  <2>3. \/ /\ r.exec[e].state \in {"sendHeaders", "sendOnlyHeaders"}
           /\ o \in process_sendHeaders(r, e)
        \/ o \in process_sendFile(r, e)
        \/ o = Return(removeExecutorError, r)
    BY DEF FileProcess
  <2> HIDE DEF q, z
  <2> QED BY <2>1, <2>2, <2>3 DEF Return
<1> HIDE DEF q
<1>4. ASSUME r.exec[e].state = "sendHeaders" PROVE Watched(z, e)
  <2>1. SamePolling(q, z, e) /\ z.exec[e].state = "sendFile"
    BY <1>2, SetStateWait DEF States
  <2>2. "OUT" \in Watch(r, e, 0)
    BY <1>4 DEF Watched
  <2> HIDE DEF z
  <2> QED BY <1>1, <2>1, <2>2 DEF Watched, SameWait, SamePolling, Slots
<1> HIDE DEF z
<1> QED BY <1>1, <1>3, <1>4 DEF Waits

LEMMA ProxyProcessWait ==
  ASSUME NEW r, RegInv(r), NEW e \in r.execUsed, Watched(r, e),
         NEW fd, fd # None, NEW ev, NEW o \in ProxyProcess(r, e, fd, ev)
  PROVE  Waits(o, e)
<1>1. \/ r.exec[e].state = "waitConnect" /\ o \in process_waitConnect(r, e)
      \/ r.exec[e].state = "forwardRequest" /\ o \in process_forwardRequest(r, e)
      \/ /\ r.exec[e].state = "forwardResponse" /\ r.exec[e].fd1 # None
         /\ o \in process_forwardResponseRead(r, e)
      \/ /\ r.exec[e].state \in {"forwardResponse", "forwardResponseOnlyWrite"}
         /\ o \in process_forwardResponseWrite(r, e)
      \/ o = Return(removeExecutorError, r)
  BY DEF ProxyProcess
<1>2. ASSUME r.exec[e].state \in {"forwardResponse", "forwardResponseOnlyWrite"},
             o \in process_forwardResponseWrite(r, e)
      PROVE  Waits(o, e)
  <2>1. /\ Piped(r, e)
        /\ \/ r.exec[e].state = "forwardResponseOnlyWrite"
           \/ r.exec[e].bytesInPipe > 0
           \/ Pd(r, e, 0) = None /\ Pd(r, e, 1) # None
    BY <1>2 DEF Watched
  <2> QED BY <1>2, <2>1, ResponseWriteWait
<1> QED BY <1>1, <1>2, WaitConnectWait, ForwardRequestWait, ResponseReadWait
        DEF Waits, Return

LEMMA SetExecutorWait ==
  ASSUME NEW r, RegInv(r), NEW e \in r.execUsed, r.exec[e].fd1 = None,
         r.exec[e].bytesInPipe = 0,
         NEW kind \in {"file", "proxy"}, NEW o \in setExecutor(r, e, kind)
  PROVE  Waits(o, e)
<1> DEFINE q == SetExecutor(r, e, kind)
           A == IF kind = "file" THEN FileUp(q, e) ELSE ProxyUp(q, e)
<1>1. /\ RegInv(q) /\ e \in q.execUsed
      /\ q.exec[e].fd1 = None /\ q.exec[e].bytesInPipe = 0
  <2> DEFINE d == [r.exec[e] EXCEPT !.pExecutor = kind]
  <2>1. r \in Registry /\ e \in Execs /\ r.exec[e] \in ExecutorData
    BY DEF RegInv, Registry
  <2>2. d \in ExecutorData /\ SameSlots(d, r.exec[e]) /\ d.fd1 = None /\ d.bytesInPipe = 0
    BY <2>1 DEF ExecutorData, SameSlots, Kinds
  <2> HIDE DEF d
  <2>3. Keeps(r, [r EXCEPT !.exec[e] = d], e) /\ [r EXCEPT !.exec[e] = d].exec[e] = d
    BY <2>2, UpdateKeeps
  <2>4. q = [r EXCEPT !.exec[e] = d]
    BY DEF SetExecutor, d
  <2> QED BY <2>2, <2>3, <2>4 DEF Keeps
<1>2. \E a \in A : o = Return(removeExecutorError, a.reg) \/ (a.ok /\ o = Return(ok, a.reg))
  <2>1. o \in Then(A, LAMBDA x : {Return(ok, x)})
    BY DEF setExecutor
  <2> HIDE DEF A
  <2> QED BY <2>1 DEF Then
<1> HIDE DEF q
<1>3. \A a \in A : a.ok => Watched(a.reg, e)
  BY <1>1, FileUpWait, ProxyUpWait
<1> HIDE DEF A
<1> QED BY <1>2, <1>3 DEF Waits, Return

LEMMA RequestProcessWait ==
  ASSUME NEW r, RegInv(r), NEW e \in r.execUsed, Watched(r, e), r.exec[e].fd1 = None,
         NEW fd, NEW ev, NEW o \in RequestProcess(r, e, fd, ev)
  PROVE  Waits(o, e)
<1> DEFINE q == Progress(r, e)
<1>1. /\ Step(r, q, e) /\ SameWait(r, q, e)
      /\ Watched(q, e) /\ Watched(Retry(r, e), e)
  BY SettersStep, SettersWait, SameWaitWatched
<1>2. RegInv(q) /\ e \in q.execUsed /\ q.exec[e].fd1 = None
  BY <1>1, GoodFacts DEF Step, SameConn
<1>3. \/ o.result = removeExecutorError
      \/ o.reg \in {q, Retry(r, e)}
      \/ /\ r.exec[e].state = "readRequest"
         /\ \E kind \in {"file", "proxy"} : o \in setExecutor(q, e, kind)
  <2>1. ASSUME NEW x \in process_readRequest(r, e)
        PROVE  \/ x.result = removeExecutorError
               \/ x.reg \in {q, Retry(r, e)}
               \/ \E kind \in {"file", "proxy"} : x \in setExecutor(q, e, kind)
    <3>1. \/ x \in {Return(removeExecutorError, r), Return(removeExecutorError, q),
                   Return(ok, Retry(r, e)), Return(ok, q)}
          \/ x \in setExecutor(q, e, "file") \/ x \in setExecutor(q, e, "proxy")
      BY DEF process_readRequest
    <3> HIDE DEF q
    <3> QED BY <3>1 DEF Return
  <2>2. \/ r.exec[e].state = "readRequest" /\ o \in process_readRequest(r, e)
        \/ o = Return(removeExecutorError, r)
    BY DEF RequestProcess
  <2> HIDE DEF q
  <2> QED BY <2>1, <2>2 DEF Return
<1> HIDE DEF q
<1>4. r.exec[e].state = "readRequest" => q.exec[e].bytesInPipe = 0
  BY <1>1 DEF Watched, SameWait
<1> QED BY <1>1, <1>2, <1>3, <1>4, SetExecutorWait DEF Waits

\* process() of any executor of a client connection.
LEMMA ProcessWaits ==
  ASSUME NEW r, RegInv(r), NEW e \in r.execUsed, ConnOK(r.exec[e]), Watched(r, e),
         NEW fd, fd # None, NEW ev, NEW o \in process(r, e, fd, ev)
  PROVE  Waits(o, e)
<1>1. \/ r.exec[e].pExecutor = "request" /\ o \in RequestProcess(r, e, fd, ev)
      \/ o \in FileProcess(r, e, fd, ev)
      \/ o \in ProxyProcess(r, e, fd, ev)
  BY DEF process, ConnOK
<1> QED BY <1>1, RequestProcessWait, FileProcessWait, ProxyProcessWait DEF ConnOK

----------------------------------------------------------------------------
(* PART 3. The loop *)

TypeInv ==
  /\ runFlag \in BOOLEAN /\ phase \in Phases
  /\ batch \subseteq Event /\ expired \subseteq Execs
  /\ queue \in Seq(Fds) /\ efd \in Nat

\* The open descriptors that no executor holds are those in newFdsQueue, each
\* once.
QueueInv ==
  /\ Loose(reg) = Queued
  /\ \A i, j \in 1 .. Len(queue) : queue[i] = queue[j] => i = j

\* Executor e serves a connection, and what that waits for is watched.
Serves(r, e) == ConnOK(r.exec[e]) /\ Watched(r, e)

\* The permanent executors are as init() left them, every other executor in use
\* serves a connection, and the load is counted exactly.
ExecInv ==
  /\ {ServerExec, NewFdExec} \subseteq reg.execUsed
  /\ reg.exec[ServerExec] = InitialRegistry.exec[ServerExec]
  /\ reg.exec[NewFdExec] = InitialRegistry.exec[NewFdExec]
  /\ \A e \in Live : Serves(reg, e)
  /\ Excess(reg) = 0

\* What is being removed by checkTimeout() is in use and not permanent.
ExpiredInv ==
  /\ phase = "timeout" => expired \subseteq Live
  /\ phase # "timeout" => expired = {}

\* The batch holds one event per PollData; for the permanent ones it is EPOLLIN,
\* and for the event descriptor its counter is not 0.
BatchInv ==
  /\ \A ev \in batch : ev.pollData \in {ServerPoll, NewFdPoll} => ev.events = {"IN"}
  /\ \A ev \in batch : ev.pollData = NewFdPoll => efd > 0
  /\ \A ev, fv \in batch : ev.pollData = fv.pollData => ev = fv

Inv ==
  /\ RegInv(reg) /\ TypeInv /\ QueueInv /\ ExpiredInv /\ BatchInv
  /\ phase = "stopped" => batch = {} /\ reg.execUsed = {}
  /\ phase # "stopped" => ExecInv
  /\ NoLostWakeup

----------------------------------------------------------------------------
(* Operators of the loop on the registry. *)

\* A call that leaves an executor and its registrations alone.
LEMMA StillServes ==
  ASSUME NEW r, NEW s, NEW e, Serves(r, e), s.exec[e] = r.exec[e],
         \A i \in Slots : Watch(s, e, i) = Watch(r, e, i)
  PROVE  Serves(s, e)
<1>1. SameWait(r, s, e)
  BY DEF SameWait, SamePolling, Pd
<1> QED BY <1>1, SameWaitWatched DEF Serves

\* close(2) of a descriptor that no executor holds.
LEMMA CloseLoose ==
  ASSUME NEW r, RegInv(r), NEW f \in Loose(r)
  PROVE  /\ RegInv(CloseAll(r, {f}))
         /\ CloseAll(r, {f}).exec = r.exec
         /\ CloseAll(r, {f}).execUsed = r.execUsed
         /\ Loose(CloseAll(r, {f})) = Loose(r) \ {f}
         /\ Excess(CloseAll(r, {f})) = Excess(r)
         /\ \A c \in Execs, i \in Slots : Watch(CloseAll(r, {f}), c, i) = Watch(r, c, i)
<1> DEFINE ep == [g \in Fds |-> IF g \in {f} THEN NotPolled ELSE r.epoll[g]]
           s == CloseAll(r, {f})
<1>t. r \in Registry /\ f \in r.open /\ f \in Fds /\ Unheld(r, f)
  BY DEF RegInv, Registry, Loose
<1>1. r.epoll[f].ptr = None
  <2> SUFFICES ASSUME r.epoll[f].ptr # None PROVE FALSE
    OBVIOUS
  <2> DEFINE p == r.epoll[f].ptr
  <2>1. p \in r.pollUsed /\ r.poll[p].fd = f /\ p \in PollDatas
    BY <1>t DEF RegInv, EpollInv, Registry
  <2>2. r.poll[p].execData \in r.execUsed /\ \E i \in Slots : Pd(r, r.poll[p].execData, i) = p
    BY <2>1 DEF RegInv, PollInv
  <2>3. PICK i \in Slots : Pd(r, r.poll[p].execData, i) = p
    BY <2>2
  <2>4. r.poll[p].execData \in Execs /\ p # None
    BY <2>1, <2>2, <1>t, NoneAssumption DEF Registry
  <2>5. r.poll[p] = [fd |-> Fd(r, r.poll[p].execData, i), execData |-> r.poll[p].execData]
    BY <2>3, <2>4 DEF RegInv, SlotInv
  <2>6. Fd(r, r.poll[p].execData, i) = f
    BY <2>1, <2>5
  <2> QED BY <2>4, <2>6, <1>t DEF Unheld
<1>2. s = [r EXCEPT !.open = @ \ {f}, !.epoll = ep]
  BY DEF CloseAll
<1>3. ep \in [Fds -> [ptr : PollDatas \cup {None}, events : Interest]]
  BY <1>t DEF Registry, NotPolled, Interest
<1>4. /\ \A g \in Fds : ep[g].ptr = r.epoll[g].ptr
      /\ \A g \in Fds \ {f} : ep[g] = r.epoll[g]
  BY <1>1 DEF NotPolled
<1> HIDE DEF ep, s
<1>5. s \in Registry
  BY <1>t, <1>2, <1>3 DEF Registry
<1>6. /\ s.exec = r.exec /\ s.execUsed = r.execUsed /\ s.poll = r.poll
      /\ s.pollUsed = r.pollUsed /\ s.epoll = ep /\ s.open = r.open \ {f}
      /\ s.numOfPollFds = r.numOfPollFds
  BY <1>t, <1>2 DEF Registry
<1>7. \A c, i : Fd(s, c, i) = Fd(r, c, i) /\ Pd(s, c, i) = Pd(r, c, i)
  BY <1>6 DEF Fd, Pd
<1>8. SlotInv(s)
  <2>1. \A c \in Execs, i \in Slots : Fd(r, c, i) \in Fds \cup {None}
    BY <1>t DEF Fd, Registry, ExecutorData
  <2> QED BY <2>1, <1>4, <1>6, <1>7 DEF RegInv, SlotInv
<1>9. PollInv(s)
  BY <1>6, <1>7 DEF RegInv, PollInv
<1>10. EpollInv(s)
  <2> SUFFICES ASSUME NEW h \in Fds, s.epoll[h].ptr # None
               PROVE  /\ h \in s.open
                      /\ s.epoll[h].ptr \in s.pollUsed
                      /\ s.poll[s.epoll[h].ptr].fd = h
    BY DEF EpollInv
  <2>1. s.epoll[h].ptr = r.epoll[h].ptr /\ h # f
    BY <1>1, <1>4, <1>6
  <2>2. h \in r.open /\ r.epoll[h].ptr \in r.pollUsed /\ r.poll[r.epoll[h].ptr].fd = h
    BY <2>1 DEF RegInv, EpollInv
  <2> QED BY <2>1, <2>2, <1>6
<1>11. FdInv(s)
  BY <1>t, <1>6, <1>7 DEF RegInv, FdInv, Unheld
<1>12. Loose(s) = Loose(r) \ {f}
  BY <1>6, <1>7 DEF Loose, Unheld
<1>13. Excess(s) = Excess(r)
  BY <1>6 DEF Excess
<1>14. \A c \in Execs, i \in Slots : Watch(s, c, i) = Watch(r, c, i)
  <2> TAKE c \in Execs, i \in Slots
  <2>1. CASE Pd(r, c, i) = None
    BY <2>1, <1>7 DEF Watch
  <2>2. CASE Pd(r, c, i) # None
    <3>1. Fd(r, c, i) # None
      BY <2>2 DEF RegInv, SlotInv
    <3>2. Fd(r, c, i) \in Fds \cup {None}
      BY <1>t DEF Fd, Registry, ExecutorData
    <3>3. Fd(r, c, i) # f
      BY <1>t DEF Unheld
    <3>4. s.epoll[Fd(r, c, i)] = r.epoll[Fd(r, c, i)]
      BY <3>1, <3>2, <3>3, <1>4, <1>6
    <3> QED BY <2>2, <3>4, <1>7 DEF Watch
  <2> QED BY <2>1, <2>2
<1> QED BY <1>5, <1>6, <1>8, <1>9, <1>10, <1>11, <1>12, <1>13, <1>14 DEF RegInv, s

\* destroy() leaves open only what no executor held.
LEMMA DestroyInv ==
  ASSUME NEW r, RegInv(r)
  PROVE  /\ RegInv(destroyAll(r)) /\ Loose(destroyAll(r)) = Loose(r)
         /\ destroyAll(r).execUsed = {}
<1> DEFINE left == r.open \ UNION {{r.exec[e].fd0, r.exec[e].fd1} : e \in Execs}
           s == destroyAll(r)
<1>t. r \in Registry
  BY DEF RegInv
<1>1. left = Loose(r)
  <2>1. \A f : f \in UNION {{r.exec[e].fd0, r.exec[e].fd1} : e \in Execs} <=>
               \E e \in Execs : f = r.exec[e].fd0 \/ f = r.exec[e].fd1
    OBVIOUS
  <2>2. \A f : Unheld(r, f) <=> ~ \E e \in Execs : f = r.exec[e].fd0 \/ f = r.exec[e].fd1
    BY DEF Unheld, Slots, Fd
  <2> QED BY <2>1, <2>2 DEF Loose
<1>2. s = [exec |-> [e \in Execs |-> DownExecutorData], execUsed |-> {},
           poll |-> [p \in PollDatas |-> DownPollData], pollUsed |-> {},
           epoll |-> [f \in Fds |-> NotPolled], open |-> left,
           numOfPollFds |-> r.numOfPollFds]
  <2> DEFINE X == [e \in Execs |-> DownExecutorData]
             P == [p \in PollDatas |-> DownPollData]
             E == [f \in Fds |-> NotPolled]
  <2>1. EmptyRegistry = [exec |-> X, execUsed |-> {}, poll |-> P, pollUsed |-> {},
                         epoll |-> E, open |-> {}, numOfPollFds |-> 0]
    BY DEF EmptyRegistry
  <2>2. s = [EmptyRegistry EXCEPT !.open = left, !.numOfPollFds = r.numOfPollFds]
    BY DEF destroyAll
  <2> HIDE DEF X, P, E, left, s
  <2>3. s = [exec |-> X, execUsed |-> {}, poll |-> P, pollUsed |-> {},
             epoll |-> E, open |-> left, numOfPollFds |-> r.numOfPollFds]
    BY <2>1, <2>2
  <2> QED BY <2>3 DEF X, P, E
<1> HIDE DEF left, s
<1>3. left \subseteq Fds
  BY <1>1, <1>t DEF Loose, Registry
<1>4. s \in Registry
  <2>1. DownExecutorData \in ExecutorData
    BY MaxPipeAssumption DEF DownExecutorData, ExecutorData, Kinds, States
  <2>2. DownPollData \in PollData
    BY DEF DownPollData, PollData
  <2>3. NotPolled \in [ptr : PollDatas \cup {None}, events : Interest]
    BY DEF NotPolled, Interest
  <2>4. r.numOfPollFds \in Int
    BY <1>t DEF Registry
  <2> QED BY <1>2, <1>3, <2>1, <2>2, <2>3, <2>4 DEF Registry
<1>5. \A e \in Execs, i \in Slots : Fd(s, e, i) = None /\ Pd(s, e, i) = None
  BY <1>2 DEF Fd, Pd, DownExecutorData
<1>6. SlotInv(s) /\ PollInv(s) /\ EpollInv(s) /\ FdInv(s)
  BY <1>2, <1>5 DEF SlotInv, PollInv, EpollInv, FdInv, NotPolled
<1>7. Loose(s) = left
  BY <1>2, <1>3, <1>5, NoneAssumption DEF Loose, Unheld
<1> QED BY <1>1, <1>2, <1>4, <1>6, <1>7 DEF RegInv, s

\* Two fields of one executor set in turn are one update of that executor.
InTurn(c, e, fd) == [c EXCEPT !.exec[e].pExecutor = "request", !.exec[e].fd0 = fd]
AtOnce(c, e, x0, fd) ==
  [c EXCEPT !.exec = [c.exec EXCEPT ![e] =
     [[x0 EXCEPT !.pExecutor = "request"] EXCEPT !.fd0 = fd]]]

LEMMA TwoFields ==
  ASSUME NEW c \in Registry, NEW e \in Execs, NEW fd, NEW x0, x0 = c.exec[e]
  PROVE  InTurn(c, e, fd) = AtOnce(c, e, x0, fd)
<1> DEFINE y == [c EXCEPT !.exec[e].pExecutor = "request"]
           x1 == [x0 EXCEPT !.pExecutor = "request"]
<1>1. c.exec \in [Execs -> ExecutorData] /\ x0 \in ExecutorData
  BY DEF Registry
<1>2. y.exec = [c.exec EXCEPT ![e] = x1] /\ y = [c EXCEPT !.exec = [c.exec EXCEPT ![e] = x1]]
  BY <1>1 DEF Registry
<1>3. y.exec[e] = x1
  BY <1>1, <1>2
<1>4. [y EXCEPT !.exec[e].fd0 = fd] =
        [y EXCEPT !.exec = [y.exec EXCEPT ![e] = [y.exec[e] EXCEPT !.fd0 = fd]]]
  OBVIOUS
<1> HIDE DEF x1
<1>5. [y EXCEPT !.exec = [y.exec EXCEPT ![e] = [y.exec[e] EXCEPT !.fd0 = fd]]] =
        [c EXCEPT !.exec = [[c.exec EXCEPT ![e] = x1] EXCEPT ![e] = [x1 EXCEPT !.fd0 = fd]]]
  BY <1>2, <1>3 DEF Registry
<1>6. [[c.exec EXCEPT ![e] = x1] EXCEPT ![e] = [x1 EXCEPT !.fd0 = fd]] =
        [c.exec EXCEPT ![e] = [x1 EXCEPT !.fd0 = fd]]
  BY <1>1
<1> QED BY <1>4, <1>5, <1>6 DEF x1, InTurn, AtOnce

\* A new client: its descriptor goes to an executor, or is closed.
LEMMA CreateRequestInv ==
  ASSUME NEW r, RegInv(r), NEW fd \in Loose(r),
         NEW s \in createRequestExecutorInternal(r, fd)
  PROVE  /\ RegInv(s) /\ Loose(s) = Loose(r) \ {fd}
         /\ \A c \in r.execUsed : c \in s.execUsed /\ s.exec[c] = r.exec[c]
         /\ \A c \in r.execUsed, i \in Slots : Watch(s, c, i) = Watch(r, c, i)
         /\ \A c \in s.execUsed \ r.execUsed : Serves(s, c)
         /\ Excess(s) = Excess(r)
<1>t. r \in Registry /\ fd \in r.open /\ fd \in Fds /\ Unheld(r, fd)
  BY DEF RegInv, Registry, Loose
<1> DEFINE q(e) == [createExecutorData(r, e) EXCEPT
                      !.exec[e].pExecutor = "request", !.exec[e].fd0 = fd]
           V(e) == {IF o.ok THEN o.reg ELSE removeExecutorData(o.reg, e) :
                      o \in RequestUp(q(e), e)}
<1>1. \E e \in AllocFrom(Execs \ r.execUsed) : s \in V(e)
  <2>1. s \in UNION {V(e) : e \in AllocFrom(Execs \ r.execUsed)}
    BY DEF createRequestExecutorInternal
  <2> HIDE DEF V
  <2>2. PICK S : S \in {V(e) : e \in AllocFrom(Execs \ r.execUsed)} /\ s \in S
    BY <2>1
  <2>3. PICK e \in AllocFrom(Execs \ r.execUsed) : S = V(e)
    BY <2>2
  <2>4. s \in V(e)
    BY <2>2, <2>3
  <2> QED BY <2>4
<1>2. PICK e \in AllocFrom(Execs \ r.execUsed) : s \in V(e)
  BY <1>1
<1>3. e \in Execs \ r.execUsed
  <2>1. Execs \ r.execUsed \in SUBSET Execs
    OBVIOUS
  <2> QED BY <2>1, AllocAssumption
<1>4. PICK o \in RequestUp(q(e), e) :
        (o.ok /\ s = o.reg) \/ s = removeExecutorData(o.reg, e)
  <2> HIDE DEF q
  <2> QED BY <1>2
<1> DEFINE c == createExecutorData(r, e)
           d == [c.exec[e] EXCEPT !.pExecutor = "request"]
           b == [c EXCEPT !.exec[e] = d]
           a == [b EXCEPT !.exec[e] = TakeFd(@, 0, fd)]
<1>5. /\ RegInv(c) /\ c.exec = r.exec /\ c.open = r.open
      /\ c.execUsed = r.execUsed \cup {e} /\ c.exec[e] = DownExecutorData
      /\ c \in Registry /\ e \in c.execUsed /\ Excess(c) = Excess(r)
      /\ \A x, i : Watch(c, x, i) = Watch(r, x, i)
  BY <1>3, CreateInv DEF RegInv, FdInv
<1>6. Loose(c) = Loose(r)
  BY <1>5 DEF Loose, Unheld, Fd
<1> HIDE DEF c
<1>7. /\ d \in ExecutorData /\ SameSlots(d, c.exec[e])
      /\ d.pExecutor = "request" /\ d.fd0 = None /\ d.fd1 = None
      /\ d.bytesInPipe = 0
  <2>1. /\ c.exec[e] \in ExecutorData /\ c.exec[e].fd0 = None /\ c.exec[e].fd1 = None
        /\ c.exec[e].bytesInPipe = 0
    BY <1>5 DEF DownExecutorData, Registry
  <2>2. "request" \in Kinds
    BY DEF Kinds
  <2> QED BY <2>1, <2>2 DEF ExecutorData, SameSlots
<1> HIDE DEF d
<1>8. Keeps(c, b, e) /\ b.exec[e] = d
  BY <1>5, <1>7, UpdateKeeps
<1>9. /\ RegInv(b) /\ e \in b.execUsed /\ b.execUsed = c.execUsed /\ Loose(b) = Loose(r)
      /\ Fd(b, e, 0) = None /\ b \in Registry /\ Excess(b) = Excess(r)
      /\ \A x \in Execs \ {e}, i \in Slots : Watch(b, x, i) = Watch(r, x, i)
      /\ \A x \in Execs \ {e} : b.exec[x] = r.exec[x]
  BY <1>5, <1>6, <1>7, <1>8 DEF Keeps, Frame, Fd, RegInv
<1> HIDE DEF b
<1>10. fd \in b.open /\ Unheld(b, fd)
  BY <1>9 DEF Loose
<1>11. /\ RegInv(a) /\ Excess(a) = Excess(b)
       /\ \A x \in Execs, i \in Slots : Watch(a, x, i) = Watch(b, x, i)
  <2>1. a = Taken(b, e, 0, fd) /\ 0 \in Slots
    BY DEF Taken, Slots
  <2> HIDE DEF a
  <2> QED BY <1>9, <1>10, <2>1, TakenInv
<1>12. /\ a.execUsed = b.execUsed /\ a.open = b.open
       /\ \A x \in Execs : a.exec[x] = IF x = e THEN TakeFd(d, 0, fd) ELSE b.exec[x]
  BY <1>3, <1>8, <1>9 DEF Registry
<1>13. a = q(e)
  <2> DEFINE x0 == c.exec[e]
  <2>0. q(e) = [c EXCEPT !.exec[e].pExecutor = "request", !.exec[e].fd0 = fd]
    BY DEF c
  <2>1. q(e) = [c EXCEPT !.exec = [c.exec EXCEPT ![e] =
                  [[x0 EXCEPT !.pExecutor = "request"] EXCEPT !.fd0 = fd]]]
    <3> HIDE DEF q
    <3>1. c \in Registry /\ x0 = c.exec[e]
      BY <1>5
    <3> HIDE DEF x0
    <3>2. InTurn(c, e, fd) = AtOnce(c, e, x0, fd)
      BY <1>3, <3>1, TwoFields
    <3>3. q(e) = InTurn(c, e, fd)
      BY <2>0 DEF InTurn
    <3> QED BY <3>2, <3>3 DEF AtOnce
  <2>2. a = [b EXCEPT !.exec = [b.exec EXCEPT ![e] = [d EXCEPT !.fd0 = fd]]]
    BY <1>8 DEF TakeFd
  <2>3. b.exec = [c.exec EXCEPT ![e] = d] /\ c.exec \in [Execs -> ExecutorData]
    BY <1>3, <1>5 DEF b, Registry
  <2>4. [b.exec EXCEPT ![e] = [d EXCEPT !.fd0 = fd]] = [c.exec EXCEPT ![e] = [d EXCEPT !.fd0 = fd]]
    BY <2>3, <1>3
  <2>5. a = [c EXCEPT !.exec = [c.exec EXCEPT ![e] = [d EXCEPT !.fd0 = fd]]]
    BY <2>2, <2>4, <1>5 DEF b, Registry
  <2> QED BY <2>1, <2>5 DEF d
<1> HIDE DEF a, q
<1>14. /\ Loose(a) = Loose(r) \ {fd}
       /\ a.exec[e].pExecutor = "request" /\ a.exec[e].fd1 = None
       /\ a.exec[e].bytesInPipe = 0
  <2>1. a.exec[e] = TakeFd(d, 0, fd) /\ a.exec[e].fd0 = fd
        /\ a.exec[e].pExecutor = "request" /\ a.exec[e].fd1 = None
        /\ a.exec[e].bytesInPipe = 0
    BY <1>3, <1>7, <1>12 DEF TakeFd, ExecutorData
  <2>2. ~Unheld(a, fd)
    BY <2>1, <1>3 DEF Unheld, Slots, Fd
  <2>3. \A x \in Execs, i \in Slots :
          Fd(a, x, i) = IF x = e /\ i = 0 THEN fd ELSE Fd(b, x, i)
    BY <2>1, <1>7, <1>8, <1>12 DEF Fd, Slots
  <2>4. \A g \in b.open : g # fd => (Unheld(a, g) <=> Unheld(b, g))
    <3> TAKE g \in b.open
    <3>1. g # None
      BY <1>9, NoneAssumption DEF Registry
    <3> QED BY <3>1, <2>3, <1>9, <1>3 DEF Unheld, Slots
  <2> QED BY <2>1, <2>2, <2>4, <1>9, <1>12 DEF Loose
<1>15. /\ RegInv(a) /\ e \in a.execUsed /\ a.execUsed = r.execUsed \cup {e}
       /\ \A x \in Execs \ {e} : a.exec[x] = r.exec[x]
       /\ \A x \in Execs \ {e}, i \in Slots : Watch(a, x, i) = Watch(r, x, i)
       /\ Excess(a) = Excess(r)
  BY <1>5, <1>9, <1>11, <1>12
<1>16. Step(a, o.reg, e)
  BY <1>4, <1>13, <1>15, RequestUpGood
<1>17. /\ RegInv(o.reg) /\ e \in o.reg.execUsed /\ o.reg.execUsed = a.execUsed
       /\ Loose(o.reg) = Loose(r) \ {fd} /\ ConnOK(o.reg.exec[e])
       /\ \A x \in Execs \ {e} : o.reg.exec[x] = r.exec[x]
       /\ \A x \in Execs \ {e}, i \in Slots : Watch(o.reg, x, i) = Watch(r, x, i)
       /\ Excess(o.reg) = Excess(r)
  BY <1>14, <1>15, <1>16 DEF Step, Good, Keeps, Frame, SameConn, ConnOK
<1>18. r.execUsed \subseteq Execs \ {e}
  BY <1>t, <1>3 DEF Registry
<1>19. CASE o.ok /\ s = o.reg
  <2>1. Serves(s, e)
    BY <1>4, <1>13, <1>14, <1>15, <1>17, <1>19, RequestUpWait DEF Serves
  <2> QED BY <2>1, <1>15, <1>17, <1>18, <1>19
<1>20. CASE s = removeExecutorData(o.reg, e)
  <2>1. RegInv(s) /\ Frame(o.reg, s, e) /\ s.execUsed = o.reg.execUsed \ {e}
    BY <1>17, <1>20, RemoveExecutorInv
  <2>2. s.execUsed = r.execUsed /\ Loose(s) = Loose(r) \ {fd} /\ Excess(s) = Excess(r)
    BY <2>1, <1>15, <1>17, <1>18 DEF Frame
  <2>3. /\ \A x \in Execs \ {e} : s.exec[x] = r.exec[x]
        /\ \A x \in Execs \ {e}, i \in Slots : Watch(s, x, i) = Watch(r, x, i)
    BY <2>1, <1>17 DEF Frame
  <2> QED BY <2>1, <2>2, <2>3, <1>18
<1> QED BY <1>4, <1>19, <1>20

----------------------------------------------------------------------------
(* The invariant. *)

LEMMA InitInv == Init => Inv
<1> SUFFICES ASSUME Init PROVE Inv
  OBVIOUS
<1> DEFINE X == InitialRegistry.exec
<1>p. /\ ServerExec \in Execs /\ NewFdExec \in Execs /\ ServerExec # NewFdExec
      /\ ServerPoll \in PollDatas /\ NewFdPoll \in PollDatas /\ ServerPoll # NewFdPoll
      /\ ListenFd \in Fds /\ EventFd \in Fds /\ ListenFd # EventFd
  BY PermanentAssumption
<1>n. None \notin Execs /\ None \notin PollDatas /\ None \notin Fds
  BY NoneAssumption
<1>i. /\ reg = InitialRegistry /\ runFlag = TRUE /\ phase = "wait"
      /\ batch = {} /\ expired = {} /\ queue = <<>> /\ efd = 0
  BY DEF Init
<1>1. \A k \in {"server", "newFd"}, f \in Fds, q \in PollDatas :
        LET d == Permanent(k, f, q) IN
        /\ d \in ExecutorData /\ d.fd0 = f /\ d.fd1 = None
        /\ d.pollData0 = q /\ d.pollData1 = None /\ d.removeOnTimeout = FALSE
  <2> TAKE k \in {"server", "newFd"}, f \in Fds, q \in PollDatas
  <2>1. DownExecutorData \in ExecutorData
    BY MaxPipeAssumption DEF DownExecutorData, ExecutorData, Kinds, States
  <2>2. k \in Kinds /\ "ok" \in States
    BY DEF Kinds, States
  <2> QED BY <2>1, <2>2 DEF Permanent, DownExecutorData, ExecutorData
<1>2. /\ X \in [Execs -> ExecutorData]
      /\ X[ServerExec] = Permanent("server", ListenFd, ServerPoll)
      /\ X[NewFdExec] = Permanent("newFd", EventFd, NewFdPoll)
      /\ \A e \in Execs \ {ServerExec, NewFdExec} : X[e] = DownExecutorData
  <2>1. DownExecutorData \in ExecutorData
    BY MaxPipeAssumption DEF DownExecutorData, ExecutorData, Kinds, States
  <2>2. /\ Permanent("server", ListenFd, ServerPoll) \in ExecutorData
        /\ Permanent("newFd", EventFd, NewFdPoll) \in ExecutorData
    BY <1>1, <1>p
  <2>3. X = [e \in Execs |->
              IF e = ServerExec THEN Permanent("server", ListenFd, ServerPoll)
              ELSE IF e = NewFdExec THEN Permanent("newFd", EventFd, NewFdPoll)
              ELSE DownExecutorData]
    BY DEF InitialRegistry
  <2> QED BY <2>1, <2>2, <2>3, <1>p
<1>3. /\ reg.exec = X /\ reg.execUsed = {ServerExec, NewFdExec}
      /\ reg.pollUsed = {ServerPoll, NewFdPoll} /\ reg.open = {ListenFd, EventFd}
      /\ reg.poll = [q \in PollDatas |->
           IF q = ServerPoll THEN [fd |-> ListenFd, execData |-> ServerExec]
           ELSE IF q = NewFdPoll THEN [fd |-> EventFd, execData |-> NewFdExec]
           ELSE DownPollData]
      /\ reg.epoll = [f \in Fds |->
           IF f = ListenFd THEN [ptr |-> ServerPoll, events |-> {"IN"}]
           ELSE IF f = EventFd THEN [ptr |-> NewFdPoll, events |-> {"IN"}]
           ELSE NotPolled]
      /\ reg.numOfPollFds = 2
  BY <1>i DEF InitialRegistry
<1> HIDE DEF X
<1>4. reg \in Registry
  <2>1. reg.poll \in [PollDatas -> PollData]
    BY <1>3, <1>p DEF PollData, DownPollData
  <2>2. reg.epoll \in [Fds -> [ptr : PollDatas \cup {None}, events : Interest]]
    BY <1>3, <1>p DEF NotPolled, Interest
  <2>3. reg = [exec |-> reg.exec, execUsed |-> reg.execUsed, poll |-> reg.poll,
               pollUsed |-> reg.pollUsed, epoll |-> reg.epoll, open |-> reg.open,
               numOfPollFds |-> reg.numOfPollFds]
    BY <1>i DEF InitialRegistry
  <2>4. /\ reg.exec \in [Execs -> ExecutorData] /\ reg.execUsed \subseteq Execs
        /\ reg.pollUsed \subseteq PollDatas /\ reg.open \subseteq Fds
        /\ reg.numOfPollFds \in Int
    BY <1>2, <1>3, <1>p
  <2> QED BY <2>1, <2>2, <2>3, <2>4 DEF Registry
<1>5. \A e \in Execs, i \in Slots :
        /\ Fd(reg, e, i) = IF i = 0 /\ e = ServerExec THEN ListenFd
                           ELSE IF i = 0 /\ e = NewFdExec THEN EventFd ELSE None
        /\ Pd(reg, e, i) = IF i = 0 /\ e = ServerExec THEN ServerPoll
                           ELSE IF i = 0 /\ e = NewFdExec THEN NewFdPoll ELSE None
  <2>1. /\ reg.exec[ServerExec].fd0 = ListenFd /\ reg.exec[ServerExec].fd1 = None
        /\ reg.exec[ServerExec].pollData0 = ServerPoll
        /\ reg.exec[ServerExec].pollData1 = None
        /\ reg.exec[NewFdExec].fd0 = EventFd /\ reg.exec[NewFdExec].fd1 = None
        /\ reg.exec[NewFdExec].pollData0 = NewFdPoll
        /\ reg.exec[NewFdExec].pollData1 = None
    BY <1>1, <1>2, <1>3, <1>p
  <2>2. \A e \in Execs \ {ServerExec, NewFdExec} :
          /\ reg.exec[e].fd0 = None /\ reg.exec[e].fd1 = None
          /\ reg.exec[e].pollData0 = None /\ reg.exec[e].pollData1 = None
    BY <1>2, <1>3 DEF DownExecutorData
  <2> QED BY <2>1, <2>2 DEF Fd, Pd, Slots
<1>6. SlotInv(reg)
  BY <1>3, <1>5, <1>n, <1>p DEF SlotInv, Slots
<1>7. PollInv(reg)
  BY <1>3, <1>5, <1>n, <1>p DEF PollInv, Slots
<1>8. EpollInv(reg)
  BY <1>3, <1>p DEF EpollInv, NotPolled
<1>9. FdInv(reg)
  BY <1>2, <1>3, <1>5, <1>n, <1>p DEF FdInv, Slots
<1>10. Loose(reg) = {}
  <2>1. ~Unheld(reg, ListenFd) /\ ~Unheld(reg, EventFd)
    BY <1>5, <1>p DEF Unheld, Slots
  <2> QED BY <2>1, <1>3 DEF Loose
<1>11. Queued = {} /\ QueueInv
  BY <1>i, <1>10 DEF Queued, QueueInv
<1>12. ExecInv
  <2>1. Cardinality({ServerPoll, NewFdPoll}) = 2
    <3> PICK S : S = {ServerPoll}
      OBVIOUS
    <3>1. IsFiniteSet(S) /\ Cardinality(S) = 1
      BY FS_Singleton
    <3>2. NewFdPoll \notin S /\ {ServerPoll, NewFdPoll} = S \cup {NewFdPoll}
      BY <1>p
    <3>3. Cardinality(S \cup {NewFdPoll}) = Cardinality(S) + 1
      BY <3>1, <3>2, FS_AddElement
    <3> QED BY <3>1, <3>2, <3>3
  <2>2. Excess(reg) = 0
    BY <2>1, <1>3 DEF Excess
  <2> QED BY <2>2, <1>2, <1>3 DEF ExecInv, Live, X
<1> QED BY <1>i, <1>4, <1>6, <1>7, <1>8, <1>9, <1>11, <1>12
        DEF Inv, RegInv, TypeInv, ExpiredInv, BatchInv, NoLostWakeup, Phases

\* Which executor an event is dispatched to.
LEMMA TargetFacts ==
  ASSUME Inv, NEW ev \in batch, Dispatchable(ev)
  PROVE  /\ ev.pollData \in PollDatas /\ phase # "stopped"
         /\ Target(ev) \in reg.execUsed /\ Target(ev) \in Execs
         /\ reg.poll[ev.pollData].fd # None
         /\ Target(ev) = ServerExec => ev.pollData = ServerPoll
         /\ Target(ev) = NewFdExec => ev.pollData = NewFdPoll
         /\ IsHangup(ev) => Target(ev) \in Live
<1> DEFINE p == ev.pollData
<1>1. /\ p \in PollDatas /\ Target(ev) # None /\ phase # "stopped"
      /\ reg \in Registry /\ RegInv(reg)
  BY DEF Inv, TypeInv, Event, Dispatchable, RegInv
<1>2. p \in reg.pollUsed
  BY <1>1 DEF RegInv, PollInv, Target, DownPollData
<1>3. /\ Target(ev) \in reg.execUsed /\ reg.poll[p].fd # None
      /\ \E i \in Slots : Pd(reg, Target(ev), i) = p
  BY <1>1, <1>2 DEF RegInv, PollInv, Target
<1>4. Target(ev) \in Execs
  BY <1>1, <1>3 DEF Registry
<1>5. /\ reg.exec[ServerExec] = Permanent("server", ListenFd, ServerPoll)
      /\ reg.exec[NewFdExec] = Permanent("newFd", EventFd, NewFdPoll)
  BY <1>1, PermanentAssumption DEF Inv, ExecInv, InitialRegistry
<1>6. /\ \A i \in Slots : Pd(reg, ServerExec, i) \in {ServerPoll, None}
      /\ \A i \in Slots : Pd(reg, NewFdExec, i) \in {NewFdPoll, None}
  BY <1>5 DEF Pd, Slots, Permanent, DownExecutorData
<1>7. p # None
  BY <1>1, NoneAssumption
<1>8. /\ Target(ev) = ServerExec => p = ServerPoll
      /\ Target(ev) = NewFdExec => p = NewFdPoll
  BY <1>3, <1>6, <1>7
<1>9. IsHangup(ev) => p \notin {ServerPoll, NewFdPoll}
  BY DEF Inv, BatchInv, IsHangup
<1> QED BY <1>1, <1>3, <1>4, <1>8, <1>9 DEF Live

\* A step of a connection's executor e, or its removal.
LEMMA ConnectionStep ==
  ASSUME RegInv(reg), ExecInv, NEW e \in Live,
         RegInv(reg'), Frame(reg, reg', e),
         \/ reg'.execUsed = reg.execUsed /\ Serves(reg', e)
         \/ reg'.execUsed = reg.execUsed \ {e}
  PROVE  ExecInv' /\ Loose(reg') = Loose(reg)
<1>1. /\ reg \in Registry /\ e \in Execs /\ e # ServerExec /\ e # NewFdExec
      /\ ServerExec \in Execs /\ NewFdExec \in Execs
  BY PermanentAssumption DEF RegInv, Registry, Live
<1>2. reg'.exec[ServerExec] = reg.exec[ServerExec] /\ reg'.exec[NewFdExec] = reg.exec[NewFdExec]
  BY <1>1 DEF Frame
<1>3. {ServerExec, NewFdExec} \subseteq reg'.execUsed
  BY <1>1 DEF ExecInv
<1>4. \A c \in Live' : Serves(reg', c)
  <2> TAKE c \in Live'
  <2>1. c \in reg.execUsed /\ c \in Execs /\ c \notin {ServerExec, NewFdExec}
    BY <1>1 DEF Live, Registry
  <2>2. CASE c = e
    BY <2>2 DEF Live
  <2>3. CASE c # e
    BY <2>1, <2>3, StillServes DEF Frame, ExecInv, Live
  <2> QED BY <2>2, <2>3
<1>5. Excess(reg') = 0
  BY DEF ExecInv, Frame
<1> QED BY <1>2, <1>3, <1>4, <1>5 DEF ExecInv, Frame, Permanent, InitialRegistry

\* What a step that touches neither the batch nor the loop's phase, and takes
\* nothing from the event descriptor's counter, leaves to show.
LEMMA SamePhase ==
  ASSUME Inv, phase' = phase, batch' \subseteq batch, efd' \in Nat, efd' >= efd,
         runFlag' \in BOOLEAN, expired' = expired, phase # "timeout",
         phase # "stopped"
  PROVE  /\ ExpiredInv' /\ BatchInv' /\ phase' \in Phases
         /\ batch' \subseteq Event /\ expired' \subseteq Execs
         /\ runFlag' \in BOOLEAN /\ efd' \in Nat
         /\ phase' # "stopped"
<1>1. efd \in Nat /\ batch \subseteq Event
  BY DEF Inv, TypeInv
<1>2. BatchInv'
  BY <1>1 DEF Inv, BatchInv
<1> QED BY <1>1, <1>2 DEF Inv, TypeInv, ExpiredInv

\* Dispatching an event to a connection.
LEMMA DispatchInv ==
  ASSUME Inv, NEW ev \in batch, Take(ev), Dispatchable(ev), Target(ev) \in Live,
         RegInv(reg'), Frame(reg, reg', Target(ev)),
         \/ reg'.execUsed = reg.execUsed /\ Serves(reg', Target(ev))
         \/ reg'.execUsed = reg.execUsed \ {Target(ev)},
         UNCHANGED <<runFlag, phase, expired, queue, efd>>
  PROVE  Inv'
<1>1. phase = "dispatch" /\ batch' \subseteq batch /\ efd' \in Nat /\ efd \in Nat
  BY DEF Take, Inv, TypeInv
<1>2. ExecInv' /\ Loose(reg') = Loose(reg)
  BY <1>1, ConnectionStep DEF Inv
<1>3. /\ ExpiredInv' /\ BatchInv' /\ phase' \in Phases
      /\ batch' \subseteq Event /\ expired' \subseteq Execs
      /\ runFlag' \in BOOLEAN /\ efd' \in Nat
      /\ phase' # "stopped"
  <2>1. runFlag' \in BOOLEAN /\ efd' >= efd
    BY <1>1 DEF Inv, TypeInv
  <2> QED BY <1>1, <2>1, SamePhase
<1>4. QueueInv'
  BY <1>2 DEF Inv, QueueInv, Queued
<1>5. NoLostWakeup' /\ queue' \in Seq(Fds)
  BY DEF Inv, TypeInv, NoLostWakeup
<1> QED BY <1>2, <1>3, <1>4, <1>5 DEF Inv, TypeInv

LEMMA HangupInv ==
  ASSUME Inv, NEW ev \in batch, Hangup(ev)
  PROVE  Inv'
<1>1. Take(ev) /\ Dispatchable(ev) /\ IsHangup(ev)
  BY DEF Hangup
<1>2. Target(ev) \in Live /\ Target(ev) \in reg.execUsed
  BY <1>1, TargetFacts
<1>3. /\ RegInv(reg') /\ Frame(reg, reg', Target(ev))
      /\ reg'.execUsed = reg.execUsed \ {Target(ev)}
  BY <1>2, RemoveExecutorInv DEF Hangup, Inv
<1> QED BY <1>1, <1>2, <1>3, DispatchInv DEF Hangup

LEMMA ProcessInv ==
  ASSUME Inv, NEW ev \in batch, Process(ev)
  PROVE  Inv'
<1> DEFINE e == Target(ev)
           fd == reg.poll[ev.pollData].fd
<1>1. Take(ev) /\ Dispatchable(ev) /\ e \in Connections
  BY DEF Process
<1>2. e \in Live /\ e \in reg.execUsed /\ fd # None /\ phase # "stopped"
  BY <1>1, TargetFacts DEF Live, Connections
<1>3. PICK out \in process(reg, e, fd, ev.events) : reg' = AfterProcess(e, out)
  BY DEF Process
<1>4. RegInv(reg) /\ ConnOK(reg.exec[e]) /\ Watched(reg, e)
  BY <1>2 DEF Inv, ExecInv, Serves
<1> HIDE DEF e, fd
<1>5. Keeps(reg, out.reg, e) /\ ConnOK(out.reg.exec[e]) /\ Waits(out, e)
  BY <1>2, <1>4, ProcessKeeps, ProcessWaits
<1>6. \/ /\ reg' = out.reg
         /\ out.result \notin {removeExecutorOk, removeExecutorError}
      \/ reg' = removeExecutorData(out.reg, e)
  BY <1>3 DEF AfterProcess
<1>7. CASE /\ reg' = out.reg
           /\ out.result \notin {removeExecutorOk, removeExecutorError}
  <2>1. RegInv(reg') /\ Frame(reg, reg', e) /\ reg'.execUsed = reg.execUsed
    BY <1>5, <1>7 DEF Keeps
  <2>2. Serves(reg', e)
    BY <1>5, <1>7 DEF Waits, Serves
  <2> QED BY <1>1, <1>2, <1>7, <2>1, <2>2, DispatchInv DEF Process, e
<1>8. CASE reg' = removeExecutorData(out.reg, e)
  <2>1. RegInv(out.reg) /\ e \in out.reg.execUsed
    BY <1>2, <1>5 DEF Keeps
  <2>2. /\ RegInv(reg') /\ Frame(out.reg, reg', e)
        /\ reg'.execUsed = out.reg.execUsed \ {e}
    BY <1>8, <2>1, RemoveExecutorInv
  <2>3. Frame(reg, reg', e) /\ reg'.execUsed = reg.execUsed \ {e}
    BY <2>2, <1>5 DEF Keeps, Frame
  <2> QED BY <1>1, <1>2, <2>2, <2>3, DispatchInv DEF Process, e
<1> QED BY <1>6, <1>7, <1>8

----------------------------------------------------------------------------
(* The queue of new clients. *)

LEMMA PushQueue ==
  ASSUME NEW f \in Fds, queue \in Seq(Fds), f \notin Queued,
         \A i, j \in 1 .. Len(queue) : queue[i] = queue[j] => i = j,
         queue' = Append(queue, f)
  PROVE  /\ queue' \in Seq(Fds) /\ Queued' = Queued \cup {f}
         /\ \A i, j \in 1 .. Len(queue') : queue'[i] = queue'[j] => i = j
<1>1. /\ queue' \in Seq(Fds) /\ Len(queue') = Len(queue) + 1 /\ Len(queue) \in Nat
      /\ \A i \in 1 .. Len(queue) : queue'[i] = queue[i]
      /\ queue'[Len(queue) + 1] = f
  OBVIOUS
<1>2. Queued' = Queued \cup {f}
  BY <1>1 DEF Queued
<1>3. \A i \in 1 .. Len(queue) : queue[i] # f
  BY DEF Queued
<1> QED BY <1>1, <1>2, <1>3

LEMMA PopQueue ==
  ASSUME queue \in Seq(Fds), queue # <<>>, queue' = Tail(queue),
         \A i, j \in 1 .. Len(queue) : queue[i] = queue[j] => i = j
  PROVE  /\ queue' \in Seq(Fds) /\ Head(queue) \in Queued
         /\ Queued' = Queued \ {Head(queue)}
         /\ \A i, j \in 1 .. Len(queue') : queue'[i] = queue'[j] => i = j
<1>1. /\ queue' \in Seq(Fds) /\ Len(queue') = Len(queue) - 1 /\ Len(queue) \in Nat \ {0}
      /\ \A i \in 1 .. Len(queue) - 1 : queue'[i] = queue[i + 1]
      /\ Head(queue) = queue[1]
  OBVIOUS
<1>2. Head(queue) \in Queued
  BY <1>1 DEF Queued
<1>3. \A x : x \in Queued' <=> x \in Queued \ {Head(queue)}
  <2> TAKE x
  <2>1. ASSUME NEW i \in 1 .. Len(queue'), x = queue'[i]
        PROVE  x \in Queued \ {Head(queue)}
    BY <1>1, <2>1 DEF Queued
  <2>2. ASSUME NEW i \in 1 .. Len(queue), x = queue[i], x # queue[1]
        PROVE  x \in Queued'
    <3>1. i - 1 \in 1 .. Len(queue') /\ queue'[i - 1] = x
      BY <1>1, <2>2
    <3> QED BY <3>1 DEF Queued
  <2> QED BY <1>1, <2>1, <2>2 DEF Queued
<1> QED BY <1>1, <1>2, <1>3

\* A client accepted now is not one that waits.
LEMMA FreshFd ==
  ASSUME Inv, NEW f \in FreshFds(reg)
  PROVE  /\ f \in Fds \ reg.open /\ f \notin Queued
         /\ RegInv(OpenFd(reg, f)) /\ OpenFd(reg, f).exec = reg.exec
         /\ OpenFd(reg, f).execUsed = reg.execUsed
         /\ f \in Loose(OpenFd(reg, f))
         /\ Loose(OpenFd(reg, f)) = Queued \cup {f}
         /\ Excess(OpenFd(reg, f)) = Excess(reg)
         /\ \A c, i : Watch(OpenFd(reg, f), c, i) = Watch(reg, c, i)
<1>1. f \in Fds \ reg.open
  <2>1. Fds \ reg.open \in SUBSET Fds
    OBVIOUS
  <2> QED BY <2>1, AllocAssumption DEF FreshFds
<1>2. Loose(reg) = Queued /\ f \notin Loose(reg)
  BY <1>1 DEF Inv, QueueInv, Loose
<1> QED BY <1>1, <1>2, OpenInv DEF Inv

\* No executor in use before is changed; a new one serves a connection.
LEMMA NewClientStep ==
  ASSUME RegInv(reg), ExecInv,
         \A c \in reg.execUsed : c \in reg'.execUsed /\ reg'.exec[c] = reg.exec[c],
         \A c \in reg.execUsed, i \in Slots : Watch(reg', c, i) = Watch(reg, c, i),
         \A c \in reg'.execUsed \ reg.execUsed : Serves(reg', c),
         Excess(reg') = Excess(reg)
  PROVE  ExecInv'
<1>1. \A c \in Live' : Serves(reg', c)
  <2> TAKE c \in Live'
  <2>1. CASE c \in reg.execUsed
    <3>1. c \in Live
      BY <2>1 DEF Live
    <3> QED BY <2>1, <3>1, StillServes DEF ExecInv
  <2>2. CASE c \notin reg.execUsed
    BY <2>2 DEF Live
  <2> QED BY <2>1, <2>2
<1> QED BY <1>1 DEF ExecInv, InitialRegistry, Permanent

\* enqueueClientFd for a client just accepted.
LEMMA EnqueueInv ==
  ASSUME Inv, phase # "stopped", phase' = phase, NEW f \in FreshFds(reg),
         EnqueueHere(OpenFd(reg, f), f)
  PROVE  /\ RegInv(reg') /\ QueueInv' /\ ExecInv' /\ NoLostWakeup'
         /\ queue' \in Seq(Fds) /\ efd' \in Nat /\ efd' >= efd
<1> DEFINE r == OpenFd(reg, f)
<1>1. /\ f \in Fds /\ f \notin Queued /\ RegInv(r) /\ r.exec = reg.exec
      /\ r.execUsed = reg.execUsed /\ f \in Loose(r) /\ Loose(r) = Queued \cup {f}
      /\ Excess(r) = Excess(reg) /\ \A c, i : Watch(r, c, i) = Watch(reg, c, i)
  BY FreshFd
<1> HIDE DEF r
<1>2. /\ RegInv(reg) /\ ExecInv /\ queue \in Seq(Fds) /\ efd \in Nat
      /\ \A i, j \in 1 .. Len(queue) : queue[i] = queue[j] => i = j
  BY DEF Inv, TypeInv, QueueInv
<1>3. CASE reg' = r /\ queue' = Append(queue, f) /\ efd' = efd + 1
  <2>1. /\ queue' \in Seq(Fds) /\ Queued' = Queued \cup {f}
        /\ \A i, j \in 1 .. Len(queue') : queue'[i] = queue'[j] => i = j
    BY <1>1, <1>2, <1>3, PushQueue
  <2>2. ExecInv'
    BY <1>1, <1>2, <1>3, NewClientStep
  <2>3. efd' \in Nat /\ efd' >= efd /\ efd' > 0
    BY <1>2, <1>3
  <2> QED BY <1>1, <1>3, <2>1, <2>2, <2>3 DEF QueueInv, NoLostWakeup
<1>4. CASE reg' = CloseAll(r, {f}) /\ UNCHANGED <<queue, efd>>
  <2>1. /\ RegInv(reg') /\ reg'.exec = reg.exec /\ reg'.execUsed = reg.execUsed
        /\ Loose(reg') = Queued /\ Excess(reg') = Excess(reg)
        /\ \A c \in Execs, i \in Slots : Watch(reg', c, i) = Watch(reg, c, i)
    <3> DEFINE s == CloseAll(r, {f})
    <3>1. /\ RegInv(s) /\ s.exec = r.exec /\ s.execUsed = r.execUsed
          /\ Loose(s) = Loose(r) \ {f} /\ Excess(s) = Excess(r)
          /\ \A c \in Execs, i \in Slots : Watch(s, c, i) = Watch(r, c, i)
      BY <1>1, CloseLoose
    <3>2. reg' = s
      BY <1>4
    <3> HIDE DEF s
    <3>3. Loose(r) \ {f} = Queued
      BY <1>1
    <3> QED BY <1>1, <3>1, <3>2, <3>3
  <2>a. reg.execUsed \subseteq Execs
    BY <1>2 DEF RegInv, Registry
  <2>2. ExecInv'
    BY <1>2, <2>1, <2>a, NewClientStep
  <2>3. queue' = queue /\ Queued' = Queued
    BY <1>4 DEF Queued
  <2>4. efd' \in Nat /\ efd' >= efd
    BY <1>2, <1>4
  <2>5. NoLostWakeup'
    <3>1. NoLostWakeup
      BY DEF Inv
    <3>2. queue # <<>> => efd > 0 \/ phase = "drain"
      BY <3>1 DEF NoLostWakeup
    <3> QED BY <3>2, <1>4 DEF NoLostWakeup
  <2> QED BY <1>2, <2>1, <2>2, <2>3, <2>4, <2>5 DEF QueueInv
<1> QED BY <1>3, <1>4 DEF EnqueueHere, r

----------------------------------------------------------------------------
(* The remaining actions. *)

LEMMA SkipFreedInv ==
  ASSUME Inv, NEW ev \in batch, SkipFreed(ev)
  PROVE  Inv'
<1>1. /\ phase = "dispatch" /\ batch' \subseteq batch
      /\ UNCHANGED <<reg, runFlag, phase, expired, queue, efd>>
  BY DEF SkipFreed, Take
<1>2. /\ batch' \subseteq Event /\ BatchInv'
  BY <1>1 DEF Inv, TypeInv, BatchInv
<1>3. QueueInv' /\ ExecInv' /\ NoLostWakeup' /\ RegInv(reg')
  BY <1>1 DEF Inv, QueueInv, Queued, ExecInv, Live, NoLostWakeup
<1> QED BY <1>1, <1>2, <1>3 DEF Inv, TypeInv, ExpiredInv

LEMMA AcceptInv ==
  ASSUME Inv, NEW ev \in batch, Accept(ev)
  PROVE  Inv'
<1>1. /\ Take(ev) /\ phase = "dispatch" /\ batch' \subseteq batch
      /\ runFlag' = runFlag /\ phase' = phase /\ expired' = expired
  BY DEF Accept, Take
<1>2. /\ RegInv(reg) /\ ExecInv /\ queue \in Seq(Fds) /\ efd \in Nat /\ efd >= efd
      /\ runFlag \in BOOLEAN /\ NoLostWakeup /\ QueueInv
  BY <1>1 DEF Inv, TypeInv
<1>3. PICK f \in FreshFds(reg) :
        \/ /\ reg' \in createRequestExecutorInternal(OpenFd(reg, f), f)
           /\ UNCHANGED <<queue, efd>>
        \/ EnqueueHere(OpenFd(reg, f), f)
        \/ UNCHANGED <<reg, queue, efd>>
  BY DEF Accept
<1>4. /\ RegInv(reg') /\ QueueInv' /\ ExecInv' /\ NoLostWakeup'
      /\ queue' \in Seq(Fds) /\ efd' \in Nat /\ efd' >= efd
  <2>1. CASE /\ reg' \in createRequestExecutorInternal(OpenFd(reg, f), f)
             /\ UNCHANGED <<queue, efd>>
    <3> DEFINE r == OpenFd(reg, f)
    <3>1. /\ f \in Fds /\ f \notin Queued /\ RegInv(r) /\ r.exec = reg.exec
          /\ r.execUsed = reg.execUsed /\ f \in Loose(r) /\ Loose(r) = Queued \cup {f}
          /\ Excess(r) = Excess(reg) /\ \A c, i : Watch(r, c, i) = Watch(reg, c, i)
      BY FreshFd
    <3> HIDE DEF r
    <3>2. /\ RegInv(reg') /\ Loose(reg') = Loose(r) \ {f}
          /\ \A c \in r.execUsed : c \in reg'.execUsed /\ reg'.exec[c] = r.exec[c]
          /\ \A c \in r.execUsed, i \in Slots : Watch(reg', c, i) = Watch(r, c, i)
          /\ \A c \in reg'.execUsed \ r.execUsed : Serves(reg', c)
          /\ Excess(reg') = Excess(r)
      BY <2>1, <3>1, CreateRequestInv DEF r
    <3>3. ExecInv'
      BY <1>2, <3>1, <3>2, NewClientStep
    <3>4. Queued' = Queued /\ Loose(reg') = Queued
      BY <2>1, <3>1, <3>2 DEF Queued
    <3>5. QueueInv' /\ NoLostWakeup'
      BY <1>1, <1>2, <2>1, <3>4 DEF QueueInv, NoLostWakeup
    <3> QED BY <1>2, <2>1, <3>2, <3>3, <3>5
  <2>2. CASE EnqueueHere(OpenFd(reg, f), f)
    BY <1>1, <2>2, EnqueueInv
  <2>3. CASE UNCHANGED <<reg, queue, efd>>
    BY <1>1, <1>2, <2>3 DEF QueueInv, Queued, ExecInv, Live, NoLostWakeup
  <2> QED BY <1>3, <2>1, <2>2, <2>3
<1>5. /\ ExpiredInv' /\ BatchInv' /\ phase' \in Phases
      /\ batch' \subseteq Event /\ expired' \subseteq Execs
      /\ runFlag' \in BOOLEAN /\ efd' \in Nat
      /\ phase' # "stopped"
  BY <1>1, <1>2, <1>4, SamePhase
<1> QED BY <1>4, <1>5 DEF Inv, TypeInv

LEMMA DestroyStep ==
  ASSUME Inv, phase # "timeout", Destroy
  PROVE  Inv'
<1>1. /\ reg' = destroyAll(reg) /\ phase' = "stopped" /\ batch' = {}
      /\ UNCHANGED <<runFlag, expired, queue, efd>>
  BY DEF Destroy
<1>2. RegInv(reg') /\ Loose(reg') = Loose(reg) /\ reg'.execUsed = {}
  BY <1>1, DestroyInv DEF Inv
<1>3. QueueInv'
  BY <1>1, <1>2 DEF Inv, QueueInv, Queued
<1>4. TypeInv' /\ ExpiredInv' /\ BatchInv' /\ NoLostWakeup'
  BY <1>1 DEF Inv, TypeInv, ExpiredInv, BatchInv, NoLostWakeup, Phases
<1> QED BY <1>1, <1>2, <1>3, <1>4 DEF Inv

LEMMA NewFdInv ==
  ASSUME Inv, NEW ev \in batch, NewFd(ev)
  PROVE  Inv'
<1>1. Dispatchable(ev) /\ Target(ev) = NewFdExec
  BY DEF NewFd
<1>2. ev.pollData = NewFdPoll
  BY <1>1, TargetFacts
<1>3. efd > 0 /\ efd \in Nat
  BY <1>2 DEF Inv, TypeInv, BatchInv
<1>4. /\ phase = "dispatch" /\ batch' = batch \ {ev} /\ efd' = efd - 1 /\ phase' = "drain"
      /\ UNCHANGED <<reg, runFlag, expired, queue>>
  BY <1>3 DEF NewFd, Take
<1>5. \A fv \in batch' : fv.pollData # NewFdPoll
  BY <1>2, <1>4 DEF Inv, BatchInv
<1>6. BatchInv' /\ TypeInv' /\ ExpiredInv'
  BY <1>3, <1>4, <1>5 DEF Inv, BatchInv, TypeInv, ExpiredInv, Phases
<1>7. QueueInv' /\ ExecInv' /\ NoLostWakeup' /\ RegInv(reg')
  BY <1>4 DEF Inv, QueueInv, Queued, ExecInv, Live, NoLostWakeup
<1> QED BY <1>4, <1>6, <1>7 DEF Inv

LEMMA CheckNewFdInv ==
  ASSUME Inv, CheckNewFd
  PROVE  Inv'
<1> DEFINE f == Head(queue)
<1>1. /\ phase = "drain" /\ queue # <<>> /\ queue' = Tail(queue)
      /\ reg' \in createRequestExecutorInternal(reg, f)
      /\ UNCHANGED <<runFlag, phase, batch, expired, efd>>
  BY DEF CheckNewFd
<1>2. /\ RegInv(reg) /\ ExecInv /\ queue \in Seq(Fds) /\ Loose(reg) = Queued
      /\ \A i, j \in 1 .. Len(queue) : queue[i] = queue[j] => i = j
      /\ efd \in Nat /\ efd >= efd /\ runFlag \in BOOLEAN
  BY <1>1 DEF Inv, TypeInv, QueueInv
<1>3. /\ queue' \in Seq(Fds) /\ f \in Queued /\ Queued' = Queued \ {f}
      /\ \A i, j \in 1 .. Len(queue') : queue'[i] = queue'[j] => i = j
  BY <1>1, <1>2, PopQueue
<1> HIDE DEF f
<1>4. /\ RegInv(reg') /\ Loose(reg') = Loose(reg) \ {f}
      /\ \A c \in reg.execUsed : c \in reg'.execUsed /\ reg'.exec[c] = reg.exec[c]
      /\ \A c \in reg.execUsed, i \in Slots : Watch(reg', c, i) = Watch(reg, c, i)
      /\ \A c \in reg'.execUsed \ reg.execUsed : Serves(reg', c)
      /\ Excess(reg') = Excess(reg)
  BY <1>1, <1>2, <1>3, CreateRequestInv
<1>5. ExecInv'
  BY <1>2, <1>4, NewClientStep
<1>6. QueueInv' /\ NoLostWakeup'
  BY <1>1, <1>2, <1>3, <1>4 DEF QueueInv, NoLostWakeup
<1>7. /\ ExpiredInv' /\ BatchInv' /\ phase' \in Phases
      /\ batch' \subseteq Event /\ expired' \subseteq Execs
      /\ runFlag' \in BOOLEAN /\ efd' \in Nat
      /\ phase' # "stopped"
  BY <1>1, <1>2, SamePhase
<1> QED BY <1>3, <1>4, <1>5, <1>6, <1>7 DEF Inv, TypeInv

\* The steps that only move run() on.
LEMMA MoveOnInv ==
  ASSUME Inv, CheckNewFdEnd \/ EndBatch \/ CheckTimeoutEnd \/ CheckTimeout
  PROVE  Inv'
<1>1. /\ UNCHANGED <<reg, runFlag, batch, queue, efd>>
      /\ phase # "stopped" /\ phase' \in {"dispatch", "wait", "timeout"}
  BY DEF CheckNewFdEnd, EndBatch, CheckTimeoutEnd, CheckTimeout
<1>2. ExpiredInv' /\ expired' \subseteq Execs
  <2>1. CASE CheckTimeout
    <3>1. /\ expired' \subseteq {e \in reg.execUsed : reg.exec[e].removeOnTimeout}
          /\ phase' = "timeout" /\ reg' = reg
      BY <2>1 DEF CheckTimeout
    <3>2. /\ reg.exec[ServerExec].removeOnTimeout = FALSE
          /\ reg.exec[NewFdExec].removeOnTimeout = FALSE
          /\ reg.execUsed \subseteq Execs
      BY <1>1, PermanentAssumption
         DEF Inv, ExecInv, InitialRegistry, Permanent, DownExecutorData, RegInv, Registry
    <3> QED BY <3>1, <3>2 DEF ExpiredInv, Live
  <2>2. CASE CheckNewFdEnd \/ EndBatch
    <3>1. expired' = expired /\ phase \notin {"timeout"} /\ phase' # "timeout"
      BY <2>2 DEF CheckNewFdEnd, EndBatch
    <3> QED BY <3>1 DEF Inv, ExpiredInv, TypeInv
  <2>3. CASE CheckTimeoutEnd
    BY <2>3 DEF CheckTimeoutEnd, ExpiredInv
  <2> QED BY <2>1, <2>2, <2>3
<1>3. NoLostWakeup'
  <2>1. CheckNewFdEnd => queue' = <<>>
    BY DEF CheckNewFdEnd
  <2>2. EndBatch \/ CheckTimeoutEnd \/ CheckTimeout => phase # "drain"
    BY DEF EndBatch, CheckTimeoutEnd, CheckTimeout
  <2> QED BY <1>1, <2>1, <2>2 DEF Inv, NoLostWakeup
<1>4. QueueInv' /\ ExecInv' /\ RegInv(reg') /\ BatchInv'
  BY <1>1 DEF Inv, QueueInv, Queued, ExecInv, Live, BatchInv
<1>5. TypeInv'
  BY <1>1, <1>2 DEF Inv, TypeInv, Phases
<1> QED BY <1>1, <1>2, <1>3, <1>4, <1>5 DEF Inv

LEMMA RemoveExpiredInv ==
  ASSUME Inv, NEW e \in expired, RemoveExpired(e)
  PROVE  Inv'
<1>1. /\ phase = "timeout" /\ reg' = removeExecutorData(reg, e)
      /\ expired' = expired \ {e}
      /\ UNCHANGED <<runFlag, phase, batch, queue, efd>>
  BY DEF RemoveExpired
<1>2. e \in Live /\ e \in reg.execUsed /\ expired \subseteq Live
  BY <1>1 DEF Inv, ExpiredInv, Live
<1>3. /\ RegInv(reg') /\ Frame(reg, reg', e) /\ reg'.execUsed = reg.execUsed \ {e}
  BY <1>1, <1>2, RemoveExecutorInv DEF Inv
<1>4. ExecInv' /\ Loose(reg') = Loose(reg)
  BY <1>1, <1>2, <1>3, ConnectionStep DEF Inv
<1>5. QueueInv' /\ BatchInv' /\ NoLostWakeup'
  BY <1>1, <1>4 DEF Inv, QueueInv, Queued, BatchInv, NoLostWakeup
<1>6. ExpiredInv'
  BY <1>1, <1>2, <1>3 DEF ExpiredInv, Live
<1>7. TypeInv'
  BY <1>1 DEF Inv, TypeInv
<1> QED BY <1>1, <1>3, <1>4, <1>5, <1>6, <1>7 DEF Inv

LEMMA EnqueueClientFdInv ==
  ASSUME Inv, EnqueueClientFd
  PROVE  Inv'
<1>1. /\ phase # "stopped" /\ UNCHANGED <<runFlag, phase, batch, expired>>
      /\ \E f \in FreshFds(reg) : EnqueueHere(OpenFd(reg, f), f)
  BY DEF EnqueueClientFd
<1>2. /\ RegInv(reg') /\ QueueInv' /\ ExecInv' /\ NoLostWakeup'
      /\ queue' \in Seq(Fds) /\ efd' \in Nat /\ efd' >= efd
      /\ reg'.execUsed = reg.execUsed
  <2>1. PICK f \in FreshFds(reg) : EnqueueHere(OpenFd(reg, f), f)
    BY <1>1
  <2>2. /\ RegInv(OpenFd(reg, f)) /\ OpenFd(reg, f).execUsed = reg.execUsed
        /\ f \in Loose(OpenFd(reg, f))
    BY FreshFd
  <2>3. reg'.execUsed = reg.execUsed
    BY <2>1, <2>2, CloseLoose DEF EnqueueHere
  <2> QED BY <1>1, <2>1, <2>3, EnqueueInv
<1>3. ExpiredInv'
  BY <1>1, <1>2 DEF Inv, ExpiredInv, Live
<1>4. BatchInv'
  BY <1>1, <1>2 DEF Inv, BatchInv, TypeInv
<1> QED BY <1>1, <1>2, <1>3, <1>4 DEF Inv, TypeInv

LEMMA StopInv ==
  ASSUME Inv, Stop
  PROVE  Inv'
<1>1. /\ phase # "stopped" /\ runFlag' = FALSE /\ efd' = efd + 1
      /\ UNCHANGED <<reg, phase, batch, expired, queue>>
  BY DEF Stop
<1>2. efd \in Nat /\ efd' \in Nat /\ efd' > 0
  BY <1>1 DEF Inv, TypeInv
<1>3. QueueInv' /\ ExecInv' /\ RegInv(reg') /\ BatchInv' /\ ExpiredInv'
  BY <1>1, <1>2 DEF Inv, QueueInv, Queued, ExecInv, Live, BatchInv, ExpiredInv
<1>4. TypeInv' /\ NoLostWakeup'
  BY <1>1, <1>2 DEF Inv, TypeInv, NoLostWakeup
<1> QED BY <1>1, <1>3, <1>4 DEF Inv

\* Different descriptors are reported with different PollData.
LEMMA EpollWaitInv ==
  ASSUME Inv, EpollWait
  PROVE  Inv'
<1>1. /\ phase = "wait" /\ phase' = "dispatch"
      /\ UNCHANGED <<reg, runFlag, expired, queue, efd>>
  BY DEF EpollWait
<1>a. PICK F \in SUBSET {f \in Fds : Reportable(f) # {}} :
        \E ready \in [F -> (SUBSET Events) \ {{}}] :
          /\ \A f \in F : ready[f] \in Reportable(f)
          /\ batch' = {EventOf(f, ready[f]) : f \in F}
  BY DEF EpollWait
<1>2. PICK ready \in [F -> (SUBSET Events) \ {{}}] :
        /\ \A f \in F : ready[f] \in Reportable(f)
        /\ batch' = {EventOf(f, ready[f]) : f \in F}
  BY <1>a
<1>3. RegInv(reg) /\ ExecInv /\ reg \in Registry
  BY <1>1 DEF Inv, RegInv
<1>4. \A f \in F :
        /\ f \in Fds /\ reg.epoll[f].ptr # None
        /\ reg.epoll[f].ptr \in reg.pollUsed /\ reg.epoll[f].ptr \in PollDatas
        /\ reg.poll[reg.epoll[f].ptr].fd = f
        /\ reg.poll[reg.epoll[f].ptr].execData \in Execs
  <2> TAKE f \in F
  <2>1. f \in Fds /\ reg.epoll[f].ptr # None
    BY <1>2 DEF Reportable
  <2>2. /\ reg.epoll[f].ptr \in reg.pollUsed /\ reg.poll[reg.epoll[f].ptr].fd = f
    BY <2>1, <1>3 DEF RegInv, EpollInv
  <2>3. reg.epoll[f].ptr \in PollDatas
    BY <2>2, <1>3 DEF Registry
  <2>4. reg.poll[reg.epoll[f].ptr].execData \in reg.execUsed
    BY <2>2, <2>3, <1>3 DEF RegInv, PollInv
  <2> QED BY <2>1, <2>2, <2>3, <2>4, <1>3 DEF Registry
<1>5. batch' \subseteq Event
  <2>1. \A f \in F : EventOf(f, ready[f]) \in Event
    BY <1>2, <1>4 DEF EventOf, Event
  <2> QED BY <1>2, <2>1
<1>6. \A ev \in batch' : \E f \in F :
        /\ ev = EventOf(f, ready[f]) /\ ev.pollData = reg.epoll[f].ptr
        /\ ev.events \in Reportable(f)
  BY <1>2 DEF EventOf
<1>7. \A ev, fv \in batch' : ev.pollData = fv.pollData => ev = fv
  BY <1>4, <1>6
<1>8. /\ reg.poll[ServerPoll].fd = ListenFd /\ reg.poll[NewFdPoll].fd = EventFd
  <2>1. /\ Pd(reg, ServerExec, 0) = ServerPoll /\ Fd(reg, ServerExec, 0) = ListenFd
        /\ Pd(reg, NewFdExec, 0) = NewFdPoll /\ Fd(reg, NewFdExec, 0) = EventFd
    <3>1. /\ reg.exec[ServerExec] = Permanent("server", ListenFd, ServerPoll)
          /\ reg.exec[NewFdExec] = Permanent("newFd", EventFd, NewFdPoll)
      <4>1. /\ reg.exec[ServerExec] = InitialRegistry.exec[ServerExec]
            /\ reg.exec[NewFdExec] = InitialRegistry.exec[NewFdExec]
        BY <1>3 DEF ExecInv
      <4> QED BY <4>1, PermanentAssumption DEF InitialRegistry
    <3>2. ASSUME NEW kind, NEW fd, NEW p
          PROVE  Permanent(kind, fd, p).fd0 = fd /\ Permanent(kind, fd, p).pollData0 = p
      BY DEF Permanent, DownExecutorData
    <3> QED BY <3>1, <3>2 DEF Pd, Fd
  <2>2. ServerPoll # None /\ NewFdPoll # None /\ ServerExec \in Execs /\ NewFdExec \in Execs
    BY PermanentAssumption, NoneAssumption
  <2>3. /\ Pd(reg, ServerExec, 0) # None /\ Pd(reg, NewFdExec, 0) # None /\ 0 \in Slots
    BY <2>1, <2>2 DEF Slots
  <2>4. /\ reg.poll[Pd(reg, ServerExec, 0)] =
             [fd |-> Fd(reg, ServerExec, 0), execData |-> ServerExec]
        /\ reg.poll[Pd(reg, NewFdExec, 0)] =
             [fd |-> Fd(reg, NewFdExec, 0), execData |-> NewFdExec]
    BY <1>3, <2>2, <2>3 DEF RegInv, SlotInv
  <2> QED BY <2>1, <2>4
<1>9. \A ev \in batch' :
        /\ ev.pollData \in {ServerPoll, NewFdPoll} => ev.events = {"IN"}
        /\ ev.pollData = NewFdPoll => efd > 0
  <2> TAKE ev \in batch'
  <2>1. PICK f \in F : ev.pollData = reg.epoll[f].ptr /\ ev.events \in Reportable(f)
    BY <1>6
  <2>2. CASE ev.pollData = NewFdPoll
    <3>1. f = EventFd
      BY <2>1, <2>2, <1>4, <1>8
    <3> QED BY <2>1, <2>2, <3>1, <1>4 DEF Reportable
  <2>3. CASE ev.pollData = ServerPoll
    <3>1. f = ListenFd
      BY <2>1, <2>3, <1>4, <1>8
    <3> QED BY <2>1, <2>3, <3>1, <1>4, PermanentAssumption DEF Reportable
  <2> QED BY <2>2, <2>3
<1>10. BatchInv'
  BY <1>1, <1>7, <1>9 DEF BatchInv
<1>11. QueueInv' /\ ExecInv' /\ RegInv(reg') /\ NoLostWakeup'
  BY <1>1, <1>3 DEF Inv, QueueInv, Queued, ExecInv, Live, NoLostWakeup
<1>12. TypeInv' /\ ExpiredInv'
  BY <1>1, <1>5 DEF Inv, TypeInv, ExpiredInv, Phases
<1> QED BY <1>1, <1>10, <1>11, <1>12 DEF Inv

LEMMA NextInv == Inv /\ [Next]_vars => Inv'
<1> SUFFICES ASSUME Inv, [Next]_vars PROVE Inv'
  OBVIOUS
<1>1. CASE EpollWait
  BY <1>1, EpollWaitInv
<1>2. ASSUME NEW ev \in batch, SkipFreed(ev) PROVE Inv'
  BY <1>2, SkipFreedInv
<1>3. ASSUME NEW ev \in batch, Hangup(ev) PROVE Inv'
  BY <1>3, HangupInv
<1>4. ASSUME NEW ev \in batch, Process(ev) PROVE Inv'
  BY <1>4, ProcessInv
<1>5. ASSUME NEW ev \in batch, Accept(ev) PROVE Inv'
  BY <1>5, AcceptInv
<1>6. ASSUME NEW ev \in batch, AcceptFails(ev) PROVE Inv'
  BY <1>6, DestroyStep DEF AcceptFails
<1>7. ASSUME NEW ev \in batch, NewFd(ev) PROVE Inv'
  BY <1>7, NewFdInv
<1>8. CASE CheckNewFd
  BY <1>8, CheckNewFdInv
<1>9. CASE CheckNewFdEnd \/ EndBatch \/ CheckTimeout \/ CheckTimeoutEnd
  BY <1>9, MoveOnInv
<1>10. ASSUME NEW e \in expired, RemoveExpired(e) PROVE Inv'
  BY <1>10, RemoveExpiredInv
<1>11. CASE LeaveRun
  BY <1>11, DestroyStep DEF LeaveRun
<1>12. CASE EnqueueClientFd
  BY <1>12, EnqueueClientFdInv
<1>13. CASE Stop
  BY <1>13, StopInv
<1>14. CASE UNCHANGED vars
  BY <1>14 DEF vars, Inv, TypeInv, QueueInv, Queued, ExpiredInv, BatchInv, ExecInv, Live,
               NoLostWakeup
<1>15. CASE Stopped
  BY <1>14, <1>15 DEF Stopped
<1> QED BY <1>1, <1>2, <1>3, <1>4, <1>5, <1>6, <1>7, <1>8, <1>9, <1>10, <1>11,
           <1>12, <1>13, <1>14, <1>15 DEF Next

----------------------------------------------------------------------------
(* The theorems. *)

\* The inductive invariant holds in every state of every behaviour of run().
THEOREM Invariance == Spec => []Inv
BY InitInv, NextInv, PTL DEF Spec

\* The variables keep their types whatever the executors' handlers do.
THEOREM TypeCorrect == Spec => []TypeOK
<1>1. Inv => TypeOK
  BY DEF Inv, TypeInv, TypeOK, RegInv
<1> QED BY <1>1, Invariance, PTL

\* PollData, ExecutorData and the interest list always agree: addPollFd,
\* removePollFd, removeExecutorData and the executors keep them so.
THEOREM Consistency == Spec => []PollDataConsistent
<1>1. Inv => PollDataConsistent
  <2> SUFFICES ASSUME Inv PROVE PollDataConsistent
    OBVIOUS
  <2>1. RegInv(reg) /\ reg \in Registry
    BY DEF Inv, RegInv
  <2>2. \A e, p : p \in {reg.exec[e].pollData0, reg.exec[e].pollData1} <=>
                    \E i \in Slots : Pd(reg, e, i) = p
    BY DEF Pd, Slots
  <2>3. \A p \in PollDatas :
          IF p \in reg.pollUsed
          THEN /\ reg.poll[p].execData \in reg.execUsed
               /\ p \in {reg.exec[reg.poll[p].execData].pollData0,
                         reg.exec[reg.poll[p].execData].pollData1}
               /\ reg.poll[p].fd # None
               /\ reg.epoll[reg.poll[p].fd].ptr = p
          ELSE reg.poll[p] = DownPollData
    <3> TAKE p \in PollDatas
    <3>1. CASE p \in reg.pollUsed
      <4> DEFINE e == reg.poll[p].execData
      <4>1. e \in reg.execUsed /\ reg.poll[p].fd # None /\ p # None
        BY <2>1, <3>1, NoneAssumption DEF RegInv, PollInv
      <4>2. e \in Execs
        BY <2>1, <4>1 DEF Registry
      <4>3. PICK i \in Slots : Pd(reg, e, i) = p
        BY <2>1, <3>1 DEF RegInv, PollInv
      <4> HIDE DEF e
      <4>4. reg.poll[p] = [fd |-> Fd(reg, e, i), execData |-> e] /\ reg.epoll[Fd(reg, e, i)].ptr = p
        BY <2>1, <4>1, <4>2, <4>3 DEF RegInv, SlotInv
      <4>5. reg.epoll[reg.poll[p].fd].ptr = p
        BY <4>4
      <4> QED BY <2>2, <3>1, <4>1, <4>3, <4>5 DEF e
    <3>2. CASE p \notin reg.pollUsed
      BY <2>1, <3>2 DEF RegInv, PollInv
    <3> QED BY <3>1, <3>2
  <2>4. \A e \in Execs : \A p \in PollDatas :
          p \in {reg.exec[e].pollData0, reg.exec[e].pollData1} =>
            p \in reg.pollUsed /\ reg.poll[p].execData = e
    <3> TAKE e \in Execs
    <3> TAKE p \in PollDatas
    <3> HAVE p \in {reg.exec[e].pollData0, reg.exec[e].pollData1}
    <3>1. PICK i \in Slots : Pd(reg, e, i) = p
      BY <2>2
    <3>2. p \in reg.pollUsed /\ reg.poll[p] = [fd |-> Fd(reg, e, i), execData |-> e]
      BY <2>1, <3>1, NoneAssumption DEF RegInv, SlotInv
    <3> QED BY <3>2
  <2> QED BY <2>1, <2>3, <2>4 DEF PollDataConsistent, RegInv, EpollInv
<1> QED BY <1>1, Invariance, PTL

\* Every open descriptor has exactly one owner, an executor in use or
\* newFdsQueue: no double close, no leak.
THEOREM Ownership == Spec => []FdOwnership
<1>1. Inv => FdOwnership
  <2> SUFFICES ASSUME Inv PROVE FdOwnership
    OBVIOUS
  <2>1. /\ reg \in Registry /\ FdInv(reg) /\ Loose(reg) = Queued
        /\ \A i, j \in 1 .. Len(queue) : queue[i] = queue[j] => i = j
    BY DEF Inv, RegInv, QueueInv
  <2>2. \A h \in Held : /\ h[1] \in Execs /\ h[2] \in Slots /\ h = <<h[1], h[2]>>
                        /\ HeldFd(h) = Fd(reg, h[1], h[2]) /\ HeldFd(h) # None
    BY DEF Held, HeldFd, Fd, Slots
  <2>3. \A e \in Execs, i \in Slots : Fd(reg, e, i) # None =>
          <<e, i>> \in Held /\ HeldFd(<<e, i>>) = Fd(reg, e, i)
    BY DEF Held, HeldFd, Fd, Slots
  <2>4. \A g, h \in Held : HeldFd(g) = HeldFd(h) => g = h
    BY <2>1, <2>2 DEF FdInv
  <2>5. \A h \in Held : HeldFd(h) \in reg.open /\ HeldFd(h) \notin Queued
    BY <2>1, <2>2 DEF FdInv, Loose, Unheld
  <2>6. \A h \in Held : h[1] \in reg.execUsed
    <3> TAKE h \in Held
    <3> SUFFICES ASSUME h[1] \notin reg.execUsed PROVE FALSE
      OBVIOUS
    <3>1. reg.exec[h[1]] = DownExecutorData
      BY <2>1, <2>2 DEF FdInv
    <3> QED BY <2>2, <3>1 DEF Fd, DownExecutorData
  <2>7. \A f : f \in reg.open => f \in Queued \/ \E h \in Held : f = HeldFd(h)
    <3> TAKE f
    <3> HAVE f \in reg.open
    <3>1. f # None
      BY <2>1, NoneAssumption DEF Registry
    <3> QED BY <2>1, <2>3, <3>1 DEF Loose, Unheld
  <2>8. reg.open = {HeldFd(h) : h \in Held} \cup Queued
    BY <2>1, <2>5, <2>7 DEF Loose
  <2> QED BY <2>1, <2>4, <2>5, <2>6, <2>8 DEF FdOwnership
<1> QED BY <1>1, Invariance, PTL

\* A client in newFdsQueue is always about to be drained: the event descriptor
\* is readable or checkNewFd() runs.
THEOREM Wakeup == Spec => []NoLostWakeup
<1>1. Inv => NoLostWakeup
  BY DEF Inv
<1> QED BY <1>1, Invariance, PTL

\* eventfd_read is only called when the event descriptor's counter is not 0.
THEOREM Readable == Spec => []EventFdReadable
<1>1. Inv => EventFdReadable
  <2> SUFFICES ASSUME Inv, NEW ev \in batch, Target(ev) = NewFdExec PROVE efd > 0
    BY DEF EventFdReadable
  <2>1. phase # "stopped" /\ ExecInv
    BY DEF Inv
  <2>2. NewFdExec # None /\ reg.exec[NewFdExec].state = "ok"
    BY <2>1, PermanentAssumption, NoneAssumption
       DEF ExecInv, InitialRegistry, Permanent, DownExecutorData
  <2>3. Dispatchable(ev)
    BY <2>2 DEF Dispatchable
  <2>4. ev.pollData = NewFdPoll
    BY <2>3, TargetFacts
  <2> QED BY <2>4 DEF Inv, BatchInv
<1> QED BY <1>1, Invariance, PTL

\* The listening executor and the event descriptor's are never removed by a
\* stale event or by checkTimeout() while the loop lives.
THEOREM Permanence == Spec => []PermanentStay
<1>1. Inv => PermanentStay
  BY DEF Inv, ExecInv, PermanentStay
<1> QED BY <1>1, Invariance, PTL

\* The kernel watches one descriptor for every PollData in use.
LEMMA PolledCount ==
  ASSUME NEW r, RegInv(r)
  PROVE  Cardinality({f \in Fds : r.epoll[f].ptr # None}) = Cardinality(r.pollUsed)
<1> DEFINE F == {f \in Fds : r.epoll[f].ptr # None}
           g == [f \in F |-> r.epoll[f].ptr]
<1>t. r \in Registry /\ r.pollUsed \subseteq PollDatas
  BY DEF RegInv, Registry
<1>1. \A f \in F : r.epoll[f].ptr \in r.pollUsed /\ r.poll[r.epoll[f].ptr].fd = f
  BY DEF RegInv, EpollInv
<1>2. \A p \in r.pollUsed : \E f \in F : r.epoll[f].ptr = p
  <2> TAKE p \in r.pollUsed
  <2> DEFINE e == r.poll[p].execData
  <2>1. p \in PollDatas /\ p # None
    BY <1>t, NoneAssumption
  <2>2. e \in r.execUsed /\ \E i \in Slots : Pd(r, e, i) = p
    BY <2>1 DEF RegInv, PollInv
  <2>3. PICK i \in Slots : Pd(r, e, i) = p
    BY <2>2
  <2> HIDE DEF e
  <2>4. e \in Execs
    BY <1>t, <2>2 DEF Registry
  <2>5. Fd(r, e, i) # None /\ r.epoll[Fd(r, e, i)].ptr = p
    BY <2>1, <2>3, <2>4 DEF RegInv, SlotInv
  <2>6. Fd(r, e, i) \in Fds
    BY <1>t, <2>4, <2>5 DEF Fd, Registry, ExecutorData
  <2> QED BY <2>1, <2>5, <2>6
<1>3. g \in Injection(F, r.pollUsed)
  <2>1. g \in [F -> r.pollUsed]
    BY <1>1
  <2>2. \A a, b \in F : g[a] = g[b] => a = b
    BY <1>1
  <2> HIDE DEF g, F
  <2> QED BY <2>1, <2>2 DEF Injection, IsInjective
<1>4. g \in Surjection(F, r.pollUsed)
  <2>1. g \in [F -> r.pollUsed]
    BY <1>1
  <2>2. \A p \in r.pollUsed : \E f \in F : g[f] = p
    BY <1>2
  <2> HIDE DEF g, F
  <2> QED BY <2>1, <2>2 DEF Surjection
<1>5. IsFiniteSet(r.pollUsed)
  BY <1>t, LoadType
<1> HIDE DEF g
<1>6. Cardinality(F) = Cardinality(r.pollUsed)
  <2> HIDE DEF F
  <2> QED BY <1>3, <1>4, <1>5, FS_Injection
<1> QED BY <1>6

\* While the loop lives, what Server::createRequestExecutor balances the load on
\* is the number of descriptors registered with epoll, whichever of the calls
\* that change either failed on the way.
THEOREM LoadIsExact == Spec => []LoadIsRegistered
<1>1. Inv => LoadIsRegistered
  <2> SUFFICES ASSUME Inv, phase # "stopped"
               PROVE  reg.numOfPollFds =
                        Cardinality({f \in Fds : reg.epoll[f].ptr # None})
    BY DEF LoadIsRegistered
  <2>1. RegInv(reg) /\ Excess(reg) = 0 /\ reg \in Registry
    BY DEF Inv, ExecInv, RegInv
  <2>2. reg.numOfPollFds = Cardinality(reg.pollUsed)
    BY <2>1, LoadType DEF Excess
  <2> QED BY <2>1, <2>2, PolledCount
<1> QED BY <1>1, Invariance, PTL

\* What is watched for a slot is what the kernel holds for its descriptor.
LEMMA WatchPolled ==
  ASSUME RegInv(reg), NEW e \in Execs, NEW i \in Slots, NEW flag \in Watch(reg, e, i)
  PROVE  Polled(Fd(reg, e, i), flag)
BY DEF Watch, Polled, RegInv, SlotInv

\* No connection is left waiting for an event the kernel does not watch for: the
\* splice proxy's handlers, on every path that keeps the connection, leave the
\* client polled while the pipe holds bytes and the backend polled when it is
\* empty.
THEOREM NeverStuck == Spec => []ConnectionsArmed
<1>1. Inv => ConnectionsArmed
  <2> SUFFICES ASSUME Inv, NEW e \in Live PROVE Armed(reg.exec[e])
    BY DEF ConnectionsArmed
  <2>1. RegInv(reg) /\ reg.execUsed \subseteq Execs
    BY DEF Inv, RegInv, Registry
  <2>2. e \in reg.execUsed /\ e \in Execs
    BY <2>1 DEF Live
  <2>3. Watched(reg, e)
    BY <2>2 DEF Inv, ExecInv, Serves
  <2> DEFINE d == reg.exec[e]
  <2>4. /\ Fd(reg, e, 0) = d.fd0 /\ Fd(reg, e, 1) = d.fd1
        /\ Pd(reg, e, 0) = d.pollData0 /\ 0 \in Slots /\ 1 \in Slots
    BY SlotNames
  <2>5. /\ \A flag \in Watch(reg, e, 0) : Polled(d.fd0, flag)
        /\ \A flag \in Watch(reg, e, 1) : Polled(d.fd1, flag)
    <3> HIDE DEF d
    <3> QED BY <2>1, <2>2, <2>4, WatchPolled
  <2>6. CASE d.state = "readRequest"
    BY <2>3, <2>5, <2>6 DEF Watched, Armed
  <2>7. CASE d.state \in {"sendHeaders", "sendOnlyHeaders", "sendFile"}
    BY <2>3, <2>5, <2>7 DEF Watched, Armed
  <2>8. CASE d.state \in {"waitConnect", "forwardRequest"}
    BY <2>3, <2>5, <2>8 DEF Watched, Armed
  <2>9. CASE d.state = "forwardResponse"
    <3>1. /\ Piped(reg, e)
          /\ IF d.bytesInPipe > 0 THEN Pd(reg, e, 0) # None
             ELSE Pd(reg, e, 0) = None /\ Pd(reg, e, 1) # None
      BY <2>3, <2>9 DEF Watched
    <3> QED BY <2>4, <2>5, <2>9, <3>1 DEF Piped, Armed
  <2>10. CASE d.state = "forwardResponseOnlyWrite"
    BY <2>3, <2>5, <2>10 DEF Watched, Piped, Armed
  <2> QED BY <2>3, <2>6, <2>7, <2>8, <2>9, <2>10 DEF Watched
<1> QED BY <1>1, Invariance, PTL

=============================================================================
