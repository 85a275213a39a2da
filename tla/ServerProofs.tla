------------------------------ MODULE ServerProofs ------------------------------
(***************************************************************************)
(* The threads of the server, for any number of loops, clients and ports   *)
(* and any capacity of a queue: loads are counted, a queued client has a   *)
(* wake-up under way, and the server implements the hand-off.              *)
(***************************************************************************)
EXTENDS Server, FiniteSetTheorems, SequenceTheorems, TLAPS

In(q) == {q[i] : i \in 1 .. Len(q)}
NoDup(q) == \A i, j \in 1 .. Len(q) : q[i] = q[j] => i = j

\* The client that loop l has accepted and not given away yet.
Accepted(l) == {scan[l].client} \ {NoClient}

\* What a thread may hold where it is.
Control ==
  /\ main.pc = "spawn" => \A l \in Loops : l >= main.i => pc[l] = "none"
  /\ \A l \in Loops :
       /\ pc[l] \in {"none", "start", "wait", "dead"} => ready[l] = {}
       /\ pc[l] \in {"scan", "push", "notify"} => "client" \notin ready[l]
       /\ scan[l].client # NoClient <=>
            "client" \in ready[l] \/ pc[l] \in {"scan", "push"}

\* A client is in one place at most.
Apart ==
  /\ \A l \in Loops : NoDup(queue[l])
  /\ \A l, k \in Loops : l # k =>
       /\ Accepted(l) \cap Accepted(k) = {}
       /\ In(queue[l]) \cap In(queue[k]) = {}
       /\ served[l] \cap served[k] = {}
  /\ \A l, k \in Loops :
       /\ Accepted(l) \cap In(queue[k]) = {}
       /\ Accepted(l) \cap served[k] = {}
       /\ In(queue[l]) \cap served[k] = {}
  /\ \A l \in Loops : (Accepted(l) \cup In(queue[l]) \cup served[l]) \cap closed = {}

\* A client that has connected is in some place, and no other is.
Kept ==
  came = closed \cup UNION {Accepted(l) \cup In(queue[l]) \cup served[l] : l \in Loops}

\* The inductive invariant.
Inv == TypeOK /\ Control /\ Apart /\ Kept /\ LoadCounted /\ WakeupPending

----------------------------------------------------------------------------
(* Queues *)

LEMMA InType ==
  ASSUME NEW q \in Seq(Clients)
  PROVE  In(q) \subseteq Clients /\ (In(q) = {} <=> q = <<>>)
BY DEF In

LEMMA EmptyIn == In(<<>>) = {} /\ NoDup(<<>>) /\ <<>> \in Seq(Clients)
BY DEF In, NoDup

LEMMA AppendIn ==
  ASSUME NEW q \in Seq(Clients), NEW c \in Clients
  PROVE  /\ Append(q, c) \in Seq(Clients) /\ Append(q, c) # <<>>
         /\ In(Append(q, c)) = In(q) \cup {c}
         /\ NoDup(q) /\ c \notin In(q) => NoDup(Append(q, c))
<1>1. /\ Append(q, c) \in Seq(Clients) /\ Len(Append(q, c)) = Len(q) + 1
      /\ \A i \in 1 .. Len(q) : Append(q, c)[i] = q[i]
      /\ Append(q, c)[Len(q) + 1] = c /\ Len(q) \in Nat
  OBVIOUS
<1>2. In(Append(q, c)) = In(q) \cup {c}
  BY <1>1 DEF In
<1>3. NoDup(q) /\ c \notin In(q) => NoDup(Append(q, c))
  BY <1>1 DEF In, NoDup
<1> QED BY <1>1, <1>2, <1>3

LEMMA TailIn ==
  ASSUME NEW q \in Seq(Clients), q # <<>>, NoDup(q)
  PROVE  /\ Head(q) \in In(q) /\ Tail(q) \in Seq(Clients)
         /\ In(Tail(q)) = In(q) \ {Head(q)} /\ NoDup(Tail(q))
<1>1. /\ Tail(q) \in Seq(Clients) /\ Len(q) \in Nat /\ Len(q) > 0
      /\ Len(Tail(q)) = Len(q) - 1 /\ Head(q) = q[1]
      /\ \A i \in 1 .. Len(q) - 1 : Tail(q)[i] = q[i + 1]
  OBVIOUS
<1>2. Head(q) \in In(q)
  BY <1>1 DEF In
<1>3. In(Tail(q)) = In(q) \ {Head(q)}
  <2>1. ASSUME NEW x \in In(Tail(q)) PROVE x \in In(q) \ {Head(q)}
    BY <1>1, <2>1 DEF In, NoDup
  <2>2. ASSUME NEW x \in In(q), x # Head(q) PROVE x \in In(Tail(q))
    <3>1. PICK i \in 1 .. Len(q) : x = q[i]
      BY DEF In
    <3>2. i - 1 \in 1 .. Len(q) - 1 /\ Tail(q)[i - 1] = q[i]
      BY <1>1, <2>2, <3>1
    <3> QED BY <1>1, <3>1, <3>2 DEF In
  <2> QED BY <2>1, <2>2
<1>4. NoDup(Tail(q))
  BY <1>1 DEF NoDup
<1> QED BY <1>1, <1>2, <1>3, <1>4

----------------------------------------------------------------------------
(* Types *)

\* The loads are numbers.
LEMMA LoadType ==
  ASSUME NEW l \in Loops, NEW n \in 1 .. MaxThreads
  PROVE  BasePollFds(l, n) \in Nat
<1>1. IsFiniteSet(PortsOf(l, n))
  <2>1. IsFiniteSet(0 .. Ports - 1)
    BY FS_Interval, ServerAssumption
  <2>2. PortsOf(l, n) \subseteq 0 .. Ports - 1
    BY DEF PortsOf
  <2> QED BY <2>1, <2>2, FS_Subset
<1> QED BY <1>1, FS_CardinalityType DEF BasePollFds

LEMMA ServedFinite ==
  ASSUME NEW S \in SUBSET Clients
  PROVE  IsFiniteSet(S) /\ Cardinality(S) \in Nat
BY FS_Subset, FS_CardinalityType, ServerAssumption

LEMMA NoScanType == NoScan \in Scan /\ NoScan.client = NoClient
BY ServerAssumption DEF NoScan, Scan, Loops, IntMax

LEMMA ClientReset ==
  ASSUME NEW s \in Scan
  PROVE  /\ [s EXCEPT !.client = NoClient] \in Scan
         /\ [s EXCEPT !.client = NoClient].client = NoClient
         /\ [s EXCEPT !.client = NoClient].minIndex = s.minIndex
BY DEF Scan

LEMMA InitInv == Init => Inv
<1> SUFFICES ASSUME Init PROVE Inv
  OBVIOUS
<1>1. TypeOK
  <2>1. numOfPollFds \in [Loops -> Int]
    BY LoadType DEF Init, threadCount
  <2>2. /\ main.pc = "spawn" /\ main.i = 0 /\ main.threadCount \in 1 .. MaxThreads
        /\ main \in [pc : MainPcs, i : Threads, threadCount : 1 .. MaxThreads]
    BY DEF Init, MainPcs, Threads, threadCount
  <2> QED BY <2>1, <2>2, NoScanType DEF Init, TypeOK, LoopPcs
<1>2. Control
  BY NoScanType DEF Init, Control
<1>3. \A l \in Loops : Accepted(l) = {} /\ In(queue[l]) = {} /\ served[l] = {}
  BY NoScanType, EmptyIn DEF Init, Accepted
<1>4. Apart
  BY <1>3, EmptyIn DEF Apart, Init
<1>5. Kept
  BY <1>3 DEF Kept, Init
<1>6. LoadCounted
  BY LoadType, FS_EmptySet DEF LoadCounted, Init, threadCount
<1>7. WakeupPending
  BY DEF WakeupPending, Init
<1> QED BY <1>1, <1>2, <1>4, <1>5, <1>6, <1>7 DEF Inv

----------------------------------------------------------------------------
(* What a step leaves alone *)

LEMMA SamePlaces ==
  ASSUME Apart, Kept, UNCHANGED <<came, queue, served, closed>>,
         \A l \in Loops : scan'[l].client = scan[l].client
  PROVE  Apart' /\ Kept'
BY DEF Apart, Kept, Accepted

LEMMA SameLoad ==
  ASSUME LoadCounted, UNCHANGED <<numOfPollFds, served>>,
         main'.threadCount = main.threadCount,
         \A l \in Loops : pc[l] = "dead" => pc'[l] = "dead"
  PROVE  LoadCounted'
BY DEF LoadCounted, Alive, threadCount

LEMMA SameWakeup ==
  ASSUME WakeupPending, UNCHANGED <<queue, efd>>,
         \A l \in Loops : /\ pc[l] = "dead" => pc'[l] = "dead"
                          /\ pc[l] = "drain" => pc'[l] = "drain"
                          /\ pc[l] = "notify" =>
                               pc'[l] = "notify" /\ scan'[l].minIndex = scan[l].minIndex
  PROVE  WakeupPending'
BY DEF WakeupPending, Alive

----------------------------------------------------------------------------
(* main() *)

LEMMA MainType ==
  ASSUME NEW m \in [pc : MainPcs, i : Nat, threadCount : 1 .. MaxThreads],
         NEW p \in MainPcs, NEW i \in Nat
  PROVE  [m EXCEPT !.pc = p, !.i = i] \in
           [pc : MainPcs, i : Nat, threadCount : 1 .. MaxThreads]
OBVIOUS

LEMMA AdvanceType ==
  ASSUME TypeOK, NEW here \in MainPcs, NEW after \in MainPcs, Advance(here, after)
  PROVE  /\ main' \in [pc : MainPcs, i : Threads, threadCount : 1 .. MaxThreads]'
         /\ main'.threadCount = main.threadCount
         /\ \/ main'.pc = here /\ main'.i = main.i + 1
            \/ main'.pc = after /\ main'.i = 0
<1>1. /\ main.i \in 0 .. main.threadCount - 1 /\ main.threadCount \in 1 .. MaxThreads
      /\ main \in [pc : MainPcs, i : Threads, threadCount : 1 .. MaxThreads]
      /\ MaxThreads \in Nat
  BY ServerAssumption DEF TypeOK, Threads, threadCount
<1>2. main'.threadCount = main.threadCount
  BY <1>1 DEF Advance
<1>3. \/ main'.pc = here /\ main'.i = main.i + 1 /\ main.i + 1 < main.threadCount
      \/ main'.pc = after /\ main'.i = 0
  BY <1>1 DEF Advance, threadCount
<1>4. main' \in [pc : MainPcs, i : Nat, threadCount : 1 .. MaxThreads]
  <2>1. main \in [pc : MainPcs, i : Nat, threadCount : 1 .. MaxThreads]
    BY <1>1 DEF Threads, threadCount
  <2>2. CASE main.i + 1 < main.threadCount
    <3>1. main.i + 1 \in Nat
      BY <1>1
    <3> QED BY <2>1, <2>2, <3>1, MainType DEF Advance, threadCount
  <2>3. CASE ~(main.i + 1 < main.threadCount)
    BY <2>1, <2>3, MainType DEF Advance, threadCount
  <2> QED BY <2>2, <2>3
<1> QED BY <1>1, <1>2, <1>3, <1>4 DEF Threads, threadCount

LEMMA MainInLoops ==
  ASSUME TypeOK
  PROVE  main.i \in Loops /\ main.i \in Nat /\ Threads \subseteq Loops
<1>1. threadCount \in 1 .. MaxThreads /\ main.i \in Threads
  BY DEF TypeOK, threadCount
<1>2. threadCount \in Nat /\ MaxThreads \in Nat /\ threadCount <= MaxThreads
  BY <1>1, ServerAssumption
<1>3. Threads \subseteq Loops
  BY <1>2 DEF Threads, Loops
<1>4. main.i \in Loops
  BY <1>1, <1>3
<1>5. main.i \in Nat
  BY <1>1, <1>2 DEF Threads
<1> QED BY <1>3, <1>4, <1>5

LEMMA SpawnInv == Inv /\ Spawn => Inv'
<1> SUFFICES ASSUME Inv, Spawn PROVE Inv'
  OBVIOUS
<1> USE DEF Inv
<1>1. /\ "spawn" \in MainPcs /\ "serve" \in MainPcs
      /\ pc[main.i] = "none" /\ main.i \in Loops /\ main.i \in Nat
      /\ pc' = [pc EXCEPT ![main.i] = "start"] /\ pc \in [Loops -> LoopPcs]
      /\ UNCHANGED <<runFlag, ready, came, scan, queue, efd, numOfPollFds, served, closed>>
  BY MainInLoops DEF Spawn, Control, MainPcs, TypeOK
<1>2. /\ main' \in [pc : MainPcs, i : Threads, threadCount : 1 .. MaxThreads]'
      /\ main'.threadCount = main.threadCount
      /\ main'.pc = "spawn" => main'.i = main.i + 1
  BY AdvanceType, <1>1 DEF Spawn
<1>3. TypeOK'
  BY <1>1, <1>2 DEF TypeOK, LoopPcs
<1>4. Control'
  BY <1>1, <1>2, ServerAssumption DEF Control, Spawn, Loops
<1>5. Apart' /\ Kept'
  BY <1>1, SamePlaces
<1>6. LoadCounted' /\ WakeupPending'
  BY <1>1, <1>2, SameLoad, SameWakeup
<1> QED BY <1>3, <1>4, <1>5, <1>6

LEMMA MainInv ==
  ASSUME Inv, Interrupt \/ ClearFlag \/ Join \/ Exit
  PROVE  Inv'
<1> USE DEF Inv
<1>1. UNCHANGED <<pc, ready, came, scan, queue, efd, numOfPollFds, served, closed>>
  BY DEF Interrupt, ClearFlag, Join, Exit, vars
<1>2. /\ main' \in [pc : MainPcs, i : Threads, threadCount : 1 .. MaxThreads]'
      /\ main'.threadCount = main.threadCount
      /\ runFlag' \in [Loops -> BOOLEAN]
      /\ main'.pc = "spawn" => main'.i = main.i /\ main.pc = "spawn"
  <2>1. CASE Interrupt
    BY <2>1 DEF Interrupt, TypeOK, MainPcs, Threads, threadCount
  <2>2. CASE ClearFlag
    BY <2>2 DEF ClearFlag, TypeOK, MainPcs, Threads, threadCount
  <2>3. CASE Join
    BY <2>3, AdvanceType DEF Join, TypeOK, MainPcs
  <2>4. CASE Exit
    BY <2>4 DEF Exit, TypeOK, vars, Threads, threadCount
  <2> QED BY <2>1, <2>2, <2>3, <2>4
<1>3. TypeOK'
  BY <1>1, <1>2 DEF TypeOK
<1>4. Control'
  BY <1>1, <1>2 DEF Control
<1>5. Apart' /\ Kept'
  BY <1>1, SamePlaces
<1>6. LoadCounted' /\ WakeupPending'
  BY <1>1, <1>2, SameLoad, SameWakeup
<1> QED BY <1>3, <1>4, <1>5, <1>6

LEMMA WakeLoopInv == Inv /\ WakeLoop => Inv'
<1> SUFFICES ASSUME Inv, WakeLoop PROVE Inv'
  OBVIOUS
<1> USE DEF Inv
<1>1. /\ "flag" \in MainPcs /\ "join" \in MainPcs /\ main.i \in Loops
      /\ efd' = IF pc[main.i] = "dead" THEN efd ELSE [efd EXCEPT ![main.i] = @ + 1]
      /\ efd \in [Loops -> Nat]
      /\ UNCHANGED <<pc, runFlag, ready, came, scan, queue, numOfPollFds, served, closed>>
  BY MainInLoops DEF WakeLoop, MainPcs, TypeOK, eventfd_write
<1>2. /\ main' \in [pc : MainPcs, i : Threads, threadCount : 1 .. MaxThreads]'
      /\ main'.threadCount = main.threadCount /\ main'.pc # "spawn"
  BY AdvanceType, <1>1 DEF WakeLoop
<1>3. efd' \in [Loops -> Nat] /\ \A l \in Loops : efd'[l] >= efd[l]
  BY <1>1
<1>4. TypeOK'
  BY <1>1, <1>2, <1>3 DEF TypeOK
<1>5. Control'
  BY <1>1, <1>2 DEF Control
<1>6. Apart' /\ Kept'
  BY <1>1, SamePlaces
<1>7. LoadCounted'
  BY <1>1, <1>2, SameLoad
<1>8. WakeupPending'
  BY <1>1, <1>3 DEF WakeupPending, Alive
<1> QED BY <1>4, <1>5, <1>6, <1>7, <1>8

----------------------------------------------------------------------------
(* PollLoop::run() *)

LEMMA RunInv == ASSUME NEW l \in Loops, Inv, Run(l) PROVE Inv'
<1> USE DEF Inv
<1>1. /\ pc[l] = "start" /\ pc' = [pc EXCEPT ![l] = "wait"] /\ pc \in [Loops -> LoopPcs]
      /\ runFlag' \in [Loops -> BOOLEAN]
      /\ UNCHANGED <<main, ready, came, scan, queue, efd, numOfPollFds, served, closed>>
  BY DEF Run, TypeOK
<1>2. TypeOK'
  BY <1>1 DEF TypeOK, LoopPcs, Threads, threadCount
<1>3. Control'
  BY <1>1 DEF Control
<1>4. Apart' /\ Kept'
  BY <1>1, SamePlaces
<1>5. LoadCounted' /\ WakeupPending'
  BY <1>1, SameLoad, SameWakeup
<1> QED BY <1>2, <1>3, <1>4, <1>5

LEMMA EndBatchInv == ASSUME NEW l \in Loops, Inv, EndBatch(l) PROVE Inv'
<1> USE DEF Inv
<1>1. /\ pc[l] = "dispatch" /\ pc' = [pc EXCEPT ![l] = "wait"] /\ pc \in [Loops -> LoopPcs]
      /\ ready[l] = {}
      /\ UNCHANGED <<main, runFlag, ready, came, scan, queue, efd, numOfPollFds,
                     served, closed>>
  BY DEF EndBatch, TypeOK
<1>2. TypeOK'
  BY <1>1 DEF TypeOK, LoopPcs, Threads, threadCount
<1>3. Control'
  BY <1>1 DEF Control
<1>4. Apart' /\ Kept'
  BY <1>1, SamePlaces
<1>5. LoadCounted' /\ WakeupPending'
  BY <1>1, SameLoad, SameWakeup
<1> QED BY <1>2, <1>3, <1>4, <1>5

LEMMA EpollWaitInv == ASSUME NEW l \in Loops, Inv, EpollWait(l) PROVE Inv'
<1> USE DEF Inv
<1>1. PICK c \in {NoClient} \cup (IF Listening(l) THEN Clients \ came ELSE {}) :
        /\ came' = came \cup ({c} \ {NoClient})
        /\ scan' = [scan EXCEPT ![l] = [NoScan EXCEPT !.client = c]]
        /\ ready' = [ready EXCEPT ![l] =
             (IF c = NoClient THEN {} ELSE {"client"}) \cup
             (IF efd[l] > 0 THEN {"newFd"} ELSE {})]
  BY DEF EpollWait
<1>2. /\ c = NoClient \/ c \in Clients \ came
      /\ pc[l] = "wait" /\ pc' = [pc EXCEPT ![l] = "dispatch"] /\ pc \in [Loops -> LoopPcs]
      /\ ready \in [Loops -> SUBSET {"client", "newFd"}] /\ scan \in [Loops -> Scan]
      /\ UNCHANGED <<main, runFlag, queue, efd, numOfPollFds, served, closed>>
  BY <1>1 DEF EpollWait, TypeOK
<1>3. [NoScan EXCEPT !.client = c] \in Scan /\ [NoScan EXCEPT !.client = c].client = c
  BY <1>2, NoScanType DEF Scan
<1>4. /\ scan' \in [Loops -> Scan] /\ scan'[l].client = c
      /\ \A k \in Loops : k # l => scan'[k] = scan[k]
  BY <1>1, <1>2, <1>3
<1>5. /\ ready' \in [Loops -> SUBSET {"client", "newFd"}]
      /\ "client" \in ready'[l] <=> c # NoClient
      /\ \A k \in Loops : k # l => ready'[k] = ready[k]
  BY <1>1, <1>2
<1>6. TypeOK'
  BY <1>1, <1>2, <1>4, <1>5 DEF TypeOK, LoopPcs, Threads, threadCount
<1>7. Control'
  BY <1>2, <1>4, <1>5 DEF Control
<1>8. scan[l].client = NoClient
  BY <1>2 DEF Control
<1>9. Apart'
  <2> DEFINE N == {c} \ {NoClient}
  <2>1. N \cap came = {}
    BY <1>2
  <2>2. /\ N \cap closed = {}
        /\ \A k \in Loops : /\ N \cap Accepted(k) = {} /\ N \cap In(queue[k]) = {}
                            /\ N \cap served[k] = {}
    BY <2>1 DEF Kept
  <2>3. /\ UNCHANGED <<queue, served, closed>>
        /\ Accepted(l)' = N
        /\ \A k \in Loops : k # l => Accepted(k)' = Accepted(k)
    BY <1>2, <1>4 DEF Accepted
  <2> QED BY <2>2, <2>3 DEF Apart
<1>10. Kept'
  <2>1. /\ UNCHANGED <<queue, served, closed>>
        /\ \A k \in Loops : Accepted(k)' = Accepted(k) \cup (IF k = l THEN {c} \ {NoClient} ELSE {})
    BY <1>2, <1>4, <1>8 DEF Accepted
  <2> QED BY <1>1, <2>1 DEF Kept
<1>11. LoadCounted' /\ WakeupPending'
  BY <1>2, <1>4, SameLoad, SameWakeup
<1> QED BY <1>6, <1>7, <1>9, <1>10, <1>11

\* destroy() keeps it when the loop is not about to wake another.
LEMMA DestroyInv ==
  ASSUME NEW l \in Loops, Inv, pc[l] \in {"wait", "dispatch"}, destroy(l)
  PROVE  Inv'
<1> USE DEF Inv
<1>1. /\ pc' = [pc EXCEPT ![l] = "dead"] /\ pc \in [Loops -> LoopPcs]
      /\ closed' = closed \cup served[l] \cup Accepted(l)
      /\ served' = [served EXCEPT ![l] = {}] /\ served \in [Loops -> SUBSET Clients]
      /\ ready' = [ready EXCEPT ![l] = {}] /\ ready \in [Loops -> SUBSET {"client", "newFd"}]
      /\ scan' = [scan EXCEPT ![l] = NoScan] /\ scan \in [Loops -> Scan]
      /\ efd' = [efd EXCEPT ![l] = 0] /\ efd \in [Loops -> Nat]
      /\ UNCHANGED <<main, runFlag, came, queue, numOfPollFds>>
  BY DEF destroy, Accepted, TypeOK
<1>2. Accepted(l) \subseteq Clients
  BY <1>1 DEF Accepted, Scan
<1>3. TypeOK'
  BY <1>1, <1>2, NoScanType DEF TypeOK, LoopPcs, Threads, threadCount
<1>4. Control'
  BY <1>1, NoScanType DEF Control
<1>5. /\ Accepted(l)' = {}
      /\ \A k \in Loops : k # l => Accepted(k)' = Accepted(k)
  BY <1>1, NoScanType DEF Accepted
<1>6. Apart'
  <2>1. \A k \in Loops : /\ Accepted(k)' \subseteq Accepted(k)
                         /\ In(queue[k])' = In(queue[k])
                         /\ served[k]' \subseteq served[k]
    BY <1>1, <1>5
  <2>2. \A k \in Loops :
          (Accepted(k)' \cup In(queue[k])' \cup served[k]') \cap closed' = {}
    <3> SUFFICES ASSUME NEW k \in Loops
                 PROVE  (Accepted(k)' \cup In(queue[k])' \cup served[k]') \cap closed' = {}
      OBVIOUS
    <3>1. CASE k = l
      BY <1>1, <1>5, <3>1 DEF Apart
    <3>2. CASE k # l
      <4>1. /\ (Accepted(k) \cup In(queue[k]) \cup served[k]) \cap closed = {}
            /\ (Accepted(k) \cup In(queue[k]) \cup served[k]) \cap served[l] = {}
            /\ (Accepted(k) \cup In(queue[k]) \cup served[k]) \cap Accepted(l) = {}
        BY <3>2 DEF Apart
      <4>2. /\ Accepted(k)' = Accepted(k) /\ In(queue[k])' = In(queue[k])
            /\ served[k]' = served[k]
        BY <1>1, <1>5, <3>2
      <4>3. closed' = closed \cup served[l] \cup Accepted(l)
        BY <1>1
      <4> QED BY <4>1, <4>2, <4>3, Zenon
    <3> QED BY <3>1, <3>2
  <2>3. \A k \in Loops : NoDup(queue[k])'
    BY <1>1 DEF Apart
  <2>4. ASSUME NEW j \in Loops, NEW k \in Loops, j # k
        PROVE  /\ Accepted(j)' \cap Accepted(k)' = {}
               /\ In(queue[j])' \cap In(queue[k])' = {}
               /\ served[j]' \cap served[k]' = {}
    BY <2>1, <2>4 DEF Apart
  <2>5. ASSUME NEW j \in Loops, NEW k \in Loops
        PROVE  /\ Accepted(j)' \cap In(queue[k])' = {}
               /\ Accepted(j)' \cap served[k]' = {}
               /\ In(queue[j])' \cap served[k]' = {}
    BY <2>1 DEF Apart
  <2> QED BY <2>2, <2>3, <2>4, <2>5 DEF Apart
<1>7. Kept'
  BY <1>1, <1>5 DEF Kept
<1>8. LoadCounted'
  BY <1>1 DEF LoadCounted, Alive, threadCount
<1>9. WakeupPending'
  BY <1>1 DEF WakeupPending, Alive
<1> QED BY <1>3, <1>4, <1>6, <1>7, <1>8, <1>9

LEMMA CloseConnectionInv ==
  ASSUME NEW l \in Loops, Inv, NEW c \in served[l], CloseConnection(l, c)
  PROVE  Inv'
<1> USE DEF Inv
<1>1. /\ served' = [served EXCEPT ![l] = @ \ {c}] /\ served \in [Loops -> SUBSET Clients]
      /\ numOfPollFds' = [numOfPollFds EXCEPT ![l] = @ - 1] /\ numOfPollFds \in [Loops -> Int]
      /\ closed' = closed \cup {c} /\ c \in Clients
      /\ UNCHANGED <<main, pc, runFlag, ready, came, scan, queue, efd>>
  BY DEF CloseConnection, TypeOK
<1>2. TypeOK'
  BY <1>1 DEF TypeOK, Threads, threadCount
<1>3. Control'
  BY <1>1 DEF Control
<1>4. \A k \in Loops : Accepted(k)' = Accepted(k)
  BY <1>1 DEF Accepted
<1>5. Apart'
  BY <1>1, <1>4 DEF Apart
<1>6. Kept'
  BY <1>1, <1>4 DEF Kept
<1>7. LoadCounted'
  <2>1. Cardinality(served[l] \ {c}) = Cardinality(served[l]) - 1
    BY <1>1, ServedFinite, FS_RemoveElement
  <2>2. Cardinality(served[l]) \in Nat /\ BasePollFds(l, threadCount) \in Nat
    BY <1>1, ServedFinite, LoadType DEF TypeOK, threadCount
  <2> QED BY <1>1, <2>1, <2>2 DEF LoadCounted, Alive, threadCount
<1>8. WakeupPending'
  BY <1>1, SameWakeup
<1> QED BY <1>2, <1>3, <1>5, <1>6, <1>7, <1>8

\* A client that the loop starts to serve is counted.
LEMMA ServeCounts ==
  ASSUME NEW l \in Loops, TypeOK, LoadCounted, NEW c \in Clients \ served[l],
         Serve(c, l), UNCHANGED <<main, pc>>
  PROVE  /\ LoadCounted'
         /\ served' \in [Loops -> SUBSET Clients] /\ numOfPollFds' \in [Loops -> Int]
         /\ closed' \subseteq Clients
         /\ \A k \in Loops : k # l => served'[k] = served[k]
         /\ \/ served'[l] = served[l] \cup {c} /\ closed' = closed
            \/ served'[l] = served[l] /\ closed' = closed \cup {c}
<1>1. /\ served \in [Loops -> SUBSET Clients] /\ numOfPollFds \in [Loops -> Int]
      /\ closed \subseteq Clients
  BY DEF TypeOK
<1>2. CASE /\ served' = [served EXCEPT ![l] = @ \cup {c}]
           /\ numOfPollFds' = [numOfPollFds EXCEPT ![l] = @ + 1]
           /\ UNCHANGED closed
  <2>1. Cardinality(served[l] \cup {c}) = Cardinality(served[l]) + 1
    BY <1>1, ServedFinite, FS_AddElement
  <2>2. Cardinality(served[l]) \in Nat /\ BasePollFds(l, threadCount) \in Nat
    BY <1>1, ServedFinite, LoadType DEF TypeOK, threadCount
  <2>3. LoadCounted'
    BY <1>1, <1>2, <2>1, <2>2 DEF LoadCounted, Alive, threadCount
  <2> QED BY <1>1, <1>2, <2>3
<1>3. CASE closed' = closed \cup {c} /\ UNCHANGED <<served, numOfPollFds>>
  BY <1>1, <1>3, SameLoad
<1> QED BY <1>2, <1>3 DEF Serve

----------------------------------------------------------------------------
(* ServerExecutor::process() and Server::createRequestExecutor() *)

LEMMA AcceptHereInv == ASSUME NEW l \in Loops, Inv, AcceptHere(l) PROVE Inv'
<1> USE DEF Inv
<1> DEFINE c == scan[l].client
<1>1. /\ pc[l] = "dispatch" /\ "client" \in ready[l]
      /\ ready' = [ready EXCEPT ![l] = @ \ {"client"}]
      /\ ready \in [Loops -> SUBSET {"client", "newFd"}]
      /\ scan' = [scan EXCEPT ![l] = NoScan] /\ scan \in [Loops -> Scan]
      /\ UNCHANGED <<main, pc, runFlag, came, queue, efd>>
  BY DEF AcceptHere, TakeEvent, TypeOK
<1>2. c \in Clients /\ c # NoClient
  BY <1>1 DEF Control, Scan
<1>3. Accepted(l) = {c} /\ c \notin closed /\ \A k \in Loops : c \notin served[k]
  BY <1>2 DEF Accepted, Apart
<1>4. /\ LoadCounted'
      /\ served' \in [Loops -> SUBSET Clients] /\ numOfPollFds' \in [Loops -> Int]
      /\ closed' \subseteq Clients
      /\ \A k \in Loops : k # l => served'[k] = served[k]
      /\ \/ served'[l] = served[l] \cup {c} /\ closed' = closed
         \/ served'[l] = served[l] /\ closed' = closed \cup {c}
  <2>1. Serve(c, l) /\ c \in Clients \ served[l]
    BY <1>2, <1>3 DEF AcceptHere
  <2> QED BY <1>1, <2>1, ServeCounts
<1>5. TypeOK'
  BY <1>1, <1>4, NoScanType DEF TypeOK, Threads, threadCount
<1>6. Control'
  BY <1>1, NoScanType DEF Control
<1>7. Accepted(l)' = {} /\ \A k \in Loops : k # l => Accepted(k)' = Accepted(k)
  BY <1>1, NoScanType DEF Accepted
<1>n. \A k \in Loops : In(queue[k])' = In(queue[k]) /\ NoDup(queue[k])' = NoDup(queue[k])
  BY <1>1
<1>p. \A k \in Loops :
        k # l => c \notin Accepted(k) /\ c \notin In(queue[k]) /\ c \notin served[k]
  BY <1>3 DEF Apart
<1>q. c \notin In(queue[l]) /\ c \notin served[l]
  BY <1>3 DEF Apart
<1>8. Apart'
  <2>1. \A k \in Loops : NoDup(queue[k])'
    BY <1>n DEF Apart
  <2>2. CASE served'[l] = served[l] \cup {c} /\ closed' = closed
    BY <2>1, <2>2, <1>3, <1>4, <1>7, <1>n, <1>p, <1>q DEF Apart
  <2>3. CASE served'[l] = served[l] /\ closed' = closed \cup {c}
    BY <2>1, <2>3, <1>3, <1>4, <1>7, <1>n, <1>p, <1>q DEF Apart
  <2> QED BY <2>2, <2>3, <1>4
<1>9. Kept'
  BY <1>1, <1>3, <1>4, <1>7 DEF Kept
<1>10. WakeupPending'
  BY <1>1, SameWakeup
<1> QED BY <1>4, <1>5, <1>6, <1>8, <1>9, <1>10

LEMMA AcceptInv == ASSUME NEW l \in Loops, Inv, Accept(l) PROVE Inv'
<1> USE DEF Inv
<1>1. /\ pc[l] = "dispatch" /\ "client" \in ready[l]
      /\ ready' = [ready EXCEPT ![l] = @ \ {"client"}]
      /\ ready \in [Loops -> SUBSET {"client", "newFd"}]
      /\ pc' = [pc EXCEPT ![l] = "scan"] /\ pc \in [Loops -> LoopPcs]
      /\ UNCHANGED <<main, runFlag, came, scan, queue, efd, numOfPollFds, served, closed>>
  BY DEF Accept, TakeEvent, TypeOK
<1>2. TypeOK'
  BY <1>1 DEF TypeOK, LoopPcs, Threads, threadCount
<1>3. Control'
  BY <1>1 DEF Control
<1>4. Apart' /\ Kept'
  BY <1>1, SamePlaces
<1>5. LoadCounted' /\ WakeupPending'
  BY <1>1, SameLoad, SameWakeup
<1> QED BY <1>2, <1>3, <1>4, <1>5

LEMMA ReadLoadInv == ASSUME NEW l \in Loops, Inv, ReadLoad(l) PROVE Inv'
<1> USE DEF Inv
<1> DEFINE s == scan[l]
           load == numOfPollFds[s.next]
           t == IF load < s.minPollFds
                THEN [s EXCEPT !.next = @ + 1, !.minPollFds = load, !.minIndex = s.next]
                ELSE [s EXCEPT !.next = @ + 1]
           p == IF s.next + 1 = threadCount THEN "push" ELSE "scan"
<1>1. /\ pc[l] = "scan" /\ scan' = [scan EXCEPT ![l] = t] /\ scan \in [Loops -> Scan]
      /\ pc' = [pc EXCEPT ![l] = p] /\ pc \in [Loops -> LoopPcs]
      /\ s.next < threadCount /\ threadCount \in 1 .. MaxThreads
      /\ numOfPollFds \in [Loops -> Int]
      /\ UNCHANGED <<main, runFlag, ready, came, queue, efd, numOfPollFds, served, closed>>
  BY DEF ReadLoad, TypeOK, threadCount
<1>2. t \in Scan /\ t.client = s.client
  <2>1. /\ s.client \in Clients \cup {NoClient} /\ s.next \in 0 .. MaxThreads
        /\ s.minPollFds \in Int /\ s.minIndex \in Loops /\ s \in Scan
    BY <1>1 DEF Scan
  <2>2. s.next + 1 \in 0 .. MaxThreads /\ s.next \in Loops /\ load \in Int
    BY <1>1, <2>1, ServerAssumption DEF Loops
  <2> HIDE DEF s, load
  <2>3. CASE load < s.minPollFds
    BY <2>1, <2>2, <2>3 DEF Scan
  <2>4. CASE ~(load < s.minPollFds)
    BY <2>1, <2>2, <2>4 DEF Scan
  <2> QED BY <2>3, <2>4
<1> HIDE DEF t
<1>3. p \in {"push", "scan"}
  OBVIOUS
<1> HIDE DEF p
<1>4. TypeOK'
  BY <1>1, <1>2, <1>3 DEF TypeOK, LoopPcs, Threads, threadCount
<1>5. \A k \in Loops : scan'[k].client = scan[k].client
  BY <1>1, <1>2
<1>6. Control'
  BY <1>1, <1>3, <1>5 DEF Control
<1>7. Apart' /\ Kept'
  BY <1>1, <1>5, SamePlaces
<1>8. LoadCounted'
  BY <1>1, SameLoad
<1>9. WakeupPending'
  BY <1>1, SameWakeup
<1> QED BY <1>4, <1>6, <1>7, <1>8, <1>9

\* The client goes to the queue of the loop with the least load, or is closed.
LEMMA PushInv == ASSUME NEW l \in Loops, Inv, Push(l) PROVE Inv'
<1> USE DEF Inv
<1>1. /\ pc[l] = "push" /\ pc \in [Loops -> LoopPcs] /\ scan \in [Loops -> Scan]
      /\ queue \in [Loops -> Seq(Clients)]
      /\ scan[l] \in Scan /\ scan[l].minIndex \in Loops
      /\ UNCHANGED <<main, runFlag, ready, came, efd, numOfPollFds, served>>
  BY DEF Push, TypeOK, Scan
<1> PICK m \in Loops : m = scan[l].minIndex
  BY <1>1
<1>2. scan[l].client \in Clients /\ scan[l].client # NoClient
  BY <1>1 DEF Control, Scan
<1> PICK c \in Clients : c = scan[l].client
  BY <1>2
<1>3. /\ Accepted(l) = {c} /\ c \notin closed
      /\ \A k \in Loops : c \notin In(queue[k]) /\ c \notin served[k]
  BY <1>2 DEF Accepted, Apart
<1>4. "client" \notin ready[l]
  BY <1>1 DEF Control
<1>5. CASE Len(queue[m]) < QueueCapacity
  <2>1. /\ queue' = [queue EXCEPT ![m] = Append(@, c)]
        /\ pc' = [pc EXCEPT ![l] = "notify"]
        /\ scan' = [scan EXCEPT ![l].client = NoClient]
        /\ UNCHANGED closed
    BY <1>5 DEF Push
  <2>2. /\ scan' \in [Loops -> Scan]
        /\ scan'[l].client = NoClient /\ scan'[l].minIndex = m
        /\ \A k \in Loops : k # l => scan'[k] = scan[k]
    <3>1. scan' = [scan EXCEPT ![l] = [scan[l] EXCEPT !.client = NoClient]]
      BY <2>1
    <3>2. /\ [scan[l] EXCEPT !.client = NoClient] \in Scan
          /\ [scan[l] EXCEPT !.client = NoClient].client = NoClient
          /\ [scan[l] EXCEPT !.client = NoClient].minIndex = m
      BY <1>1, ClientReset
    <3> QED BY <1>1, <3>1, <3>2
  <2>3. /\ queue' \in [Loops -> Seq(Clients)]
        /\ In(queue'[m]) = In(queue[m]) \cup {c} /\ NoDup(queue'[m])
        /\ \A k \in Loops : k # m => queue'[k] = queue[k]
    BY <1>1, <1>2, <1>3, <2>1, AppendIn DEF Apart
  <2>4. TypeOK'
    BY <1>1, <2>1, <2>2, <2>3 DEF TypeOK, LoopPcs, Threads, threadCount
  <2>5. Control'
    BY <1>1, <1>4, <2>1, <2>2 DEF Control
  <2>6. Accepted(l)' = {} /\ \A k \in Loops : k # l => Accepted(k)' = Accepted(k)
    BY <2>2 DEF Accepted
  <2>7. Apart'
    <3>1. \A k \in Loops : NoDup(queue[k])'
      BY <2>3 DEF Apart
    <3>2. \A k \in Loops : k # l => c \notin Accepted(k)
      BY <1>3 DEF Apart
    <3>3. /\ UNCHANGED <<served, closed>>
          /\ \A k \in Loops : k # m => In(queue[k])' = In(queue[k])
          /\ In(queue[m])' = In(queue[m]) \cup {c}
      BY <1>1, <2>1, <2>3
    <3>4. ASSUME NEW j \in Loops, NEW k \in Loops, j # k
          PROVE  /\ Accepted(j)' \cap Accepted(k)' = {}
                 /\ In(queue[j])' \cap In(queue[k])' = {}
                 /\ served[j]' \cap served[k]' = {}
      BY <1>3, <2>6, <3>3, <3>4 DEF Apart
    <3>5. ASSUME NEW j \in Loops, NEW k \in Loops
          PROVE  /\ Accepted(j)' \cap In(queue[k])' = {}
                 /\ Accepted(j)' \cap served[k]' = {}
                 /\ In(queue[j])' \cap served[k]' = {}
      BY <1>3, <2>6, <3>2, <3>3 DEF Apart
    <3>6. \A k \in Loops :
            (Accepted(k)' \cup In(queue[k])' \cup served[k]') \cap closed' = {}
      BY <1>3, <2>6, <3>3 DEF Apart
    <3> QED BY <3>1, <3>4, <3>5, <3>6 DEF Apart
  <2>8. Kept'
    <3>1. /\ UNCHANGED <<came, served, closed>>
          /\ \A k \in Loops : k # m => In(queue[k])' = In(queue[k])
          /\ In(queue[m])' = In(queue[m]) \cup {c}
      BY <1>1, <2>1, <2>3
    <3>2. ASSUME NEW x
          PROVE  x \in came' <=>
                   \/ x \in closed'
                   \/ \E k \in Loops : \/ x \in Accepted(k)' \/ x \in In(queue[k])'
                                        \/ x \in served[k]'
      <4>1. x \in came <=>
              \/ x \in closed
              \/ \E k \in Loops : \/ x \in Accepted(k) \/ x \in In(queue[k])
                                   \/ x \in served[k]
        BY DEF Kept
      <4>2. CASE x = c
        BY <1>3, <2>6, <3>1, <4>1, <4>2
      <4>3. CASE x # c
        <5>1. /\ \A k \in Loops : x \in Accepted(k)' <=> x \in Accepted(k)
              /\ \A k \in Loops : x \in In(queue[k])' <=> x \in In(queue[k])
              /\ \A k \in Loops : x \in served[k]' <=> x \in served[k]
              /\ x \in closed' <=> x \in closed
          BY <1>3, <2>6, <3>1, <4>3
        <5> QED BY <3>1, <4>1, <5>1
      <4> QED BY <4>2, <4>3
    <3> QED BY <3>2 DEF Kept
  <2>9. LoadCounted'
    BY <1>1, <2>1, SameLoad
  <2>10. WakeupPending'
    BY <1>1, <2>1, <2>2, <2>3 DEF WakeupPending, Alive
  <2> QED BY <2>4, <2>5, <2>7, <2>8, <2>9, <2>10
<1>6. CASE ~(Len(queue[m]) < QueueCapacity)
  <2>1. /\ closed' = closed \cup {c}
        /\ pc' = [pc EXCEPT ![l] = "dispatch"]
        /\ scan' = [scan EXCEPT ![l] = NoScan]
        /\ UNCHANGED queue
    BY <1>6 DEF Push
  <2>2. TypeOK'
    BY <1>1, <1>2, <2>1, NoScanType DEF TypeOK, LoopPcs, Threads, threadCount
  <2>3. Control'
    BY <1>1, <1>4, <2>1, NoScanType DEF Control
  <2>4. Accepted(l)' = {} /\ \A k \in Loops : k # l => Accepted(k)' = Accepted(k)
    BY <1>1, <2>1, NoScanType DEF Accepted
  <2>5. Apart'
    <3>1. UNCHANGED <<queue, served>> /\ closed' = closed \cup {c}
      BY <1>1, <2>1
    <3>2. \A k \in Loops : Accepted(k)' \subseteq Accepted(k) /\ c \notin Accepted(k)'
      BY <1>3, <2>4 DEF Apart
    <3>3. ASSUME NEW k \in Loops
          PROVE  (Accepted(k)' \cup In(queue[k])' \cup served[k]') \cap closed' = {}
      BY <1>3, <3>1, <3>2 DEF Apart
    <3>4. ASSUME NEW j \in Loops, NEW k \in Loops
          PROVE  /\ j # k => Accepted(j)' \cap Accepted(k)' = {}
                 /\ Accepted(j)' \cap In(queue[k])' = {}
                 /\ Accepted(j)' \cap served[k]' = {}
      BY <3>1, <3>2 DEF Apart
    <3>5. ASSUME NEW j \in Loops, NEW k \in Loops
          PROVE  /\ j # k => In(queue[j])' \cap In(queue[k])' = {}
                 /\ j # k => served[j]' \cap served[k]' = {}
                 /\ In(queue[j])' \cap served[k]' = {}
                 /\ NoDup(queue[j])'
      BY <3>1 DEF Apart
    <3> QED BY <3>3, <3>4, <3>5 DEF Apart
  <2>6. Kept'
    <3>1. UNCHANGED <<came, queue, served>> /\ closed' = closed \cup {c}
      BY <1>1, <2>1
    <3>2. ASSUME NEW x
          PROVE  x \in came' <=>
                   \/ x \in closed'
                   \/ \E k \in Loops : \/ x \in Accepted(k)' \/ x \in In(queue[k])'
                                        \/ x \in served[k]'
      <4>1. x \in came <=>
              \/ x \in closed
              \/ \E k \in Loops : \/ x \in Accepted(k) \/ x \in In(queue[k])
                                   \/ x \in served[k]
        BY DEF Kept
      <4>2. CASE x = c
        BY <1>3, <2>4, <3>1, <4>1, <4>2
      <4>3. CASE x # c
        <5>1. /\ \A k \in Loops : x \in Accepted(k)' <=> x \in Accepted(k)
              /\ \A k \in Loops : x \in In(queue[k])' <=> x \in In(queue[k])
              /\ \A k \in Loops : x \in served[k]' <=> x \in served[k]
              /\ x \in closed' <=> x \in closed
          BY <1>3, <2>4, <3>1, <4>3
        <5> QED BY <3>1, <4>1, <5>1
      <4> QED BY <4>2, <4>3
    <3> QED BY <3>2 DEF Kept
  <2>7. LoadCounted' /\ WakeupPending'
    BY <1>1, <2>1, SameLoad, SameWakeup
  <2> QED BY <2>2, <2>3, <2>5, <2>6, <2>7
<1> QED BY <1>5, <1>6

\* The loop that was given a client has a wake-up now, or has ended.
LEMMA NotifyInv == ASSUME NEW l \in Loops, Inv, Notify(l) PROVE Inv'
<1> USE DEF Inv
<1> DEFINE m == scan[l].minIndex
<1>1. /\ pc[l] = "notify" /\ pc' = [pc EXCEPT ![l] = "dispatch"] /\ pc \in [Loops -> LoopPcs]
      /\ efd' = IF pc[m] = "dead" THEN efd ELSE [efd EXCEPT ![m] = @ + 1]
      /\ efd \in [Loops -> Nat] /\ m \in Loops
      /\ scan' = [scan EXCEPT ![l] = NoScan] /\ scan \in [Loops -> Scan]
      /\ UNCHANGED <<main, runFlag, ready, came, queue, numOfPollFds, served, closed>>
  BY DEF Notify, TypeOK, eventfd_write, Scan
<1>2. /\ efd' \in [Loops -> Nat] /\ \A k \in Loops : efd'[k] >= efd[k]
      /\ pc[m] # "dead" => efd'[m] > 0
  BY <1>1
<1>3. scan[l].client = NoClient
  BY <1>1 DEF Control
<1>4. TypeOK'
  BY <1>1, <1>2, NoScanType DEF TypeOK, LoopPcs, Threads, threadCount
<1>5. \A k \in Loops : scan'[k].client = scan[k].client
  BY <1>1, <1>3, NoScanType
<1>6. Control'
  BY <1>1, <1>5 DEF Control
<1>7. Apart' /\ Kept'
  BY <1>1, <1>5, SamePlaces
<1>8. LoadCounted'
  BY <1>1, SameLoad
<1>9. WakeupPending'
  BY <1>1, <1>2 DEF WakeupPending, Alive
<1> QED BY <1>4, <1>6, <1>7, <1>8, <1>9

----------------------------------------------------------------------------
(* NewFdExecutor::process() and checkNewFd() *)

LEMMA NewFdInv == ASSUME NEW l \in Loops, Inv, NewFd(l) PROVE Inv'
<1> USE DEF Inv
<1>1. CASE efd[l] > 0
  <2>1. /\ pc[l] = "dispatch" /\ "newFd" \in ready[l]
        /\ ready' = [ready EXCEPT ![l] = @ \ {"newFd"}]
        /\ ready \in [Loops -> SUBSET {"client", "newFd"}]
        /\ efd' = [efd EXCEPT ![l] = @ - 1] /\ efd \in [Loops -> Nat]
        /\ pc' = [pc EXCEPT ![l] = "drain"] /\ pc \in [Loops -> LoopPcs]
        /\ UNCHANGED <<main, runFlag, came, scan, queue, numOfPollFds, served, closed>>
    BY <1>1 DEF NewFd, TakeEvent, TypeOK
  <2>2. TypeOK'
    BY <1>1, <2>1 DEF TypeOK, LoopPcs, Threads, threadCount
  <2>3. Control'
    BY <2>1 DEF Control
  <2>4. Apart' /\ Kept'
    BY <2>1, SamePlaces
  <2>5. LoadCounted'
    BY <2>1, SameLoad
  <2>6. WakeupPending'
    BY <2>1 DEF WakeupPending, Alive
  <2> QED BY <2>2, <2>3, <2>4, <2>5, <2>6
<1>2. CASE ~(efd[l] > 0)
  BY <1>2, DestroyInv DEF NewFd
<1> QED BY <1>1, <1>2

LEMMA CheckNewFdInv == ASSUME NEW l \in Loops, Inv, CheckNewFd(l) PROVE Inv'
<1> USE DEF Inv
<1> DEFINE c == Head(queue[l])
<1>1. /\ pc[l] = "drain" /\ queue[l] # <<>>
      /\ queue' = [queue EXCEPT ![l] = Tail(@)] /\ queue \in [Loops -> Seq(Clients)]
      /\ UNCHANGED <<main, pc, runFlag, ready, came, scan, efd>>
  BY DEF CheckNewFd, TypeOK
<1>2. /\ c \in In(queue[l]) /\ queue' \in [Loops -> Seq(Clients)]
      /\ In(queue'[l]) = In(queue[l]) \ {c} /\ NoDup(queue'[l])
      /\ \A k \in Loops : k # l => queue'[k] = queue[k]
  BY <1>1, TailIn DEF Apart
<1>3. c \in Clients
  BY <1>1, <1>2, InType
<1> HIDE DEF c
<1>4. /\ c \notin closed
      /\ \A k \in Loops : c \notin Accepted(k) /\ c \notin served[k]
      /\ \A k \in Loops : k # l => c \notin In(queue[k])
  BY <1>2 DEF Apart
<1>5. /\ LoadCounted'
      /\ served' \in [Loops -> SUBSET Clients] /\ numOfPollFds' \in [Loops -> Int]
      /\ closed' \subseteq Clients
      /\ \A k \in Loops : k # l => served'[k] = served[k]
      /\ \/ served'[l] = served[l] \cup {c} /\ closed' = closed
         \/ served'[l] = served[l] /\ closed' = closed \cup {c}
  <2>1. Serve(c, l) /\ c \in Clients \ served[l]
    BY <1>3, <1>4 DEF CheckNewFd, c
  <2> QED BY <1>1, <2>1, ServeCounts
<1>6. TypeOK'
  BY <1>1, <1>2, <1>5 DEF TypeOK, Threads, threadCount
<1>7. Control'
  BY <1>1 DEF Control
<1>8. \A k \in Loops : Accepted(k)' = Accepted(k)
  BY <1>1 DEF Accepted
<1>9. Apart'
  <2>1. \A k \in Loops : NoDup(queue[k])'
    BY <1>2 DEF Apart
  <2>2. /\ \A k \in Loops : k # l => In(queue[k])' = In(queue[k])
        /\ In(queue[l])' = In(queue[l]) \ {c}
    BY <1>2
  <2> QED BY <1>4, <1>5, <1>8, <2>1, <2>2 DEF Apart
<1>10. Kept'
  <2>1. /\ UNCHANGED came
        /\ \A k \in Loops : k # l => In(queue[k])' = In(queue[k])
        /\ In(queue[l])' = In(queue[l]) \ {c} /\ c \in In(queue[l])
    BY <1>1, <1>2
  <2> QED BY <1>5, <1>8, <2>1 DEF Kept
<1>11. WakeupPending'
  BY <1>1, <1>2 DEF WakeupPending, Alive
<1> QED BY <1>5, <1>6, <1>7, <1>9, <1>10, <1>11

LEMMA CheckNewFdEndInv == ASSUME NEW l \in Loops, Inv, CheckNewFdEnd(l) PROVE Inv'
<1> USE DEF Inv
<1>1. /\ pc[l] = "drain" /\ queue[l] = <<>>
      /\ pc' = [pc EXCEPT ![l] = "dispatch"] /\ pc \in [Loops -> LoopPcs]
      /\ UNCHANGED <<main, runFlag, ready, came, scan, queue, efd, numOfPollFds, served, closed>>
  BY DEF CheckNewFdEnd, TypeOK
<1>2. TypeOK'
  BY <1>1 DEF TypeOK, LoopPcs, Threads, threadCount
<1>3. Control'
  BY <1>1 DEF Control
<1>4. Apart' /\ Kept'
  BY <1>1, SamePlaces
<1>5. LoadCounted'
  BY <1>1, SameLoad
<1>6. WakeupPending'
  BY <1>1 DEF WakeupPending, Alive
<1> QED BY <1>2, <1>3, <1>4, <1>5, <1>6

----------------------------------------------------------------------------

\* Every step keeps the invariant.
LEMMA NextInv == Inv /\ [Next]_vars => Inv'
<1> SUFFICES ASSUME Inv, [Next]_vars PROVE Inv'
  OBVIOUS
<1>1. CASE Main \/ Interrupt \/ Exit
  BY <1>1, SpawnInv, MainInv, WakeLoopInv DEF Main
<1>2. ASSUME NEW l \in Loops, Loop(l) PROVE Inv'
  <2>1. CASE LeaveRun(l)
    BY <2>1, DestroyInv DEF LeaveRun
  <2>2. CASE AcceptFails(l)
    BY <2>2, DestroyInv DEF AcceptFails
  <2>3. CASE Run(l) \/ EpollWait(l) \/ EndBatch(l)
    BY <2>3, RunInv, EpollWaitInv, EndBatchInv
  <2>4. CASE \E c \in served[l] : CloseConnection(l, c)
    BY <2>4, CloseConnectionInv
  <2>5. CASE AcceptHere(l) \/ Accept(l) \/ ReadLoad(l) \/ Push(l) \/ Notify(l)
    BY <2>5, AcceptHereInv, AcceptInv, ReadLoadInv, PushInv, NotifyInv
  <2>6. CASE NewFd(l) \/ CheckNewFd(l) \/ CheckNewFdEnd(l)
    BY <2>6, NewFdInv, CheckNewFdInv, CheckNewFdEndInv
  <2> QED BY <1>2, <2>1, <2>2, <2>3, <2>4, <2>5, <2>6 DEF Loop
<1>3. CASE UNCHANGED vars
  BY <1>3, MainInv DEF vars, Inv, TypeOK, Control, Apart, Kept, LoadCounted, WakeupPending,
       Accepted, Alive, Threads, threadCount
<1> QED BY <1>1, <1>2, <1>3 DEF Next

\* The invariant holds in every state of every run, for any number of threads,
\* clients and ports.
THEOREM Invariance == Spec => []Inv
<1>1. Init => Inv
  BY InitInv
<1>2. Inv /\ [Next]_vars => Inv'
  BY NextInv
<1> QED BY <1>1, <1>2, PTL DEF Spec

\* Every variable has its type: a thread stands at a place of threadEntry() and
\* PollLoop::run(), newFdsQueue and the served connections hold clients only, and
\* createRequestExecutor() compares loops that exist.
THEOREM TypeCorrect == Spec => []TypeOK
BY Invariance, PTL DEF Inv

\* The counter by which another thread's createRequestExecutor() compares the
\* loops is, in a loop that has not ended, the number of its descriptors.
THEOREM LoadIsCounted == Spec => []LoadCounted
BY Invariance, PTL DEF Inv

\* A client in the newFdsQueue of a live loop has a wake-up under way: the event
\* descriptor is not read out, the loop is draining the queue, or the thread
\* that pushed a client for it is still to write the descriptor.
THEOREM WakeupIsPending == Spec => []WakeupPending
BY Invariance, PTL DEF Inv

\* No client that has connected is lost or held twice: it is closed, or it is
\* with one loop only, accepted, queued or served.
THEOREM ClientsAreKept == Spec => [](Apart /\ Kept)
BY Invariance, PTL DEF Inv

----------------------------------------------------------------------------
(* The hand-off *)

\* The abstract waiting: what is in the queues.
Waiting == [l \in Loops |-> In(queue[l])]

LEMMA WaitingIs ==
  /\ Waiting = [l \in Loops |-> {queue[l][i] : i \in 1 .. Len(queue[l])}]
  /\ \A l \in Loops : Waiting[l] = In(queue[l])
BY DEF Waiting, In

\* A client that a loop has just accepted has no place yet.
LEMMA AcceptedIsNew ==
  ASSUME Inv, NEW l \in Loops, NEW c \in Accepted(l)
  PROVE  c \in Clients /\ c \notin Abstract!Placed
<1>1. c \in Clients
  BY DEF Accepted, Inv, TypeOK, Scan
<1>2. c \notin closed /\ \A k \in Loops : c \notin In(queue[k]) /\ c \notin served[k]
  BY DEF Inv, Apart
<1> QED BY <1>1, <1>2 DEF Abstract!Placed, In

LEMMA HandOffStutters ==
  ASSUME UNCHANGED <<queue, served, closed>>
  PROVE  [Abstract!Next]_(Abstract!hvars)
BY DEF Abstract!hvars

LEMMA HandOffInit == Init => Abstract!Init
<1> SUFFICES ASSUME Init PROVE Abstract!Init
  OBVIOUS
<1>1. \A l \in Loops : queue[l] = <<>>
  BY DEF Init
<1>2. [l \in Loops |-> {queue[l][i] : i \in 1 .. Len(queue[l])}] = [l \in Loops |-> {}]
  BY <1>1
<1> QED BY <1>2 DEF Init, Abstract!Init

\* Each step of the server is a step of the hand-off, or none.
LEMMA PushHandsOff ==
  ASSUME Inv, NEW l \in Loops, Push(l) PROVE [Abstract!Next]_(Abstract!hvars)
<1>1. /\ scan[l] \in Scan /\ scan[l].minIndex \in Loops /\ queue \in [Loops -> Seq(Clients)]
      /\ pc[l] = "push" /\ UNCHANGED served
  BY DEF Push, Inv, TypeOK, Scan
<1> PICK m \in Loops : m = scan[l].minIndex
  BY <1>1
<1>2. scan[l].client # NoClient
  BY <1>1 DEF Inv, Control
<1> PICK c \in Accepted(l) : c = scan[l].client
  BY <1>2 DEF Accepted
<1>3. c \in Clients /\ c \notin Abstract!Placed
  BY AcceptedIsNew
<1>4. CASE Len(queue[m]) < QueueCapacity
  <2>1. queue' = [queue EXCEPT ![m] = Append(@, c)] /\ UNCHANGED closed
    BY <1>4 DEF Push
  <2>2. In(queue'[m]) = In(queue[m]) \cup {c}
    BY <1>1, <1>3, <2>1, AppendIn
  <2>3. Waiting' = [Waiting EXCEPT ![m] = @ \cup {c}]
    BY <1>1, <2>1, <2>2 DEF Waiting
  <2>4. Abstract!Give(c, m)
    BY <1>1, <1>3, <2>1, <2>3 DEF Abstract!Give, Waiting, In
  <2> QED BY <1>3, <2>4 DEF Abstract!Next
<1>5. CASE ~(Len(queue[m]) < QueueCapacity)
  <2>1. closed' = closed \cup {c} /\ UNCHANGED queue
    BY <1>5 DEF Push
  <2>2. Abstract!Refuse(c)
    BY <1>1, <1>3, <2>1 DEF Abstract!Refuse
  <2> QED BY <1>3, <2>2 DEF Abstract!Next
<1> QED BY <1>4, <1>5

LEMMA AcceptHereHandsOff ==
  ASSUME Inv, NEW l \in Loops, AcceptHere(l) PROVE [Abstract!Next]_(Abstract!hvars)
<1>1. /\ "client" \in ready[l] /\ UNCHANGED queue /\ Serve(scan[l].client, l)
      /\ scan[l].client # NoClient
  BY DEF AcceptHere, TakeEvent, Inv, Control
<1> PICK c \in Accepted(l) : c = scan[l].client
  BY <1>1 DEF Accepted
<1>2. c \in Clients /\ c \notin Abstract!Placed
  BY AcceptedIsNew
<1>3. Abstract!ServeHere(c, l) \/ Abstract!Refuse(c)
  BY <1>1, <1>2 DEF Serve, Abstract!ServeHere, Abstract!Refuse
<1> QED BY <1>2, <1>3 DEF Abstract!Next

LEMMA CheckNewFdHandsOff ==
  ASSUME Inv, NEW l \in Loops, CheckNewFd(l) PROVE [Abstract!Next]_(Abstract!hvars)
<1>1. /\ queue[l] # <<>> /\ Serve(Head(queue[l]), l) /\ NoDup(queue[l])
      /\ queue' = [queue EXCEPT ![l] = Tail(@)] /\ queue \in [Loops -> Seq(Clients)]
  BY DEF CheckNewFd, Inv, TypeOK, Apart
<1> PICK c \in In(queue[l]) : c = Head(queue[l])
  BY <1>1, TailIn
<1>2. c \in Clients /\ In(queue'[l]) = In(queue[l]) \ {c}
  BY <1>1, InType, TailIn
<1>3. c \in Waiting[l] /\ Waiting' = [Waiting EXCEPT ![l] = @ \ {c}]
  BY <1>1, <1>2 DEF Waiting
<1>4. Abstract!Take(c, l)
  BY <1>1, <1>3 DEF Serve, Abstract!Take, Waiting, In
<1> QED BY <1>2, <1>4 DEF Abstract!Next

LEMMA CloseHandsOff ==
  ASSUME Inv, NEW l \in Loops, NEW c \in served[l], CloseConnection(l, c)
  PROVE  [Abstract!Next]_(Abstract!hvars)
<1>1. /\ served' = [served EXCEPT ![l] = @ \ {c}] /\ closed' = closed \cup {c}
      /\ UNCHANGED queue
  BY DEF CloseConnection
<1>2. Abstract!End({c}, l)
  <2>1. closed' = closed \cup {c} \cup {} /\ {} \in SUBSET (Clients \ Abstract!Placed)
    BY <1>1
  <2>2. {c} # {} /\ {c} \subseteq served[l]
    OBVIOUS
  <2> QED BY <1>1, <2>1, <2>2 DEF Abstract!End
<1> QED BY <1>2 DEF Abstract!Next

LEMMA DestroyHandsOff ==
  ASSUME Inv, NEW l \in Loops, destroy(l) PROVE [Abstract!Next]_(Abstract!hvars)
<1>1. /\ closed' = closed \cup served[l] \cup Accepted(l)
      /\ served' = [served EXCEPT ![l] = {}] /\ served \in [Loops -> SUBSET Clients]
      /\ UNCHANGED queue
  BY DEF destroy, Accepted, Inv, TypeOK
<1>2. Accepted(l) \in SUBSET (Clients \ Abstract!Placed)
  BY AcceptedIsNew
<1>3. CASE served[l] # {}
  <2> PICK C \in SUBSET served[l] : C = served[l]
    OBVIOUS
  <2> PICK R \in SUBSET (Clients \ Abstract!Placed) : R = Accepted(l)
    BY <1>2
  <2>1. Abstract!End(C, l)
    <3>1. served' = [served EXCEPT ![l] = @ \ C]
      BY <1>1
    <3>2. closed' = closed \cup C \cup R /\ C # {}
      BY <1>1, <1>3
    <3>3. \E Q \in SUBSET (Clients \ Abstract!Placed) : closed' = closed \cup C \cup Q
      BY <3>2
    <3>4. UNCHANGED [k \in Loops |-> {queue[k][i] : i \in 1 .. Len(queue[k])}]
      BY <1>1
    <3> QED BY <3>1, <3>2, <3>3, <3>4, Zenon DEF Abstract!End
  <2> QED BY <2>1 DEF Abstract!Next
<1>4. CASE served[l] = {}
  <2>1. UNCHANGED <<queue, served>>
    BY <1>1, <1>4
  <2>2. CASE Accepted(l) = {}
    BY <1>1, <1>4, <2>1, <2>2, HandOffStutters
  <2>3. ASSUME NEW c \in Accepted(l) PROVE [Abstract!Next]_(Abstract!hvars)
    <3>1. Accepted(l) = {c} /\ c \in Clients /\ c \notin Abstract!Placed
      BY AcceptedIsNew DEF Accepted
    <3>2. Abstract!Refuse(c)
      BY <1>1, <1>4, <2>1, <3>1 DEF Abstract!Refuse
    <3> QED BY <3>1, <3>2 DEF Abstract!Next
  <2> QED BY <2>2, <2>3
<1> QED BY <1>3, <1>4

LEMMA NextHandsOff == Inv /\ [Next]_vars => [Abstract!Next]_(Abstract!hvars)
<1> SUFFICES ASSUME Inv, [Next]_vars PROVE [Abstract!Next]_(Abstract!hvars)
  OBVIOUS
<1>1. CASE Main \/ Interrupt \/ Exit \/ UNCHANGED vars
  <2>1. UNCHANGED <<queue, served, closed>>
    BY <1>1 DEF Main, Spawn, ClearFlag, WakeLoop, Join, Interrupt, Exit, vars
  <2> QED BY <2>1, HandOffStutters
<1>2. ASSUME NEW l \in Loops, Loop(l) PROVE [Abstract!Next]_(Abstract!hvars)
  <2>1. CASE LeaveRun(l) \/ AcceptFails(l)
    BY <2>1, DestroyHandsOff DEF LeaveRun, AcceptFails
  <2>2. CASE \/ Run(l) \/ EpollWait(l) \/ EndBatch(l) \/ Accept(l) \/ ReadLoad(l)
             \/ Notify(l) \/ CheckNewFdEnd(l)
    <3>1. UNCHANGED <<queue, served, closed>>
      BY <2>2 DEF Run, EpollWait, EndBatch, Accept, ReadLoad, Notify, CheckNewFdEnd
    <3> QED BY <3>1, HandOffStutters
  <2>3. CASE \E c \in served[l] : CloseConnection(l, c)
    BY <2>3, CloseHandsOff
  <2>4. CASE AcceptHere(l) \/ Push(l) \/ CheckNewFd(l)
    BY <2>4, AcceptHereHandsOff, PushHandsOff, CheckNewFdHandsOff
  <2>5. CASE NewFd(l)
    <3>1. CASE efd[l] > 0
      <4>1. UNCHANGED <<queue, served, closed>>
        BY <2>5, <3>1 DEF NewFd
      <4> QED BY <4>1, HandOffStutters
    <3>2. CASE ~(efd[l] > 0)
      BY <2>5, <3>2, DestroyHandsOff DEF NewFd
    <3> QED BY <3>1, <3>2
  <2> QED BY <1>2, <2>1, <2>2, <2>3, <2>4, <2>5 DEF Loop
<1> QED BY <1>1, <1>2 DEF Next

\* The server implements the hand-off: an accepted client is given to one loop,
\* which serves it or closes it, and from then on it is never another's.
THEOREM Implements == Spec => HandsOff
<1>1. Init => Abstract!Init
  BY HandOffInit
<1>2. Inv /\ [Next]_vars => [Abstract!Next]_(Abstract!hvars)
  BY NextHandsOff
<1> QED BY <1>1, <1>2, Invariance, PTL DEF Spec, HandsOff, Abstract!Spec

=============================================================================
