----------------------------- MODULE BlockStorage -----------------------------
(***************************************************************************)
(* The allocator of ExecutorData and PollData (utils/BlockStorage.h). An   *)
(* object is on one of two lists through the same `next` pointer: the      *)
(* singly linked free list or the doubly linked used list. Blocks are      *)
(* allocated when the free list is empty and only released by destroy().   *)
(***************************************************************************)
EXTENDS Integers, FiniteSets

CONSTANTS
  blockSize,  \* objects per block, 0x400 in the code
  MaxBlocks   \* bound of the model on the blocks

ASSUME SizesAssumption == blockSize \in Nat \ {0} /\ MaxBlocks \in Nat \ {0}

VARIABLES
  next, prev,    \* blockStorageData of every object
  freeListHead, usedListHead,
  blocks         \* number of blocks allocated

vars == <<next, prev, freeListHead, usedListHead, blocks>>

nullptr == 0
Items == 1 .. MaxBlocks * blockSize
Pointer == Items \cup {nullptr}
BlockItems(b) == (b - 1) * blockSize + 1 .. b * blockSize
Allocated == 1 .. blocks * blockSize

\* Objects follow one another from p, at most n of them.
Walk(p, n) ==
  LET at[i \in 0 .. n] == IF i = 0 THEN p
                          ELSE IF at[i - 1] = nullptr THEN nullptr
                          ELSE next[at[i - 1]]
  IN {at[i] : i \in 0 .. n} \ {nullptr}

Ends(p, n) ==
  LET at[i \in 0 .. n] == IF i = 0 THEN p
                          ELSE IF at[i - 1] = nullptr THEN nullptr
                          ELSE next[at[i - 1]]
  IN at[n] = nullptr

Used == Walk(usedListHead, MaxBlocks * blockSize)
Free == Walk(freeListHead, MaxBlocks * blockSize)

Init ==
  /\ next = [p \in Items |-> nullptr] /\ prev = [p \in Items |-> nullptr]
  /\ freeListHead = nullptr /\ usedListHead = nullptr /\ blocks = 0

\* Wrong: the last object of the block points past it.
NewBlockNextPastEnd(b) ==
  [p \in Items |-> IF p \in BlockItems(b) THEN p + 1 ELSE next[p]]

\* allocateBlock(): the objects of the new block in order; the last has none
\* after it.
NewBlockNext(b) ==
  [p \in Items |-> IF p \notin BlockItems(b) THEN next[p]
                   ELSE IF p = b * blockSize THEN nullptr ELSE p + 1]

\* Wrong: prev of the object itself is not reset.
addToUsedListStale(item, nextNow) ==
  /\ next' = [nextNow EXCEPT ![item] = usedListHead]
  /\ prev' = [p \in Items |-> IF p = usedListHead THEN item ELSE prev[p]]
  /\ usedListHead' = item

\* addToUsedList(), given the free list's next pointers.
addToUsedList(item, nextNow) ==
  /\ next' = [nextNow EXCEPT ![item] = usedListHead]
  /\ prev' = [p \in Items |->
       IF p = item THEN nullptr
       ELSE IF p = usedListHead THEN item ELSE prev[p]]
  /\ usedListHead' = item

\* allocate(), with allocateBlock() when the free list is empty.
allocate ==
  \/ /\ freeListHead # nullptr
     /\ freeListHead' = next[freeListHead]
     /\ addToUsedList(freeListHead, next)
     /\ UNCHANGED blocks
  \/ /\ freeListHead = nullptr /\ blocks < MaxBlocks
     /\ blocks' = blocks + 1
     /\ LET nextNow == NewBlockNext(blocks + 1)
            item == blocks * blockSize + 1 IN
        /\ freeListHead' = nextNow[item]
        /\ addToUsedList(item, nextNow)

\* removeFromUsedList(): the `next` and `prev` it leaves, and the list's head.
UnlinkedNext(item) ==
  [p \in Items |-> IF p = prev[item] THEN next[item] ELSE next[p]]
UnlinkedPrev(item) ==
  [p \in Items |-> IF p = next[item] THEN prev[item] ELSE prev[p]]

\* Wrong: the head of the used list is not moved.
freeKeepsHead(item) ==
  /\ next' = [UnlinkedNext(item) EXCEPT ![item] = freeListHead]
  /\ prev' = UnlinkedPrev(item)
  /\ freeListHead' = item
  /\ UNCHANGED <<usedListHead, blocks>>

\* free() of an object in use.
free(item) ==
  /\ usedListHead' = IF item = usedListHead THEN next[item] ELSE usedListHead
  /\ next' = [UnlinkedNext(item) EXCEPT ![item] = freeListHead]
  /\ prev' = UnlinkedPrev(item)
  /\ freeListHead' = item
  /\ UNCHANGED blocks

\* Wrong: the free list is kept.
destroyKeepsFree ==
  /\ next' = [p \in Items |-> nullptr] /\ prev' = [p \in Items |-> nullptr]
  /\ usedListHead' = nullptr /\ blocks' = 0 /\ UNCHANGED freeListHead

\* destroy(), after which the storage may be used again.
destroy ==
  /\ next' = [p \in Items |-> nullptr] /\ prev' = [p \in Items |-> nullptr]
  /\ freeListHead' = nullptr /\ usedListHead' = nullptr /\ blocks' = 0

Next == allocate \/ (\E p \in Used : free(p)) \/ destroy

Spec == Init /\ [][Next]_vars

----------------------------------------------------------------------------
(* Properties *)

\* Every variable has its type.
TypeOK ==
  /\ next \in [Items -> Pointer] /\ prev \in [Items -> Pointer]
  /\ freeListHead \in Pointer /\ usedListHead \in Pointer
  /\ blocks \in 0 .. MaxBlocks

\* The two lists share the next pointers: both end, they have no object in
\* common, and every object of every block is on one of them.
ListsPartition ==
  /\ Ends(usedListHead, MaxBlocks * blockSize)
  /\ Ends(freeListHead, MaxBlocks * blockSize)
  /\ Used \cap Free = {}
  /\ Used \cup Free = Allocated

\* free() unlinks through prev, which addToUsedList() leaves stale in objects
\* that were freed and allocated again: in the used list it is right.
DoublyLinked ==
  /\ usedListHead # nullptr => prev[usedListHead] = nullptr
  /\ \A p \in Used : next[p] # nullptr => prev[next[p]] = p

\* The storage is a pool: no object is handed out twice, and the walk from
\* head() visits exactly what is in use (checkTimeout() relies on it).
Abstract == INSTANCE Pool WITH used <- Used
IsPool == Abstract!Spec
=============================================================================
