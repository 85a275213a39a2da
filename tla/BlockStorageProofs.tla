-------------------------- MODULE BlockStorageProofs --------------------------
(***************************************************************************)
(* For every size of a block and every number of blocks: the used list and *)
(* the free list stay two lists that share no object, and BlockStorage     *)
(* implements a pool. The invariant is about the sequences that the two    *)
(* lists are; that the walk along the pointers visits exactly their        *)
(* elements is proved by induction on the number of hops.                  *)
(***************************************************************************)
EXTENDS BlockStorage, Induction, FiniteSetTheorems, TLAPS

\* Where one hop along next leads.
Hop(q) == IF q = nullptr THEN nullptr ELSE next[q]

LEMMA HopType ==
  ASSUME next \in [Items -> Pointer], NEW q \in Pointer
  PROVE  Hop(q) \in Pointer
BY DEF Hop, Pointer

\* at holds the places of the first n hops from p.
Run(p, n, at) ==
  /\ at \in [0 .. n -> Pointer]
  /\ at[0] = p
  /\ \A i \in 1 .. n : at[i] = Hop(at[i - 1])

LEMMA RunExists ==
  ASSUME next \in [Items -> Pointer], NEW p \in Pointer, NEW n \in Nat
  PROVE  \E at : Run(p, n, at)
<1> DEFINE T == {m \in Nat : \E at : Run(p, m, at)}
<1>1. 0 \in T
  <2>1. Run(p, 0, [i \in 0 .. 0 |-> p])
    BY DEF Run
  <2> QED BY <2>1
<1>2. ASSUME NEW m \in T PROVE m + 1 \in T
  <2>1. PICK at : Run(p, m, at)
    BY <1>2
  <2> DEFINE more == [i \in 0 .. m + 1 |-> IF i = m + 1 THEN Hop(at[m]) ELSE at[i]]
  <2>2. Hop(at[m]) \in Pointer
    BY <2>1, HopType DEF Run
  <2>3. Run(p, m + 1, more)
    BY <2>1, <2>2 DEF Run
  <2> QED BY <2>3
<1> HIDE DEF T
<1>3. n \in T
  BY <1>1, <1>2, Induction DEF T
<1> QED BY <1>3 DEF T

LEMMA WalkIsRun ==
  ASSUME next \in [Items -> Pointer], NEW p \in Pointer, NEW n \in Nat
  PROVE  \E at : /\ Run(p, n, at)
                 /\ Walk(p, n) = {at[i] : i \in 0 .. n} \ {nullptr}
                 /\ Ends(p, n) <=> at[n] = nullptr
<1> DEFINE Body(f) == [i \in 0 .. n |-> IF i = 0 THEN p
                          ELSE IF f[i - 1] = nullptr THEN nullptr
                          ELSE next[f[i - 1]]]
           at == CHOOSE f : f = Body(f)
<1>1. \E f : f = Body(f)
  <2>1. PICK f : Run(p, n, f)
    BY RunExists
  <2>2. f = Body(f)
    BY <2>1 DEF Run, Hop
  <2> QED BY <2>2
<1>2. Walk(p, n) = {at[i] : i \in 0 .. n} \ {nullptr} /\ (Ends(p, n) <=> at[n] = nullptr)
  BY Zenon DEF Walk, Ends
<1> HIDE DEF at
<1>3. at = Body(at)
  BY <1>1, Zenon DEF at
<1>4. Run(p, n, at)
  <2> DEFINE T == {i \in 0 .. n : at[i] \in Pointer}
  <2>1. 0 \in T
    BY <1>3
  <2>2. ASSUME NEW k \in 0 .. n - 1, k \in T PROVE k + 1 \in T
    BY <2>2, <1>3 DEF Pointer
  <2> HIDE DEF T
  <2>3. \A k \in 0 .. n : k \in T
    BY <2>1, <2>2, InductionUpTo
  <2>4. DOMAIN at = 0 .. n /\ at[0] = p /\ \A i \in 1 .. n : at[i] = Hop(at[i - 1])
    BY <1>3 DEF Hop
  <2>5. at \in [0 .. n -> Pointer]
    BY <2>3, <1>3 DEF T
  <2> QED BY <2>4, <2>5 DEF Run
<1> QED BY <1>2, <1>4
----------------------------------------------------------------------------
(* Lists *)

\* s is the list of n objects, no one twice, that the pointers nx make of head.
List(s, n, nx, head) ==
  /\ n \in Nat /\ s \in [1 .. n -> Items]
  /\ \A i, j \in 1 .. n : s[i] = s[j] => i = j
  /\ head = IF n = 0 THEN nullptr ELSE s[1]
  /\ \A i \in 1 .. n : nx[s[i]] = IF i = n THEN nullptr ELSE s[i + 1]

\* The pointers pv lead back in it.
Back(s, n, pv) == \A i \in 1 .. n : pv[s[i]] = IF i = 1 THEN nullptr ELSE s[i - 1]

\* The objects on it.
On(s, n) == {s[i] : i \in 1 .. n}

LEMMA Bounds ==
  /\ MaxBlocks * blockSize \in Nat
  /\ \A b \in 0 .. MaxBlocks : b * blockSize \in 0 .. MaxBlocks * blockSize
  /\ \A b \in 0 .. MaxBlocks - 1 :
       /\ (b + 1) * blockSize = b * blockSize + blockSize
       /\ b * blockSize + blockSize <= MaxBlocks * blockSize
<1>1. blockSize \in Nat /\ MaxBlocks \in Nat
  BY SizesAssumption
<1>2. \A a \in Nat : a * blockSize \in Nat
  BY <1>1
<1>3. \A a, b \in Nat : (a + b) * blockSize = a * blockSize + b * blockSize
  BY <1>1
<1>4. ASSUME NEW b \in 0 .. MaxBlocks
      PROVE  b * blockSize \in 0 .. MaxBlocks * blockSize
  <2>1. MaxBlocks - b \in Nat /\ MaxBlocks = b + (MaxBlocks - b)
    BY <1>1
  <2>2. MaxBlocks * blockSize = b * blockSize + (MaxBlocks - b) * blockSize
    BY <2>1, <1>3
  <2> QED BY <2>1, <2>2, <1>2
<1>5. ASSUME NEW b \in 0 .. MaxBlocks - 1
      PROVE  /\ (b + 1) * blockSize = b * blockSize + blockSize
             /\ b * blockSize + blockSize <= MaxBlocks * blockSize
  <2>1. (b + 1) * blockSize = b * blockSize + 1 * blockSize
    BY <1>1, <1>3
  <2>2. b + 1 \in 0 .. MaxBlocks
    BY <1>1
  <2> QED BY <2>1, <2>2, <1>1, <1>4
<1> QED BY <1>1, <1>2, <1>4, <1>5

\* A list has no more objects than there are.
LEMMA ListFits ==
  ASSUME NEW s, NEW n, NEW nx, NEW head, List(s, n, nx, head)
  PROVE  n <= MaxBlocks * blockSize
<1>1. n \in Nat /\ MaxBlocks * blockSize \in Nat
  BY Bounds DEF List
<1>2. \A m \in Nat : IsFiniteSet(1 .. m) /\ Cardinality(1 .. m) = m
  <2> SUFFICES ASSUME NEW m \in Nat
               PROVE  IsFiniteSet(1 .. m) /\ Cardinality(1 .. m) = m
    OBVIOUS
  <2>1. 1 \in Int /\ m \in Int /\ (IF 1 > m THEN 0 ELSE m - 1 + 1) = m
    OBVIOUS
  <2> QED BY <2>1, FS_Interval
<1>s. /\ IsFiniteSet(1 .. n) /\ Cardinality(1 .. n) = n
      /\ IsFiniteSet(Items) /\ Cardinality(Items) = MaxBlocks * blockSize
  BY <1>1, <1>2, Zenon DEF Items
<1> SUFFICES ASSUME MaxBlocks * blockSize < n PROVE FALSE
  BY <1>1
<1>3. \E i, j \in 1 .. n : i # j /\ s[i] = s[j]
  BY <1>s, FS_PigeonHole DEF List
<1> QED BY <1>3 DEF List

\* The walk from the head of a list visits its objects, and ends.
LEMMA ListWalk ==
  ASSUME next \in [Items -> Pointer],
         NEW s, NEW n, NEW head, List(s, n, next, head)
  PROVE  /\ Walk(head, MaxBlocks * blockSize) = On(s, n)
         /\ Ends(head, MaxBlocks * blockSize)
<1> DEFINE N == MaxBlocks * blockSize
<1>1. n \in Nat /\ N \in Nat /\ n <= N
  BY Bounds, ListFits DEF List
<1>2. head \in Pointer
  BY DEF List, Pointer
<1>3. PICK at : /\ Run(head, N, at)
                /\ Walk(head, N) = {at[i] : i \in 0 .. N} \ {nullptr}
                /\ Ends(head, N) <=> at[N] = nullptr
  BY <1>1, <1>2, WalkIsRun
<1> HIDE DEF N
<1> DEFINE T == {i \in 0 .. N : at[i] = IF i < n THEN s[i + 1] ELSE nullptr}
<1>4. 0 \in T
  BY <1>1, <1>3 DEF Run, List
<1>5. ASSUME NEW k \in 0 .. N - 1, k \in T PROVE k + 1 \in T
  <2>1. at[k + 1] = Hop(at[k])
    BY <1>1, <1>3 DEF Run
  <2>2. CASE k < n
    <3>1. at[k] = s[k + 1] /\ k + 1 \in 1 .. n /\ s[k + 1] # nullptr
      BY <1>5, <1>1, <2>2, Bounds DEF List, Items, nullptr
    <3>2. Hop(at[k]) = IF k + 1 = n THEN nullptr ELSE s[k + 2]
      BY <3>1 DEF Hop, List
    <3> QED BY <3>1, <3>2, <2>1, <1>1
  <2>3. CASE ~(k < n)
    BY <2>1, <2>3, <1>1, <1>5 DEF Hop
  <2> QED BY <2>2, <2>3
<1> HIDE DEF T
<1>6. \A i \in 0 .. N : at[i] = IF i < n THEN s[i + 1] ELSE nullptr
  <2>1. \A k \in 0 .. N : k \in T
    BY <1>1, <1>4, <1>5, InductionUpTo
  <2> QED BY <2>1 DEF T
<1>7. Ends(head, N)
  BY <1>1, <1>3, <1>6
<1>8. ASSUME NEW q PROVE q \in Walk(head, N) <=> q \in On(s, n)
  <2>1. ASSUME q \in Walk(head, N) PROVE q \in On(s, n)
    <3>1. PICK i \in 0 .. N : q = at[i] /\ q # nullptr
      BY <2>1, <1>3
    <3>2. i < n /\ q = s[i + 1] /\ i + 1 \in 1 .. n
      BY <3>1, <1>1, <1>6
    <3> QED BY <3>2 DEF On
  <2>2. ASSUME q \in On(s, n) PROVE q \in Walk(head, N)
    <3>1. PICK i \in 1 .. n : q = s[i]
      BY <2>2 DEF On
    <3>2. i - 1 \in 0 .. N /\ at[i - 1] = q
      BY <3>1, <1>1, <1>6
    <3>3. q # nullptr
      BY <3>1, Bounds DEF List, Items, nullptr
    <3> QED BY <3>2, <3>3, <1>3
  <2> QED BY <2>1, <2>2
<1> QED BY <1>7, <1>8 DEF N
----------------------------------------------------------------------------
(* What the operations do to a list *)

\* A list is the same while the pointers of its objects are.
LEMMA ListKept ==
  ASSUME NEW s, NEW n, NEW nx, NEW head, List(s, n, nx, head),
         NEW nx2, \A p \in On(s, n) : nx2[p] = nx[p]
  PROVE  List(s, n, nx2, head)
BY DEF List, On

Pushed(item, s, n) == [i \in 1 .. n + 1 |-> IF i = 1 THEN item ELSE s[i - 1]]

\* An object that is put before a list.
LEMMA PushList ==
  ASSUME NEW s, NEW n, NEW nx, NEW head, List(s, n, nx, head),
         NEW item \in Items \ On(s, n),
         NEW nx2, nx2[item] = head, \A p \in On(s, n) : nx2[p] = nx[p]
  PROVE  /\ List(Pushed(item, s, n), n + 1, nx2, item)
         /\ On(Pushed(item, s, n), n + 1) = On(s, n) \cup {item}
<1> DEFINE t == Pushed(item, s, n)
<1>1. /\ n \in Nat /\ t \in [1 .. n + 1 -> Items] /\ t[1] = item
      /\ \A i \in 1 .. n : t[i + 1] = s[i] /\ s[i] \in On(s, n) /\ s[i] # item
      /\ \A i \in 2 .. n + 1 : i - 1 \in 1 .. n /\ t[i] = s[i - 1]
  BY DEF List, On, Pushed
<1> HIDE DEF t
<1>2. \A i, j \in 1 .. n + 1 : t[i] = t[j] => i = j
  <2> SUFFICES ASSUME NEW i \in 1 .. n + 1, NEW j \in 1 .. n + 1, t[i] = t[j]
               PROVE  i = j
    OBVIOUS
  <2>1. CASE i = 1 /\ j = 1
    BY <2>1
  <2>2. CASE i = 1 /\ j # 1
    BY <2>2, <1>1
  <2>3. CASE i # 1 /\ j = 1
    BY <2>3, <1>1
  <2>4. CASE i # 1 /\ j # 1
    <3>1. i - 1 \in 1 .. n /\ j - 1 \in 1 .. n /\ s[i - 1] = s[j - 1]
      BY <2>4, <1>1
    <3> QED BY <3>1, <1>1 DEF List
  <2> QED BY <2>1, <2>2, <2>3, <2>4
<1>3. ASSUME NEW i \in 1 .. n + 1
      PROVE  nx2[t[i]] = IF i = n + 1 THEN nullptr ELSE t[i + 1]
  <2>1. CASE i = 1
    BY <2>1, <1>1 DEF List
  <2>2. CASE i # 1
    <3>1. i - 1 \in 1 .. n /\ t[i] = s[i - 1] /\ nx2[t[i]] = nx[s[i - 1]]
      BY <2>2, <1>1
    <3>2. nx[s[i - 1]] = IF i - 1 = n THEN nullptr ELSE s[i]
      BY <3>1, <1>1 DEF List
    <3> QED BY <3>1, <3>2, <1>1
  <2> QED BY <2>1, <2>2
<1>4. On(t, n + 1) = On(s, n) \cup {item}
  <2>1. ASSUME NEW p \in On(t, n + 1) PROVE p \in On(s, n) \cup {item}
    <3>1. PICK i \in 1 .. n + 1 : p = t[i]
      BY <2>1 DEF On
    <3> QED BY <3>1, <1>1
  <2>2. ASSUME NEW p \in On(s, n) PROVE p \in On(t, n + 1)
    <3>1. PICK i \in 1 .. n : p = s[i]
      BY <2>2 DEF On
    <3>2. i + 1 \in 1 .. n + 1 /\ p = t[i + 1]
      BY <3>1, <1>1
    <3> QED BY <3>2 DEF On
  <2>3. item \in On(t, n + 1)
    <3>1. 1 \in 1 .. n + 1
      BY <1>1
    <3> QED BY <3>1, <1>1 DEF On
  <2> QED BY <2>1, <2>2, <2>3
<1>5. n + 1 \in Nat /\ n + 1 # 0
  BY <1>1
<1>6. List(t, n + 1, nx2, item)
  BY <1>1, <1>2, <1>3, <1>5 DEF List
<1> QED BY <1>4, <1>6 DEF t

LEMMA PushBack ==
  ASSUME NEW s, NEW n, NEW nx, NEW head, List(s, n, nx, head),
         NEW item \in Items \ On(s, n), NEW pv, Back(s, n, pv),
         NEW pv2, pv2[item] = nullptr,
         \A p \in On(s, n) : pv2[p] = IF p = head THEN item ELSE pv[p]
  PROVE  Back(Pushed(item, s, n), n + 1, pv2)
<1> DEFINE t == Pushed(item, s, n)
<1>1. /\ n \in Nat /\ t[1] = item
      /\ \A i \in 1 .. n : t[i + 1] = s[i] /\ s[i] \in On(s, n)
  BY DEF List, On, Pushed
<1> HIDE DEF t
<1> SUFFICES ASSUME NEW i \in 1 .. n + 1
             PROVE  pv2[t[i]] = IF i = 1 THEN nullptr ELSE t[i - 1]
  BY DEF Back, t
<1>2. CASE i = 1
  BY <1>2, <1>1
<1>3. CASE i = 2
  <2>1. 1 \in 1 .. n /\ t[2] = s[1] /\ head = s[1] /\ s[1] \in On(s, n)
    BY <1>3, <1>1 DEF List
  <2> QED BY <2>1, <1>3, <1>1
<1>4. CASE i > 2
  <2>1. /\ i - 1 \in 1 .. n /\ i - 2 \in 1 .. n /\ i - 1 # 1 /\ 1 \in 1 .. n
        /\ t[i] = s[i - 1] /\ t[i - 1] = s[i - 2]
    BY <1>4, <1>1
  <2>2. s[i - 1] # head
    BY <2>1, <1>1 DEF List
  <2>3. pv2[s[i - 1]] = s[i - 2]
    BY <2>1, <2>2, <1>1 DEF Back
  <2> QED BY <2>1, <2>3, <1>4
<1> QED BY <1>2, <1>3, <1>4

\* A list without its first object.
LEMMA PopList ==
  ASSUME NEW s, NEW n, NEW nx, NEW head, List(s, n, nx, head), n # 0,
         NEW nx2, \A p \in On(s, n) \ {head} : nx2[p] = nx[p]
  PROVE  LET t == [i \in 1 .. n - 1 |-> s[i + 1]] IN
         /\ List(t, n - 1, nx2, nx[head])
         /\ On(t, n - 1) = On(s, n) \ {head} /\ head \in On(s, n)
<1> DEFINE t == [i \in 1 .. n - 1 |-> s[i + 1]]
<1>1. /\ n \in Nat /\ n - 1 \in Nat /\ 1 \in 1 .. n /\ head = s[1]
      /\ t \in [1 .. n - 1 -> Items]
      /\ \A i \in 1 .. n - 1 : t[i] = s[i + 1] /\ i + 1 \in 1 .. n
      /\ \A i \in 1 .. n : s[i] \in On(s, n)
  BY DEF List, On
<1> HIDE DEF t
<1>2. \A i \in 1 .. n - 1 : t[i] # head
  BY <1>1 DEF List
<1>3. \A i, j \in 1 .. n - 1 : t[i] = t[j] => i = j
  <2> SUFFICES ASSUME NEW i \in 1 .. n - 1, NEW j \in 1 .. n - 1, t[i] = t[j]
               PROVE  i = j
    OBVIOUS
  <2>1. i + 1 \in 1 .. n /\ j + 1 \in 1 .. n /\ s[i + 1] = s[j + 1]
    BY <1>1
  <2>2. i + 1 = j + 1
    BY <2>1 DEF List
  <2> QED BY <2>2
<1>4. ASSUME NEW i \in 1 .. n - 1
      PROVE  nx2[t[i]] = IF i = n - 1 THEN nullptr ELSE t[i + 1]
  <2>1. i + 1 \in 1 .. n /\ t[i] = s[i + 1] /\ nx2[t[i]] = nx[s[i + 1]]
    BY <1>1, <1>2
  <2>2. nx[s[i + 1]] = IF i + 1 = n THEN nullptr ELSE s[i + 2]
    BY <2>1 DEF List
  <2> QED BY <2>1, <2>2, <1>1
<1>5. nx[head] = IF n - 1 = 0 THEN nullptr ELSE t[1]
  BY <1>1 DEF List
<1>6. On(t, n - 1) = On(s, n) \ {head}
  <2>1. ASSUME NEW p \in On(t, n - 1) PROVE p \in On(s, n) \ {head}
    <3>1. PICK i \in 1 .. n - 1 : p = t[i]
      BY <2>1 DEF On
    <3> QED BY <3>1, <1>1, <1>2
  <2>2. ASSUME NEW p \in On(s, n), p # head PROVE p \in On(t, n - 1)
    <3>1. PICK i \in 1 .. n : p = s[i]
      BY <2>2 DEF On
    <3>2. i - 1 \in 1 .. n - 1 /\ p = t[i - 1]
      BY <3>1, <2>2, <1>1
    <3> QED BY <3>2 DEF On
  <2> QED BY <2>1, <2>2
<1>7. List(t, n - 1, nx2, nx[head])
  BY <1>1, <1>3, <1>4, <1>5 DEF List
<1> QED BY <1>1, <1>6, <1>7 DEF t
Cut(k, s, n) == [i \in 1 .. n - 1 |-> IF i < k THEN s[i] ELSE s[i + 1]]

LEMMA CutFacts ==
  ASSUME NEW s, NEW n, NEW nx, NEW head, List(s, n, nx, head), NEW k \in 1 .. n
  PROVE  /\ n \in Nat /\ n - 1 \in Nat /\ Cut(k, s, n) \in [1 .. n - 1 -> Items]
         /\ \A i \in 1 .. n - 1 :
              /\ i < k => Cut(k, s, n)[i] = s[i] /\ i \in 1 .. n
              /\ ~(i < k) => Cut(k, s, n)[i] = s[i + 1] /\ i + 1 \in 1 .. n
         /\ \A i \in 1 .. n - 1 : Cut(k, s, n)[i] \in On(s, n) \ {s[k]}
         /\ On(Cut(k, s, n), n - 1) = On(s, n) \ {s[k]}
         /\ \A i, j \in 1 .. n - 1 : Cut(k, s, n)[i] = Cut(k, s, n)[j] => i = j
<1> DEFINE t == Cut(k, s, n)
<1>1. /\ n \in Nat /\ n - 1 \in Nat /\ t \in [1 .. n - 1 -> Items]
      /\ \A i \in 1 .. n - 1 :
           /\ i < k => t[i] = s[i] /\ i \in 1 .. n
           /\ ~(i < k) => t[i] = s[i + 1] /\ i + 1 \in 1 .. n
  BY DEF List, Cut
<1> HIDE DEF t
<1>2. ASSUME NEW i \in 1 .. n - 1 PROVE t[i] \in On(s, n) \ {s[k]}
  <2>1. CASE i < k
    <3>1. t[i] = s[i] /\ i \in 1 .. n /\ i # k
      BY <2>1, <1>1
    <3> QED BY <3>1 DEF On, List
  <2>2. CASE ~(i < k)
    <3>1. t[i] = s[i + 1] /\ i + 1 \in 1 .. n /\ i + 1 # k
      BY <2>2, <1>1
    <3> QED BY <3>1 DEF On, List
  <2> QED BY <2>1, <2>2
<1>3. On(t, n - 1) = On(s, n) \ {s[k]}
  <2>1. ASSUME NEW p \in On(t, n - 1) PROVE p \in On(s, n) \ {s[k]}
    <3>1. PICK i \in 1 .. n - 1 : p = t[i]
      BY <2>1 DEF On
    <3> QED BY <3>1, <1>2
  <2>2. ASSUME NEW p \in On(s, n) \ {s[k]} PROVE p \in On(t, n - 1)
    <3>1. PICK i \in 1 .. n : p = s[i]
      BY <2>2 DEF On
    <3>2. i # k
      BY <3>1, <2>2
    <3>3. CASE i < k
      <4>1. i \in 1 .. n - 1 /\ p = t[i]
        BY <3>1, <3>3, <1>1
      <4> QED BY <4>1 DEF On
    <3>4. CASE ~(i < k)
      <4>1. i - 1 \in 1 .. n - 1 /\ ~(i - 1 < k) /\ i - 1 + 1 = i
        BY <3>1, <3>2, <3>4, <1>1
      <4>2. p = t[i - 1]
        BY <4>1, <3>1, <1>1
      <4> QED BY <4>1, <4>2 DEF On
    <3> QED BY <3>3, <3>4
  <2> QED BY <2>1, <2>2
<1>4. ASSUME NEW i \in 1 .. n - 1, NEW j \in 1 .. n - 1, t[i] = t[j]
      PROVE  i = j
  <2>1. CASE i < k /\ j < k
    <3>1. s[i] = s[j] /\ i \in 1 .. n /\ j \in 1 .. n
      BY <2>1, <1>4, <1>1
    <3> QED BY <3>1 DEF List
  <2>2. CASE i < k /\ ~(j < k)
    <3>1. s[i] = s[j + 1] /\ i \in 1 .. n /\ j + 1 \in 1 .. n
      BY <2>2, <1>4, <1>1
    <3>2. i = j + 1
      BY <3>1 DEF List
    <3> QED BY <3>2, <2>2
  <2>3. CASE ~(i < k) /\ j < k
    <3>1. s[i + 1] = s[j] /\ i + 1 \in 1 .. n /\ j \in 1 .. n
      BY <2>3, <1>4, <1>1
    <3>2. i + 1 = j
      BY <3>1 DEF List
    <3> QED BY <3>2, <2>3
  <2>4. CASE ~(i < k) /\ ~(j < k)
    <3>1. s[i + 1] = s[j + 1] /\ i + 1 \in 1 .. n /\ j + 1 \in 1 .. n
      BY <2>4, <1>4, <1>1
    <3>2. i + 1 = j + 1
      BY <3>1 DEF List
    <3> QED BY <3>2
  <2> QED BY <2>1, <2>2, <2>3, <2>4
<1> QED BY <1>1, <1>2, <1>3, <1>4 DEF t

\* An object that is unlinked from a doubly linked list.
LEMMA CutList ==
  ASSUME NEW s, NEW n, NEW nx, NEW head, List(s, n, nx, head), NEW k \in 1 .. n,
         NEW pv, Back(s, n, pv),
         NEW nx2, \A p \in On(s, n) \ {s[k]} :
                    nx2[p] = IF p = pv[s[k]] THEN nx[s[k]] ELSE nx[p]
  PROVE  List(Cut(k, s, n), n - 1, nx2, IF s[k] = head THEN nx[s[k]] ELSE head)
<1> DEFINE t == Cut(k, s, n)
<1>1. /\ n \in Nat /\ n - 1 \in Nat /\ t \in [1 .. n - 1 -> Items]
      /\ \A i \in 1 .. n - 1 :
           /\ i < k => t[i] = s[i] /\ i \in 1 .. n
           /\ ~(i < k) => t[i] = s[i + 1] /\ i + 1 \in 1 .. n
      /\ \A i \in 1 .. n - 1 : t[i] \in On(s, n) \ {s[k]}
      /\ \A i, j \in 1 .. n - 1 : t[i] = t[j] => i = j
  BY CutFacts
<1> HIDE DEF t
<1>2. /\ pv[s[k]] = IF k = 1 THEN nullptr ELSE s[k - 1]
      /\ nx[s[k]] = IF k = n THEN nullptr ELSE s[k + 1]
  BY DEF Back, List
<1>3. (IF s[k] = head THEN nx[s[k]] ELSE head) = IF n - 1 = 0 THEN nullptr ELSE t[1]
  <2>1. 1 \in 1 .. n /\ head = s[1] /\ (s[k] = head <=> k = 1)
    BY <1>1 DEF List
  <2>2. CASE k = 1
    BY <2>1, <2>2, <1>1, <1>2
  <2>3. CASE k # 1
    <3>1. 1 \in 1 .. n - 1 /\ 1 < k
      BY <2>3, <1>1
    <3> QED BY <3>1, <2>1, <2>3, <1>1
  <2> QED BY <2>2, <2>3
<1>4. ASSUME NEW i \in 1 .. n - 1
      PROVE  nx2[t[i]] = IF i = n - 1 THEN nullptr ELSE t[i + 1]
  <2>0. nx2[t[i]] = IF t[i] = pv[s[k]] THEN nx[s[k]] ELSE nx[t[i]]
    BY <1>1
  <2>1. CASE i < k - 1
    <3>1. /\ t[i] = s[i] /\ i \in 1 .. n /\ k - 1 \in 1 .. n /\ k # 1 /\ i # k - 1
          /\ i # n - 1 /\ i # n
          /\ i + 1 \in 1 .. n - 1 /\ i + 1 < k
      BY <2>1, <1>1
    <3>2. t[i] # pv[s[k]]
      BY <3>1, <1>2 DEF List
    <3>3. nx[t[i]] = s[i + 1]
      BY <3>1 DEF List
    <3>4. t[i + 1] = s[i + 1]
      BY <3>1, <1>1
    <3> QED BY <3>1, <3>2, <3>3, <3>4, <2>0
  <2>2. CASE i = k - 1
    <3>1. t[i] = s[k - 1] /\ k # 1 /\ nx2[t[i]] = nx[s[k]]
      BY <2>0, <2>2, <1>1, <1>2
    <3>2. CASE k = n
      BY <3>1, <3>2, <2>2, <1>1, <1>2
    <3>3. CASE k # n
      <4>1. i + 1 \in 1 .. n - 1 /\ ~(i + 1 < k) /\ i # n - 1
        BY <3>3, <2>2, <1>1
      <4>2. t[i + 1] = s[i + 2]
        BY <4>1, <1>1
      <4> QED BY <4>1, <4>2, <3>1, <3>3, <2>2, <1>1, <1>2
    <3> QED BY <3>2, <3>3
  <2>3. CASE i > k - 1
    <3>1. t[i] = s[i + 1] /\ i + 1 \in 1 .. n /\ ~(i < k)
      BY <2>3, <1>1
    <3>2. t[i] # pv[s[k]]
      <4>1. CASE k = 1
        BY <4>1, <1>1, <1>2, Bounds DEF Items, nullptr, List
      <4>2. CASE k # 1
        <5>1. k - 1 \in 1 .. n /\ k - 1 # i + 1 /\ pv[s[k]] = s[k - 1]
          BY <4>2, <3>1, <1>1, <1>2
        <5> QED BY <5>1, <3>1 DEF List
      <4> QED BY <4>1, <4>2
    <3>3. nx2[t[i]] = IF i + 1 = n THEN nullptr ELSE s[i + 2]
      <4>1. nx[s[i + 1]] = IF i + 1 = n THEN nullptr ELSE s[i + 1 + 1]
        BY <3>1 DEF List
      <4> QED BY <4>1, <3>1, <3>2, <2>0
    <3>4. CASE i = n - 1
      BY <3>3, <3>4, <1>1
    <3>5. CASE i # n - 1
      <4>1. i + 1 \in 1 .. n - 1 /\ ~(i + 1 < k) /\ i + 1 # n
        BY <3>5, <3>1, <1>1
      <4>2. t[i + 1] = s[i + 2]
        BY <4>1, <1>1
      <4> QED BY <4>1, <4>2, <3>3, <3>5
    <3> QED BY <3>4, <3>5
  <2> QED BY <2>1, <2>2, <2>3
<1>5. List(t, n - 1, nx2, IF s[k] = head THEN nx[s[k]] ELSE head)
  BY <1>1, <1>3, <1>4 DEF List
<1> QED BY <1>5 DEF t

LEMMA CutBack ==
  ASSUME NEW s, NEW n, NEW nx, NEW head, List(s, n, nx, head), NEW k \in 1 .. n,
         NEW pv, Back(s, n, pv),
         NEW pv2, \A p \in On(s, n) \ {s[k]} :
                    pv2[p] = IF p = nx[s[k]] THEN pv[s[k]] ELSE pv[p]
  PROVE  Back(Cut(k, s, n), n - 1, pv2)
<1> DEFINE t == Cut(k, s, n)
<1>1. /\ n \in Nat
      /\ \A i \in 1 .. n - 1 :
           /\ i < k => t[i] = s[i] /\ i \in 1 .. n
           /\ ~(i < k) => t[i] = s[i + 1] /\ i + 1 \in 1 .. n
      /\ \A i \in 1 .. n - 1 : t[i] \in On(s, n) \ {s[k]}
  BY CutFacts
<1> HIDE DEF t
<1>2. /\ pv[s[k]] = IF k = 1 THEN nullptr ELSE s[k - 1]
      /\ nx[s[k]] = IF k = n THEN nullptr ELSE s[k + 1]
      /\ \A i \in 1 .. n : s[i] # nullptr
  BY Bounds DEF Back, List, Items, nullptr
<1> SUFFICES ASSUME NEW i \in 1 .. n - 1
             PROVE  pv2[t[i]] = IF i = 1 THEN nullptr ELSE t[i - 1]
  BY DEF Back, t
<1>3. pv2[t[i]] = IF t[i] = nx[s[k]] THEN pv[s[k]] ELSE pv[t[i]]
  BY <1>1
<1>4. CASE i < k
  <2>1. /\ t[i] = s[i] /\ i \in 1 .. n
        /\ i # 1 => i - 1 \in 1 .. n - 1 /\ i - 1 < k
    BY <1>4, <1>1
  <2>2. t[i] # nx[s[k]]
    <3>1. CASE k = n
      BY <3>1, <2>1, <1>2
    <3>2. CASE k # n
      <4>1. k + 1 \in 1 .. n /\ k + 1 # i /\ nx[s[k]] = s[k + 1]
        BY <3>2, <1>4, <1>1, <1>2
      <4> QED BY <4>1, <2>1 DEF List
    <3> QED BY <3>1, <3>2
  <2>3. pv[s[i]] = IF i = 1 THEN nullptr ELSE s[i - 1]
    BY <2>1 DEF Back
  <2>4. i # 1 => t[i - 1] = s[i - 1]
    BY <2>1, <1>1
  <2> QED BY <2>1, <2>2, <2>3, <2>4, <1>3
<1>5. CASE i = k
  <2>1. t[i] = s[k + 1] /\ k # n /\ nx[s[k]] = s[k + 1]
    BY <1>5, <1>1, <1>2
  <2>2. pv2[t[i]] = IF k = 1 THEN nullptr ELSE s[k - 1]
    BY <2>1, <1>2, <1>3
  <2>3. i # 1 => t[i - 1] = s[i - 1]
    <3>1. i # 1 => i - 1 \in 1 .. n - 1 /\ i - 1 < k
      BY <1>1, <1>5
    <3> QED BY <3>1, <1>1
  <2> QED BY <2>2, <2>3, <1>5
<1>6. CASE i > k
  <2>1. /\ t[i] = s[i + 1] /\ i + 1 \in 1 .. n /\ i # 1
        /\ i - 1 \in 1 .. n - 1 /\ ~(i - 1 < k)
    BY <1>6, <1>1
  <2>2. t[i] # nx[s[k]]
    <3>1. CASE k = n
      BY <3>1, <1>6
    <3>2. CASE k # n
      <4>1. k + 1 \in 1 .. n /\ k + 1 # i + 1 /\ nx[s[k]] = s[k + 1]
        BY <3>2, <1>6, <1>1, <1>2
      <4> QED BY <4>1, <2>1 DEF List
    <3> QED BY <3>1, <3>2
  <2>3. pv[s[i + 1]] = s[i]
    BY <2>1 DEF Back
  <2>4. t[i - 1] = s[i]
    <3>1. t[i - 1] = s[i - 1 + 1]
      BY <2>1, <1>1
    <3> QED BY <3>1
  <2> QED BY <2>1, <2>2, <2>3, <2>4, <1>3
<1> QED BY <1>4, <1>5, <1>6
----------------------------------------------------------------------------
(* The invariant *)

\* s is the used list, of m objects, and t the free list, of n.
Lists(s, m, t, n) ==
  /\ List(s, m, next, usedListHead) /\ Back(s, m, prev)
  /\ List(t, n, next, freeListHead)
  /\ On(s, m) \cap On(t, n) = {}
  /\ On(s, m) \cup On(t, n) = Allocated

\* The inductive invariant: the two heads are those of two such lists.
Inv == TypeOK /\ \E s, m, t, n : Lists(s, m, t, n)

\* The walks visit the lists.
LEMMA ListsAreWalked ==
  ASSUME TypeOK, NEW s, NEW m, NEW t, NEW n, Lists(s, m, t, n)
  PROVE  /\ Used = On(s, m) /\ Ends(usedListHead, MaxBlocks * blockSize)
         /\ Free = On(t, n) /\ Ends(freeListHead, MaxBlocks * blockSize)
BY ListWalk DEF TypeOK, Lists, Used, Free

WalkIsList == \A s, m, t, n : Lists(s, m, t, n) => Used = On(s, m)

LEMMA UsedIsWalked == TypeOK => WalkIsList
BY ListsAreWalked DEF WalkIsList

LEMMA InitInv == Init => Inv
<1> SUFFICES ASSUME Init PROVE Inv
  OBVIOUS
<1>1. TypeOK
  BY SizesAssumption DEF Init, TypeOK, Pointer
<1> DEFINE none == [i \in 1 .. 0 |-> 1]
<1>2. /\ \A nx : List(none, 0, nx, nullptr)
      /\ Back(none, 0, prev) /\ On(none, 0) = {}
  BY DEF List, Back, On
<1>3. Allocated = {}
  BY SizesAssumption DEF Init, Allocated
<1> HIDE DEF none
<1>4. Lists(none, 0, none, 0)
  BY <1>2, <1>3 DEF Init, Lists
<1> QED BY <1>1, <1>4 DEF Inv

LEMMA Parts ==
  ASSUME TypeOK, NEW s, NEW m, NEW t, NEW n, Lists(s, m, t, n)
  PROVE  /\ m \in Nat /\ n \in Nat
         /\ On(s, m) \subseteq Items /\ On(t, n) \subseteq Items
         /\ n = 0 <=> freeListHead = nullptr
         /\ n = 0 => On(t, n) = {}
         /\ usedListHead \in On(s, m) \cup {nullptr}
         /\ \A p \in On(s, m) : prev[p] \in On(s, m) \cup {nullptr}
         /\ nullptr \notin Items
<1>1. nullptr \notin Items
  BY Bounds DEF Items, nullptr
<1>2. \A p \in On(s, m) : prev[p] \in On(s, m) \cup {nullptr}
  <2> SUFFICES ASSUME NEW p \in On(s, m) PROVE prev[p] \in On(s, m) \cup {nullptr}
    OBVIOUS
  <2>1. PICK i \in 1 .. m : p = s[i]
    BY DEF On
  <2>2. m \in Nat /\ prev[p] = IF i = 1 THEN nullptr ELSE s[i - 1]
    BY <2>1 DEF Lists, Back, List
  <2>3. i # 1 => i - 1 \in 1 .. m
    BY <2>1, <2>2
  <2> QED BY <2>2, <2>3 DEF On
<1>3. usedListHead \in On(s, m) \cup {nullptr}
  BY DEF Lists, List, On
<1>4. n = 0 <=> freeListHead = nullptr
  BY <1>1 DEF Lists, List
<1>5. /\ m \in Nat /\ n \in Nat
      /\ n = 0 => On(t, n) = {}
      /\ On(s, m) \subseteq Items /\ On(t, n) \subseteq Items
  BY DEF Lists, List, On
<1> QED BY <1>1, <1>2, <1>3, <1>4, <1>5

\* The object is taken from the free list.
LEMMA AllocateFree ==
  ASSUME TypeOK, NEW s, NEW m, NEW t, NEW n, Lists(s, m, t, n),
         freeListHead # nullptr, freeListHead' = next[freeListHead],
         addToUsedList(freeListHead, next), UNCHANGED blocks
  PROVE  /\ TypeOK' /\ freeListHead \in Items \ On(s, m)
         /\ \E s2, m2, t2, n2 :
              /\ Lists(s2, m2, t2, n2)'
              /\ On(s2, m2) = On(s, m) \cup {freeListHead}
<1> DEFINE item == freeListHead
<1> PICK s2, t2 : s2 = Pushed(item, s, m) /\ t2 = [i \in 1 .. n - 1 |-> t[i + 1]]
  OBVIOUS
<1>0. /\ n # 0 /\ item \in Items /\ nullptr \notin Items
      /\ On(s, m) \subseteq Items /\ On(t, n) \subseteq Items
      /\ usedListHead \in On(s, m) \cup {nullptr}
      /\ On(s, m) \cap On(t, n) = {} /\ On(s, m) \cup On(t, n) = Allocated
  BY Parts DEF TypeOK, Pointer, Lists
<1>1. item \in On(t, n)
  BY <1>0, PopList DEF Lists
<1>2. item \notin On(s, m)
  BY <1>0, <1>1
<1>3. /\ next \in [Items -> Pointer] /\ prev \in [Items -> Pointer]
      /\ usedListHead \in Pointer /\ next[item] \in Pointer
  BY <1>0 DEF TypeOK
<1>4. /\ next' \in [Items -> Pointer] /\ next'[item] = usedListHead
      /\ \A p \in Items \ {item} : next'[p] = next[p]
  BY <1>0, <1>3 DEF addToUsedList
<1>5. /\ prev' \in [Items -> Pointer] /\ prev'[item] = nullptr
      /\ \A p \in Items \ {item} : prev'[p] = IF p = usedListHead THEN item ELSE prev[p]
  BY <1>0, <1>3 DEF addToUsedList, Pointer
<1>6. usedListHead' = item /\ item \in Pointer /\ freeListHead' = next[item]
  BY <1>0 DEF addToUsedList, Pointer
<1>7. TypeOK'
  BY <1>3, <1>4, <1>5, <1>6 DEF TypeOK
<1>8. \A p \in On(s, m) : p \in Items \ {item}
  BY <1>0, <1>2
<1>9. /\ List(s2, m + 1, next', item) /\ On(s2, m + 1) = On(s, m) \cup {item}
  BY <1>0, <1>2, <1>4, <1>8, PushList DEF Lists
<1>10. Back(s2, m + 1, prev')
  <2>1. \A p \in On(s, m) : prev'[p] = IF p = usedListHead THEN item ELSE prev[p]
    BY <1>5, <1>8
  <2> QED BY <1>0, <1>2, <1>5, <2>1, PushBack DEF Lists
<1>11. List(t2, n - 1, next', next[item]) /\ On(t2, n - 1) = On(t, n) \ {item}
  <2>1. \A p \in On(t, n) \ {item} : next'[p] = next[p]
    BY <1>0, <1>4
  <2> QED BY <1>0, <2>1, PopList DEF Lists
<1>12. Allocated' = Allocated
  BY DEF Allocated
<1>13. /\ On(s2, m + 1) \cap On(t2, n - 1) = {}
       /\ On(s2, m + 1) \cup On(t2, n - 1) = Allocated'
  BY <1>0, <1>1, <1>9, <1>11, <1>12
<1>14. Lists(s2, m + 1, t2, n - 1)'
  BY <1>6, <1>9, <1>10, <1>11, <1>13 DEF Lists
<1> QED BY <1>0, <1>2, <1>7, <1>9, <1>14
\* The next pointers of a new block, from K + 1 on.
LEMMA NewBlock ==
  ASSUME TypeOK, blocks < MaxBlocks, NEW K, K = blocks * blockSize
  PROVE  /\ K \in Nat /\ K + blockSize <= MaxBlocks * blockSize
         /\ (blocks + 1) * blockSize = K + blockSize
         /\ Allocated = 1 .. K
         /\ NewBlockNext(blocks + 1) \in [Items -> Pointer]
         /\ \A p \in Items : NewBlockNext(blocks + 1)[p] =
              IF p \notin K + 1 .. K + blockSize THEN next[p]
              ELSE IF p = K + blockSize THEN nullptr ELSE p + 1
<1>1. /\ blocks \in 0 .. MaxBlocks - 1 /\ blockSize \in Nat /\ MaxBlocks \in Nat
      /\ next \in [Items -> Pointer]
  BY SizesAssumption DEF TypeOK
<1>2. /\ K \in Nat /\ K + blockSize <= MaxBlocks * blockSize
      /\ (blocks + 1) * blockSize = K + blockSize
  BY <1>1, Bounds
<1>3. BlockItems(blocks + 1) = K + 1 .. K + blockSize
  <2>1. blocks + 1 - 1 = blocks
    BY <1>1
  <2>2. (blocks + 1 - 1) * blockSize = K
    BY ONLY <2>1, K = blocks * blockSize
  <2> QED BY ONLY <1>1, <1>2, <2>2 DEF BlockItems
<1>4. \A p \in Items : NewBlockNext(blocks + 1)[p] =
        IF p \notin K + 1 .. K + blockSize THEN next[p]
        ELSE IF p = K + blockSize THEN nullptr ELSE p + 1
  BY <1>2, <1>3 DEF NewBlockNext
<1>5. ASSUME NEW p \in Items PROVE NewBlockNext(blocks + 1)[p] \in Pointer
  <2>1. p \in K + 1 .. K + blockSize /\ p # K + blockSize => p + 1 \in Items
    BY <1>1, <1>2, Bounds DEF Items
  <2> QED BY <2>1, <1>1, <1>4 DEF Pointer
<1>6. NewBlockNext(blocks + 1) \in [Items -> Pointer]
  <2>1. NewBlockNext(blocks + 1) = [p \in Items |-> NewBlockNext(blocks + 1)[p]]
    BY DEF NewBlockNext
  <2> HIDE DEF NewBlockNext
  <2> QED BY <2>1, <1>5
<1>7. Allocated = 1 .. K
  BY DEF Allocated
<1> QED BY <1>2, <1>4, <1>6, <1>7

\* The free list is empty: the first object of a new block is taken.
LEMMA AllocateBlock ==
  ASSUME TypeOK, NEW s, NEW m, NEW t, NEW n, Lists(s, m, t, n),
         freeListHead = nullptr, blocks < MaxBlocks, blocks' = blocks + 1,
         freeListHead' = NewBlockNext(blocks + 1)[blocks * blockSize + 1],
         addToUsedList(blocks * blockSize + 1, NewBlockNext(blocks + 1))
  PROVE  /\ TypeOK' /\ blocks * blockSize + 1 \in Items \ On(s, m)
         /\ \E s2, m2, t2, n2 :
              /\ Lists(s2, m2, t2, n2)'
              /\ On(s2, m2) = On(s, m) \cup {blocks * blockSize + 1}
<1> PICK K, nx : K = blocks * blockSize /\ nx = NewBlockNext(blocks + 1)
  OBVIOUS
<1> DEFINE item == K + 1
<1> PICK s2, t2 : /\ s2 = Pushed(item, s, m)
                  /\ t2 = [i \in 1 .. blockSize - 1 |-> item + i]
  OBVIOUS
<1>1. /\ K \in Nat /\ K + blockSize <= MaxBlocks * blockSize
      /\ (blocks + 1) * blockSize = K + blockSize
      /\ Allocated = 1 .. K
      /\ nx \in [Items -> Pointer]
      /\ \A p \in Items : nx[p] =
           IF p \notin K + 1 .. K + blockSize THEN next[p]
           ELSE IF p = K + blockSize THEN nullptr ELSE p + 1
  BY NewBlock
<1>2. /\ blockSize \in Nat /\ blockSize # 0 /\ MaxBlocks * blockSize \in Nat
      /\ \A p \in K + 1 .. K + blockSize : p \in Items
  BY <1>1, SizesAssumption, Bounds DEF Items
<1>3. /\ n = 0 /\ On(t, n) = {} /\ nullptr \notin Items
      /\ On(s, m) \subseteq Items /\ usedListHead \in On(s, m) \cup {nullptr}
  BY Parts
<1>4. On(s, m) = 1 .. K
  BY <1>1, <1>3 DEF Lists
<1>5. item \in Items /\ item \notin On(s, m)
  BY <1>1, <1>2, <1>4
<1>6. /\ prev \in [Items -> Pointer] /\ usedListHead \in Pointer
  BY DEF TypeOK
<1>7. /\ next' \in [Items -> Pointer] /\ next'[item] = usedListHead
      /\ \A p \in Items \ {item} : next'[p] = nx[p]
  BY <1>1, <1>5, <1>6 DEF addToUsedList
<1>8. /\ prev' \in [Items -> Pointer] /\ prev'[item] = nullptr
      /\ \A p \in Items \ {item} : prev'[p] = IF p = usedListHead THEN item ELSE prev[p]
  BY <1>5, <1>6 DEF addToUsedList, Pointer
<1>9. usedListHead' = item /\ item \in Pointer /\ freeListHead' = nx[item]
  BY <1>5 DEF addToUsedList, Pointer
<1>10. TypeOK'
  <2>1. blocks' \in 0 .. MaxBlocks
    BY SizesAssumption DEF TypeOK
  <2>2. freeListHead' \in Pointer
    BY <1>1, <1>5, <1>9
  <2> QED BY <1>7, <1>8, <1>9, <2>1, <2>2 DEF TypeOK
<1>11. \A p \in On(s, m) : p \in Items \ {item} /\ nx[p] = next[p]
  BY <1>1, <1>3, <1>4, <1>5
<1>12. List(s2, m + 1, next', item) /\ On(s2, m + 1) = On(s, m) \cup {item}
  <2>1. \A p \in On(s, m) : next'[p] = next[p]
    BY <1>7, <1>11
  <2> QED BY <1>5, <1>7, <2>1, PushList DEF Lists
<1>13. Back(s2, m + 1, prev')
  <2>1. \A p \in On(s, m) : prev'[p] = IF p = usedListHead THEN item ELSE prev[p]
    BY <1>8, <1>11
  <2> QED BY <1>5, <1>8, <2>1, PushBack DEF Lists
<1>14. List(t2, blockSize - 1, next', nx[item])
  <2>1. /\ blockSize - 1 \in Nat
        /\ \A i \in 1 .. blockSize - 1 :
             t2[i] = item + i /\ t2[i] \in K + 1 .. K + blockSize /\ t2[i] # item
    BY <1>1, <1>2
  <2>2. /\ t2 \in [1 .. blockSize - 1 -> Items]
        /\ \A i, j \in 1 .. blockSize - 1 : t2[i] = t2[j] => i = j
    <3>1. \A i \in 1 .. blockSize - 1 : t2[i] \in Items
      BY <2>1, <1>2
    <3>2. \A i, j \in 1 .. blockSize - 1 : item + i = item + j => i = j
      BY <1>1, <1>2
    <3> QED BY <2>1, <3>1, <3>2
  <2>3. ASSUME NEW i \in 1 .. blockSize - 1
        PROVE  next'[t2[i]] = IF i = blockSize - 1 THEN nullptr ELSE t2[i + 1]
    <3>1. next'[t2[i]] = IF t2[i] = K + blockSize THEN nullptr ELSE t2[i] + 1
      BY <2>1, <1>1, <1>2, <1>7
    <3>2. i # blockSize - 1 => i + 1 \in 1 .. blockSize - 1 /\ t2[i + 1] = t2[i] + 1
      BY <2>1, <1>1, <1>2
    <3> QED BY <3>1, <3>2, <2>1, <1>1, <1>2
  <2>4. nx[item] = IF blockSize - 1 = 0 THEN nullptr ELSE t2[1]
    BY <1>1, <1>2, <1>5
  <2> QED BY <2>1, <2>2, <2>3, <2>4 DEF List
<1>15. On(t2, blockSize - 1) = K + 2 .. K + blockSize
  <2>1. ASSUME NEW p \in On(t2, blockSize - 1) PROVE p \in K + 2 .. K + blockSize
    <3>1. PICK i \in 1 .. blockSize - 1 : p = t2[i]
      BY <2>1 DEF On
    <3> QED BY <3>1, <1>1, <1>2
  <2>2. ASSUME NEW p \in K + 2 .. K + blockSize PROVE p \in On(t2, blockSize - 1)
    <3>1. p - item \in 1 .. blockSize - 1 /\ t2[p - item] = p
      BY <1>1, <1>2
    <3> QED BY <3>1 DEF On
  <2> QED BY <2>1, <2>2
<1>16. Allocated' = 1 .. K + blockSize
  <2>1. Allocated' = 1 .. blocks' * blockSize
    BY DEF Allocated
  <2> QED BY <2>1, <1>1
<1>17. /\ On(s2, m + 1) \cap On(t2, blockSize - 1) = {}
       /\ On(s2, m + 1) \cup On(t2, blockSize - 1) = Allocated'
  <2>1. /\ (1 .. K) \cup {item} = 1 .. K + 1
        /\ (1 .. K + 1) \cap (K + 2 .. K + blockSize) = {}
        /\ (1 .. K + 1) \cup (K + 2 .. K + blockSize) = 1 .. K + blockSize
    BY <1>1, <1>2
  <2> QED BY <2>1, <1>4, <1>12, <1>15, <1>16
<1>18. Lists(s2, m + 1, t2, blockSize - 1)'
  BY <1>9, <1>12, <1>13, <1>14, <1>17 DEF Lists
<1> QED BY <1>5, <1>10, <1>12, <1>18

\* An object of the used list goes back to the free list.
LEMMA FreeLists ==
  ASSUME TypeOK, NEW s, NEW m, NEW t, NEW n, Lists(s, m, t, n),
         NEW item \in On(s, m), free(item)
  PROVE  /\ TypeOK'
         /\ \E s2, m2, t2, n2 :
              Lists(s2, m2, t2, n2)' /\ On(s2, m2) = On(s, m) \ {item}
<1>1. PICK k \in 1 .. m : item = s[k]
  BY DEF On
<1> PICK s2, t2 : s2 = Cut(k, s, m) /\ t2 = Pushed(item, t, n)
  OBVIOUS
<1>2. /\ On(s, m) \subseteq Items /\ On(t, n) \subseteq Items /\ nullptr \notin Items
      /\ prev[item] \in On(s, m) \cup {nullptr}
      /\ On(s, m) \cap On(t, n) = {} /\ On(s, m) \cup On(t, n) = Allocated
  BY Parts DEF Lists
<1>3. /\ next \in [Items -> Pointer] /\ prev \in [Items -> Pointer]
      /\ usedListHead \in Pointer /\ freeListHead \in Pointer
      /\ item \in Items /\ item \in Pointer
      /\ next[item] \in Pointer /\ prev[item] \in Pointer
  BY <1>2 DEF TypeOK, Pointer
<1>4. /\ next' \in [Items -> Pointer] /\ next'[item] = freeListHead
      /\ \A p \in Items \ {item} :
           next'[p] = IF p = prev[item] THEN next[item] ELSE next[p]
  BY <1>3 DEF free, UnlinkedNext
<1>5. /\ prev' \in [Items -> Pointer]
      /\ \A p \in Items : prev'[p] = IF p = next[item] THEN prev[item] ELSE prev[p]
  BY <1>3 DEF free, UnlinkedPrev
<1>6. /\ freeListHead' = item /\ UNCHANGED blocks
      /\ usedListHead' = IF item = usedListHead THEN next[item] ELSE usedListHead
  BY DEF free
<1>7. TypeOK'
  BY <1>3, <1>4, <1>5, <1>6 DEF TypeOK
<1>8. /\ List(s2, m - 1, next', usedListHead')
      /\ Back(s2, m - 1, prev') /\ On(s2, m - 1) = On(s, m) \ {item}
  <2>1. /\ \A p \in On(s, m) \ {s[k]} :
             next'[p] = IF p = prev[s[k]] THEN next[s[k]] ELSE next[p]
        /\ \A p \in On(s, m) \ {s[k]} :
             prev'[p] = IF p = next[s[k]] THEN prev[s[k]] ELSE prev[p]
    BY <1>1, <1>2, <1>4, <1>5
  <2>2. List(s2, m - 1, next', IF s[k] = usedListHead THEN next[s[k]] ELSE usedListHead)
    BY <2>1, CutList DEF Lists
  <2>3. Back(s2, m - 1, prev')
    BY <2>1, CutBack DEF Lists
  <2>4. On(s2, m - 1) = On(s, m) \ {item}
    BY <1>1, CutFacts DEF Lists
  <2> QED BY <2>2, <2>3, <2>4, <1>1, <1>6
<1>9. List(t2, n + 1, next', item) /\ On(t2, n + 1) = On(t, n) \cup {item}
  <2>1. item \in Items \ On(t, n) /\ \A p \in On(t, n) : next'[p] = next[p]
    BY <1>2, <1>3, <1>4
  <2> QED BY <2>1, <1>4, PushList DEF Lists
<1>10. Allocated' = Allocated
  BY <1>6 DEF Allocated
<1>11. /\ On(s2, m - 1) \cap On(t2, n + 1) = {}
       /\ On(s2, m - 1) \cup On(t2, n + 1) = Allocated'
  BY <1>2, <1>8, <1>9, <1>10
<1>12. Lists(s2, m - 1, t2, n + 1)'
  BY <1>6, <1>8, <1>9, <1>11 DEF Lists
<1> QED BY <1>7, <1>8, <1>12
\* destroy() leaves two empty lists.
LEMMA DestroyInv == destroy => Inv'
<1> SUFFICES ASSUME destroy PROVE Inv'
  OBVIOUS
<1> USE DEF destroy
<1>1. TypeOK'
  BY SizesAssumption DEF TypeOK, Pointer
<1> PICK none : none = [i \in 1 .. 0 |-> 1]
  OBVIOUS
<1>2. /\ \A nx : List(none, 0, nx, nullptr)
      /\ \A pv : Back(none, 0, pv)
      /\ On(none, 0) = {}
  BY DEF List, Back, On
<1>3. Allocated' = {}
  BY SizesAssumption DEF Allocated
<1>4. Lists(none, 0, none, 0)'
  BY <1>2, <1>3 DEF Lists
<1> QED BY <1>1, <1>4 DEF Inv

\* What a step does to the used list: what the refinement and the invariant need.
LEMMA StepFacts ==
  ASSUME Inv, Next
  PROVE  Inv' /\ Abstract!Next
<1>0. TypeOK
  BY DEF Inv
<1> PICK s, m, t, n : Lists(s, m, t, n)
  BY DEF Inv
<1>1. Used = On(s, m)
  BY <1>0, ListsAreWalked
<1>2. \A s2, m2, t2, n2 : TypeOK' /\ Lists(s2, m2, t2, n2)' => Used' = On(s2, m2)
  <2>1. TypeOK' => WalkIsList'
    BY UsedIsWalked, PTL
  <2> QED BY <2>1 DEF WalkIsList
<1>3. CASE allocate
  <2>1. /\ TypeOK'
        /\ \E p \in Items \ On(s, m) : \E s2, m2, t2, n2 :
             Lists(s2, m2, t2, n2)' /\ On(s2, m2) = On(s, m) \cup {p}
    <3>1. CASE /\ freeListHead # nullptr /\ freeListHead' = next[freeListHead]
               /\ addToUsedList(freeListHead, next) /\ UNCHANGED blocks
      BY <1>0, <3>1, AllocateFree
    <3>2. CASE /\ freeListHead = nullptr /\ blocks < MaxBlocks /\ blocks' = blocks + 1
               /\ freeListHead' = NewBlockNext(blocks + 1)[blocks * blockSize + 1]
               /\ addToUsedList(blocks * blockSize + 1, NewBlockNext(blocks + 1))
      BY <1>0, <3>2, AllocateBlock
    <3> QED BY <3>1, <3>2, <1>3 DEF allocate
  <2>2. PICK p \in Items \ On(s, m) : \E s2, m2, t2, n2 :
          Lists(s2, m2, t2, n2)' /\ On(s2, m2) = On(s, m) \cup {p}
    BY <2>1
  <2>3. Inv'
    BY <2>1, <2>2 DEF Inv
  <2>4. Used' = Used \cup {p}
    BY <1>1, <1>2, <2>1, <2>2
  <2>5. Abstract!allocate
    BY <1>1, <2>2, <2>4 DEF Abstract!allocate
  <2> QED BY <2>3, <2>5 DEF Abstract!Next
<1>4. CASE \E p \in Used : free(p)
  <2>1. PICK p \in Used : free(p)
    BY <1>4
  <2>2. /\ TypeOK'
        /\ \E s2, m2, t2, n2 :
             Lists(s2, m2, t2, n2)' /\ On(s2, m2) = On(s, m) \ {p}
    BY <1>0, <1>1, <2>1, FreeLists
  <2>3. Inv'
    BY <2>2 DEF Inv
  <2>4. Used' = Used \ {p}
    BY <1>1, <1>2, <2>2
  <2>5. Abstract!free
    BY <2>4 DEF Abstract!free
  <2> QED BY <2>3, <2>5 DEF Abstract!Next
<1>5. CASE destroy
  <2>1. Inv'
    BY <1>5, DestroyInv
  <2>2. usedListHead' = nullptr /\ TypeOK'
    BY <1>5, <2>1 DEF destroy, Inv
  <2>3. PICK s2, m2, t2, n2 : Lists(s2, m2, t2, n2)'
    BY <2>1 DEF Inv
  <2>4. m2 \in Nat /\ nullptr = IF m2 = 0 THEN nullptr ELSE s2[1]
    BY <2>2, <2>3 DEF Lists, List
  <2>5. m2 = 0
    <3>1. m2 # 0 => s2[1] \in Items
      BY <2>3, <2>4 DEF Lists, List
    <3>2. nullptr \notin Items
      BY Bounds DEF Items, nullptr
    <3> QED BY <2>4, <3>1, <3>2
  <2>6. On(s2, m2) = {}
    BY <2>5 DEF On
  <2>7. Used' = {}
    BY <1>2, <2>2, <2>3, <2>6
  <2> QED BY <2>1, <2>7 DEF Abstract!destroy, Abstract!Next
<1> QED BY <1>3, <1>4, <1>5 DEF Next

LEMMA NextInv == Inv /\ [Next]_vars => Inv'
<1> SUFFICES ASSUME Inv, [Next]_vars PROVE Inv'
  OBVIOUS
<1>1. CASE Next
  BY <1>1, StepFacts
<1>2. CASE UNCHANGED vars
  BY <1>2 DEF Inv, TypeOK, Lists, Allocated, vars
<1> QED BY <1>1, <1>2

----------------------------------------------------------------------------
(* The theorems *)

\* The two heads are always the heads of two lists that end, share nothing and
\* together hold every object of every block (BlockStorage.h:42-148).
THEOREM Invariance == Spec => []Inv
BY InitInv, NextInv, PTL DEF Spec

\* Every pointer is null or the address of an object (BlockStorage.h:42-148).
THEOREM TypeCorrect == Spec => []TypeOK
<1>1. Inv => TypeOK
  BY DEF Inv
<1> QED BY <1>1, Invariance, PTL

\* The used list and the free list divide the objects between them, whatever
\* was allocated and freed in whatever order (BlockStorage.h:42-148).
THEOREM ObjectsAreOnOneList == Spec => []ListsPartition
<1>1. Inv => ListsPartition
  BY ListsAreWalked DEF Inv, ListsPartition, Lists
<1> QED BY <1>1, Invariance, PTL

\* prev is right in the used list, where free() relies on it
\* (BlockStorage.h:58-65, 119-148).
THEOREM UsedIsDoublyLinked == Spec => []DoublyLinked
<1>1. Inv => DoublyLinked
  <2> SUFFICES ASSUME Inv PROVE DoublyLinked
    OBVIOUS
  <2>1. PICK s, m, t, n : TypeOK /\ Lists(s, m, t, n)
    BY DEF Inv
  <2>2. /\ Used = On(s, m) /\ m \in Nat
        /\ List(s, m, next, usedListHead) /\ Back(s, m, prev)
    BY <2>1, ListsAreWalked DEF Lists, List
  <2>3. usedListHead # nullptr => prev[usedListHead] = nullptr
    <3>1. usedListHead # nullptr => usedListHead = s[1] /\ 1 \in 1 .. m
      BY <2>2 DEF List
    <3> QED BY <3>1, <2>2 DEF Back
  <2>4. ASSUME NEW p \in Used, next[p] # nullptr PROVE prev[next[p]] = p
    <3>1. PICK i \in 1 .. m : p = s[i]
      BY <2>2 DEF On
    <3>2. next[p] = s[i + 1] /\ i # m
      BY <3>1, <2>2, <2>4 DEF List
    <3>3. i + 1 \in 1 .. m /\ i + 1 # 1 /\ i + 1 - 1 = i
      BY <3>2, <2>2
    <3>4. prev[s[i + 1]] = s[i + 1 - 1]
      BY <3>3, <2>2 DEF Back
    <3> QED BY <3>1, <3>2, <3>3, <3>4
  <2> QED BY <2>3, <2>4 DEF DoublyLinked
<1> QED BY <1>1, Invariance, PTL

\* BlockStorage is a pool of objects: allocate() never hands out one that is in
\* use, and the walk from head() visits exactly those that are
\* (BlockStorage.h:42-148).
THEOREM Implements == Spec => IsPool
<1>1. Init => Abstract!Init
  <2> SUFFICES ASSUME Init PROVE Used = {}
    BY DEF Abstract!Init
  <2>1. Inv
    BY InitInv
  <2>2. PICK s, m, t, n : TypeOK /\ Lists(s, m, t, n)
    BY <2>1 DEF Inv
  <2>3. Used = On(s, m) /\ On(s, m) \subseteq Allocated
    BY <2>2, ListsAreWalked DEF Lists
  <2>4. Allocated = {}
    BY SizesAssumption DEF Init, Allocated
  <2> QED BY <2>3, <2>4
<1>2. Inv /\ [Next]_vars => [Abstract!Next]_Used
  <2> SUFFICES ASSUME Inv, [Next]_vars PROVE [Abstract!Next]_Used
    OBVIOUS
  <2>1. CASE Next
    BY <2>1, StepFacts
  <2>2. CASE UNCHANGED vars
    BY <2>2 DEF vars, Used, Walk
  <2> QED BY <2>1, <2>2
<1> QED BY <1>1, <1>2, Invariance, PTL DEF Spec, IsPool, Abstract!Spec
=============================================================================
