------------------------------ MODULE Induction ------------------------------
(***************************************************************************)
(* Induction over the natural numbers, for the recursive definitions of    *)
(* the modules. The principles are stated with sets in the place of        *)
(* operators, which the provers can instantiate; they follow from the      *)
(* library's theorem on minimal elements of a well-founded relation.       *)
(***************************************************************************)
EXTENDS Integers, WellFoundedInduction, TLAPS

\* The order of the numbers as a relation.
Below == {p \in Nat \X Nat : p[1] < p[2]}

LEMMA BelowIsWellFounded == IsWellFoundedOn(Below, Nat)
BY NatLessThanWellFounded, Zenon DEF OpToRel, Below

\* A set of numbers that is not empty has a least element.
LEMMA LeastNumber ==
  ASSUME NEW T \in SUBSET Nat, T # {}
  PROVE  \E m \in T : \A k \in T : m <= k
<1>1. ASSUME NEW x \in Nat, NEW y \in Nat, <<x, y>> \notin Below
      PROVE  y <= x
  BY <1>1 DEF Below
<1>2. PICK x \in T : \A y \in T : ~ (<<y, x>> \in Below)
  BY BelowIsWellFounded, WFMin, Zenon
<1>3. \A y \in T : x <= y
  BY <1>1, <1>2
<1> QED BY <1>3

\* A set with 0, and with the successor of each of its numbers, has them all.
LEMMA Induction ==
  ASSUME NEW T \in SUBSET Nat, 0 \in T, \A n \in T : n + 1 \in T
  PROVE  \A n \in Nat : n \in T
<1> SUFFICES ASSUME Nat \ T # {} PROVE FALSE
  OBVIOUS
<1>1. PICK m \in Nat \ T : \A k \in Nat \ T : m <= k
  BY LeastNumber
<1>2. m # 0 /\ m - 1 \in Nat
  BY <1>1
<1>3. m - 1 \in T
  BY <1>1, <1>2
<1> QED BY <1>1, <1>2, <1>3

\* The same up to a number n.
LEMMA InductionUpTo ==
  ASSUME NEW n \in Nat, NEW T, 0 \in T, \A k \in 0 .. n - 1 : k \in T => k + 1 \in T
  PROVE  \A k \in 0 .. n : k \in T
<1> DEFINE U == {k \in Nat : k > n \/ k \in T}
<1>1. U \in SUBSET Nat /\ 0 \in U
  OBVIOUS
<1>2. \A k \in U : k + 1 \in U
  OBVIOUS
<1> HIDE DEF U
<1>3. \A k \in Nat : k \in U
  BY <1>1, <1>2, Induction
<1> QED BY <1>3 DEF U

\* The same from n + 1 down to 1.
LEMMA InductionDownFrom ==
  ASSUME NEW n \in Nat, NEW T, n + 1 \in T, \A k \in 1 .. n : k + 1 \in T => k \in T
  PROVE  \A k \in 1 .. n + 1 : k \in T
<1> DEFINE U == {k \in Nat : k > n \/ n + 1 - k \in T}
<1>1. U \in SUBSET Nat /\ 0 \in U
  OBVIOUS
<1>2. ASSUME NEW k \in U PROVE k + 1 \in U
  <2>1. CASE k + 1 > n
    BY <2>1
  <2>2. CASE ~(k + 1 > n)
    <3>1. n - k \in 1 .. n /\ n - k + 1 = n + 1 - k /\ n + 1 - (k + 1) = n - k
      BY <2>2
    <3>2. n + 1 - k \in T
      BY <2>2
    <3> QED BY <3>1, <3>2
  <2> QED BY <2>1, <2>2
<1> HIDE DEF U
<1>3. \A k \in Nat : k \in U
  BY <1>1, <1>2, Induction
<1> SUFFICES ASSUME NEW k \in 1 .. n + 1 PROVE k \in T
  OBVIOUS
<1>4. n + 1 - k \in Nat /\ n + 1 - (n + 1 - k) = k /\ ~(n + 1 - k > n)
  OBVIOUS
<1>5. n + 1 - k \in U
  BY <1>3, <1>4
<1> QED BY <1>4, <1>5 DEF U
=============================================================================
