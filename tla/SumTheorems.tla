---------------------------- MODULE SumTheorems -----------------------------
(***************************************************************************)
(* Lemmas about least numbers, and about sums over finite sets as the      *)
(* folds of the community modules compute them: an element is picked, and  *)
(* its value is added to the sum over the others.                          *)
(***************************************************************************)
EXTENDS Integers, FiniteSets, TLAPS, WellFoundedInduction, FiniteSetTheorems

LEMMA LessIsWellFounded ==
  \E R : IsWellFoundedOn(R, Nat) /\ R = {ss \in Nat \X Nat : ss[1] < ss[2]}
<1>1. OpToRel(<, Nat) = {ss \in Nat \X Nat : ss[1] < ss[2]}
  BY DEF OpToRel
<1> QED
  BY <1>1, NatLessThanWellFounded, Zenon

(* Every set of numbers that is not empty has a least one. *)
LEMMA LeastNumber ==
  ASSUME NEW T \in SUBSET Nat, T # {}
  PROVE  \E m \in T : \A n \in T : m <= n
<1>1. PICK R : IsWellFoundedOn(R, Nat) /\ R = {ss \in Nat \X Nat : ss[1] < ss[2]}
  BY LessIsWellFounded
<1>2. PICK x \in T : \A y \in T : ~(<<y, x>> \in R)
  BY <1>1, WFMin, Zenon
<1>3. \A y \in T : ~(y < x)
  BY <1>1, <1>2, Zenon
<1> QED
  BY <1>2, <1>3

-----------------------------------------------------------------------------
(* The sum of f over S.  The fold is the function g that IsIter describes. *)
Pick(s) == CHOOSE x \in s : TRUE
IsIter(g, f, S) ==
  g = [s \in SUBSET S |-> IF s = {} THEN 0 ELSE f[Pick(s)] + g[s \ {Pick(s)}]]
SumOf(f, S) == (CHOOSE g : IsIter(g, f, S))[S]

LEMMA PickIs ==
  ASSUME NEW s, s # {}
  PROVE  Pick(s) \in s
  BY DEF Pick

(* There is such a function: one for the subsets of up to n elements, for  *)
(* every n.                                                                *)
Small(S, n) == {s \in SUBSET S : Cardinality(s) <= n}
Partly(g, f, S, n) ==
  g = [s \in Small(S, n) |-> IF s = {} THEN 0 ELSE f[Pick(s)] + g[s \ {Pick(s)}]]

LEMMA SmallOnes ==
  ASSUME NEW S, IsFiniteSet(S), NEW s \in SUBSET S
  PROVE  /\ IsFiniteSet(s) /\ Cardinality(s) \in Nat /\ Cardinality(s) <= Cardinality(S)
         /\ Cardinality(s) = 0 <=> s = {}
         /\ s # {} => /\ s \ {Pick(s)} \in SUBSET S
                      /\ Cardinality(s \ {Pick(s)}) = Cardinality(s) - 1
<1>1. IsFiniteSet(s) /\ Cardinality(s) \in Nat /\ Cardinality(s) <= Cardinality(S)
  BY FS_Subset, FS_CardinalityType
<1>2. Cardinality(s) = 0 <=> s = {}
  BY <1>1, FS_EmptySet
<1>3. s # {} => Cardinality(s \ {Pick(s)}) = Cardinality(s) - 1
  BY <1>1, PickIs, FS_RemoveElement, Zenon
<1> QED
  BY <1>1, <1>2, <1>3

LEMMA PartlyExists ==
  ASSUME NEW S, IsFiniteSet(S), NEW f, NEW n \in Nat
  PROVE  \E g : Partly(g, f, S, n)
<1> DEFINE bad == {m \in Nat : ~ \E g : Partly(g, f, S, m)}
<1> SUFFICES ASSUME bad # {} PROVE FALSE
  OBVIOUS
<1>1. PICK m \in bad : \A k \in bad : m <= k
  <2> HIDE DEF bad
  <2>1. bad \in SUBSET Nat
    BY DEF bad
  <2> QED
    BY <2>1, LeastNumber
<1>2. CASE m = 0
  <2> DEFINE g == [s \in Small(S, 0) |-> 0]
  <2>1. ASSUME NEW s \in Small(S, 0) PROVE s = {}
    <3>1. s \in SUBSET S /\ Cardinality(s) <= 0
      BY DEF Small
    <3>2. Cardinality(s) \in Nat /\ (Cardinality(s) = 0 <=> s = {})
      BY <3>1, SmallOnes, Zenon
    <3> QED
      BY <3>1, <3>2
  <2>2. g = [s \in Small(S, 0) |-> IF s = {} THEN 0 ELSE f[Pick(s)] + g[s \ {Pick(s)}]]
    BY <2>1
  <2> QED
    BY <1>1, <1>2, <2>2 DEF Partly
<1>3. CASE m # 0
  <2>1. m - 1 \in Nat /\ m - 1 \notin bad
    BY <1>1, <1>3
  <2>2. PICK g : Partly(g, f, S, m - 1)
    BY <2>1
  <2> DEFINE h == [s \in Small(S, m) |-> IF s = {} THEN 0 ELSE f[Pick(s)] + g[s \ {Pick(s)}]]
  <2>3. \A s \in Small(S, m) : s # {} => s \ {Pick(s)} \in Small(S, m - 1)
    BY <1>1, SmallOnes DEF Small
  <2>4. ASSUME NEW s \in Small(S, m - 1) PROVE s \in Small(S, m)
    <3>1. s \in SUBSET S /\ Cardinality(s) <= m - 1
      BY DEF Small
    <3>2. Cardinality(s) \in Nat
      BY <3>1, SmallOnes, Zenon
    <3>3. Cardinality(s) <= m
      BY <1>1, <3>1, <3>2
    <3> QED
      BY <3>1, <3>3 DEF Small
  <2>5. \A s \in Small(S, m - 1) :
          g[s] = IF s = {} THEN 0 ELSE f[Pick(s)] + g[s \ {Pick(s)}]
    BY <2>2, Zenon DEF Partly
  <2>6. \A s \in Small(S, m) : h[s] = IF s = {} THEN 0 ELSE f[Pick(s)] + g[s \ {Pick(s)}]
    OBVIOUS
  <2>7. \A s \in Small(S, m - 1) : h[s] = g[s]
    BY <2>4, <2>5, <2>6, Zenon
  <2>8. h = [s \in Small(S, m) |-> IF s = {} THEN 0 ELSE f[Pick(s)] + h[s \ {Pick(s)}]]
    <3>1. \A s \in Small(S, m) : s # {} => g[s \ {Pick(s)}] = h[s \ {Pick(s)}]
      BY <2>3, <2>7, Zenon
    <3>2. \A s \in Small(S, m) : h[s] = IF s = {} THEN 0 ELSE f[Pick(s)] + h[s \ {Pick(s)}]
      BY <2>6, <3>1, Zenon
    <3>3. h = [s \in Small(S, m) |-> h[s]]
      OBVIOUS
    <3> HIDE DEF h
    <3> QED
      BY <3>2, <3>3
  <2> HIDE DEF h
  <2> QED
    BY <1>1, <2>8 DEF Partly
<1> QED
  BY <1>2, <1>3

(* What the fold computes: nothing for the empty set, and for any other    *)
(* the value of the picked element and the sum over the rest.              *)
Adds(g, f, S) ==
  \A s \in SUBSET S : g[s] = IF s = {} THEN 0 ELSE f[Pick(s)] + g[s \ {Pick(s)}]

LEMMA SumIter ==
  ASSUME NEW S, IsFiniteSet(S), NEW f
  PROVE  \E g : SumOf(f, S) = g[S] /\ Adds(g, f, S)
<1>1. Cardinality(S) \in Nat
  BY FS_CardinalityType
<1>2. Small(S, Cardinality(S)) = SUBSET S
  BY SmallOnes, Zenon DEF Small
<1>3. \E g : IsIter(g, f, S)
  <2>1. PICK g : Partly(g, f, S, Cardinality(S))
    BY <1>1, PartlyExists
  <2>2. IsIter(g, f, S)
    BY <1>2, <2>1, Zenon DEF Partly, IsIter
  <2> QED
    BY <2>2
<1>4. IsIter(CHOOSE g : IsIter(g, f, S), f, S)
  BY <1>3
<1> DEFINE g == CHOOSE x : IsIter(x, f, S)
<1>5. g = [s \in SUBSET S |-> IF s = {} THEN 0 ELSE f[Pick(s)] + g[s \ {Pick(s)}]]
  BY <1>4, Zenon DEF IsIter
<1>6. SumOf(f, S) = g[S]
  BY Zenon DEF SumOf
<1> HIDE DEF g
<1>7. Adds(g, f, S)
  BY <1>5, Zenon DEF Adds
<1> QED
  BY <1>6, <1>7

(* When one value changes by d, so does the sum. *)
Differs(h, f, S, c, d) ==
  \A x \in S : f[x] \in Int /\ (h[x] = IF x = c THEN f[x] + d ELSE f[x])

LEMMA SumChange ==
  ASSUME NEW S, IsFiniteSet(S), NEW f, NEW h, NEW c, NEW d \in Int, Differs(h, f, S, c, d)
  PROVE  /\ SumOf(f, S) \in Int
         /\ SumOf(h, S) = SumOf(f, S) + (IF c \in S THEN d ELSE 0)
<1>1. PICK g : SumOf(f, S) = g[S] /\ Adds(g, f, S)
  BY SumIter
<1>2. PICK k : SumOf(h, S) = k[S] /\ Adds(k, h, S)
  BY SumIter
<1> DEFINE Good(s) == g[s] \in Int /\ k[s] = g[s] + (IF c \in s THEN d ELSE 0)
           bad == {n \in Nat : \E s \in SUBSET S : Cardinality(s) = n /\ ~Good(s)}
<1> HIDE DEF Good
<1>3. bad = {}
  <2> SUFFICES ASSUME bad # {} PROVE FALSE
    OBVIOUS
  <2>1. PICK m \in bad : \A n \in bad : m <= n
    <3>1. bad \in SUBSET Nat
      OBVIOUS
    <3> HIDE DEF bad
    <3> QED
      BY <3>1, LeastNumber
  <2>2. PICK s \in SUBSET S : Cardinality(s) = m /\ ~Good(s)
    BY <2>1
  <2> DEFINE x == Pick(s)
             t == s \ {x}
  <2>3. CASE s = {}
    <3>1. g[s] = 0 /\ k[s] = 0
      BY <1>1, <1>2, <2>3, Zenon DEF Adds
    <3> QED
      BY <2>2, <2>3, <3>1 DEF Good
  <2>4. CASE s # {}
    <3>1. x \in s /\ t \in SUBSET S /\ Cardinality(t) = m - 1 /\ m - 1 \in Nat
      <4>1. x \in s
        BY <2>4, PickIs
      <4>2. /\ Cardinality(s) \in Nat /\ (Cardinality(s) = 0 <=> s = {})
            /\ s # {} => t \in SUBSET S /\ Cardinality(t) = Cardinality(s) - 1
        BY SmallOnes
      <4> QED
        BY <2>2, <2>4, <4>1, <4>2
    <3>2. g[s] = f[x] + g[t] /\ k[s] = h[x] + k[t]
      BY <1>1, <1>2, <2>4, Zenon DEF Adds
    <3>3. f[x] \in Int /\ (h[x] = IF x = c THEN f[x] + d ELSE f[x])
      BY <3>1 DEF Differs
    <3>4. c \in t <=> c \in s /\ x # c
      BY <3>1
    <3> HIDE DEF x, t
    <3>5. m - 1 \notin bad
      BY <2>1, <3>1
    <3>6. g[t] \in Int /\ k[t] = g[t] + (IF c \in t THEN d ELSE 0)
      BY <3>1, <3>5 DEF Good
    <3>7. Good(s)
      <4>1. CASE x = c
        BY <3>1, <3>2, <3>3, <3>4, <3>6, <4>1 DEF Good
      <4>2. CASE x # c
        BY <3>2, <3>3, <3>4, <3>6, <4>2 DEF Good
      <4> QED
        BY <4>1, <4>2
    <3> QED
      BY <2>2, <3>7
  <2> QED
    BY <2>3, <2>4
<1>4. Cardinality(S) \in Nat
  BY FS_CardinalityType
<1>5. Good(S)
  BY <1>3, <1>4
<1> QED
  BY <1>1, <1>2, <1>5 DEF Good

LEMMA SumSame ==
  ASSUME NEW S, IsFiniteSet(S), NEW f, NEW h, \A x \in S : f[x] \in Int /\ h[x] = f[x]
  PROVE  SumOf(h, S) = SumOf(f, S) /\ SumOf(f, S) \in Int
<1>1. Differs(h, f, S, 0, 0)
  BY DEF Differs
<1>2. SumOf(f, S) \in Int /\ SumOf(h, S) = SumOf(f, S) + (IF 0 \in S THEN 0 ELSE 0)
  BY <1>1, SumChange
<1> QED
  BY <1>2

LEMMA SumZero ==
  ASSUME NEW S, IsFiniteSet(S), NEW f, \A x \in S : f[x] = 0
  PROVE  SumOf(f, S) = 0
<1>1. PICK g : SumOf(f, S) = g[S] /\ Adds(g, f, S)
  BY SumIter
<1> DEFINE bad == {n \in Nat : \E s \in SUBSET S : Cardinality(s) = n /\ g[s] # 0}
<1>2. bad = {}
  <2> SUFFICES ASSUME bad # {} PROVE FALSE
    OBVIOUS
  <2>1. PICK m \in bad : \A n \in bad : m <= n
    <3>1. bad \in SUBSET Nat
      OBVIOUS
    <3> HIDE DEF bad
    <3> QED
      BY <3>1, LeastNumber
  <2>2. PICK s \in SUBSET S : Cardinality(s) = m /\ g[s] # 0
    BY <2>1
  <2> DEFINE x == Pick(s)
             t == s \ {x}
  <2>3. s # {} /\ g[s] = f[x] + g[t]
    BY <1>1, <2>2 DEF Adds
  <2>4. x \in s /\ t \in SUBSET S /\ Cardinality(t) = m - 1 /\ m - 1 \in Nat
    <3>1. x \in s
      BY <2>3, PickIs
    <3>2. /\ Cardinality(s) \in Nat /\ (Cardinality(s) = 0 <=> s = {})
          /\ s # {} => t \in SUBSET S /\ Cardinality(t) = Cardinality(s) - 1
      BY SmallOnes, Zenon
    <3> QED
      BY <2>2, <2>3, <3>1, <3>2
  <2>5. f[x] = 0
    BY <2>4
  <2> HIDE DEF x, t
  <2>6. m - 1 \notin bad
    BY <2>1, <2>4
  <2>7. g[t] = 0
    BY <2>4, <2>6
  <2> QED
    BY <2>2, <2>3, <2>5, <2>7
<1>3. Cardinality(S) \in Nat
  BY FS_CardinalityType
<1> QED
  BY <1>1, <1>2, <1>3
=============================================================================
