-------------------------- MODULE LinkedListProofs --------------------------
(***************************************************************************)
(* The nodes reachable from x are the least set that has x and is closed   *)
(* under next.  The induction over the number of steps is by least         *)
(* counterexample: the library's induction theorems are about operators.   *)
(***************************************************************************)
EXTENDS LinkedList, FiniteSetTheorems, WellFoundedInduction, TLAPS

\* Every nonempty set of natural numbers has a least element.
LEMMA LeastNatural ==
  ASSUME NEW T \in SUBSET Nat, T # {}
  PROVE  \E m \in T : \A k \in T : m <= k
<1> DEFINE R == OpToRel(<, Nat)
<1>1. IsWellFoundedOn(R, Nat)
  BY NatLessThanWellFounded
<1>2. \A x, y \in Nat : <<x, y>> \in R <=> x < y
  BY DEF OpToRel
<1> HIDE DEF R
<1>3. PICK m \in T : \A k \in T : <<k, m>> \notin R
  BY <1>1, WFMin
<1>4. \A k \in T : k \in Nat /\ ~(k < m)
  BY <1>2, <1>3
<1> QED
  BY <1>4

\* The nodes visited after one more step.
OneMore(next, null, A) == A \cup ({next[y] : y \in A} \ {null})

\* g[k] is what is visited from x in k steps, for k up to n.
StepsTo(n, g, next, null, x) ==
  g = [k \in 0..n |-> IF k = 0 THEN {x} \ {null} ELSE OneMore(next, null, g[k - 1])]

\* There is such a g: the recursive definition of Reachable has a solution.
LEMMA ReachExists ==
  ASSUME NEW next, NEW null, NEW x, NEW N \in Nat
  PROVE  \E g : StepsTo(N, g, next, null, x)
<1> DEFINE Solves(g, n) == StepsTo(n, g, next, null, x)
           Bad == {n \in Nat : ~ \E g : Solves(g, n)}
<1>1. ASSUME Bad # {}
      PROVE  FALSE
  <2> HIDE DEF Solves
  <2>1. PICK m \in Bad : \A k \in Bad : m <= k
    BY <1>1, LeastNatural
  <2>2. m \in Nat
    OBVIOUS
  <2>3. CASE m = 0
    <3> DEFINE g == [k \in 0..0 |-> {x} \ {null}]
    <3>1. Solves(g, 0)
      BY DEF Solves, StepsTo
    <3> QED
      BY <2>3, <3>1
  <2>4. CASE m # 0
    <3>1. m - 1 \in Nat /\ ~(m <= m - 1)
      BY <2>2, <2>4
    <3>2. m - 1 \notin Bad
      BY <2>1, <3>1
    <3>3. PICK g : Solves(g, m - 1)
      BY <3>1, <3>2
    <3> DEFINE h == [k \in 0..m |-> IF k = m THEN OneMore(next, null, g[m - 1]) ELSE g[k]]
    <3>4. ASSUME NEW k \in 0..m
          PROVE  h[k] = IF k = 0 THEN {x} \ {null} ELSE OneMore(next, null, h[k - 1])
      <4>1. CASE k = 0
        <5>1. h[k] = g[k]
          BY <2>2, <2>4, <4>1
        <5> QED
          BY <3>1, <3>3, <4>1, <5>1 DEF Solves, StepsTo
      <4>2. CASE k # 0 /\ k # m
        <5>1. k \in 0..(m - 1) /\ k - 1 \in 0..(m - 1) /\ k - 1 \in 0..m /\ k - 1 # m
          BY <2>2, <4>2
        <5>2. h[k] = g[k] /\ h[k - 1] = g[k - 1]
          BY <4>2, <5>1
        <5>3. g[k] = OneMore(next, null, g[k - 1])
          BY <3>3, <4>2, <5>1 DEF Solves, StepsTo
        <5> QED
          BY <4>2, <5>2, <5>3
      <4>3. CASE k = m
        <5>1. k - 1 \in 0..m /\ k - 1 # m
          BY <2>2, <2>4, <4>3
        <5> QED
          BY <2>4, <4>3, <5>1
      <4> QED
        BY <4>1, <4>2, <4>3
    <3>5. Solves(h, m)
      <4> DEFINE hh == [k \in 0..m |-> IF k = 0 THEN {x} \ {null} ELSE OneMore(next, null, h[k - 1])]
      <4>1. \A k \in 0..m : h[k] = hh[k]
        <5> HIDE DEF h
        <5> QED
          BY <3>4
      <4>2. h = hh
        <5>1. h = [k \in 0..m |-> h[k]] /\ hh = [k \in 0..m |-> hh[k]]
          OBVIOUS
        <5> HIDE DEF h, hh
        <5> QED
          BY <4>1, <5>1
      <4> HIDE DEF h
      <4> QED
        BY <4>2 DEF Solves, StepsTo
    <3> HIDE DEF h
    <3> QED
      BY <3>5
  <2> QED
    BY <2>3, <2>4
<1> QED
  BY <1>1

\* The sets of nodes reached in 0, 1, 2, ... steps, up to the number of nodes.
Steps(g, next, null, x) == StepsTo(Cardinality(DOMAIN next), g, next, null, x)

\* Reachable is the last of these sets.
LEMMA ReachSteps ==
  ASSUME NEW next, NEW null, NEW x, IsFiniteSet(DOMAIN next)
  PROVE  \E g : Steps(g, next, null, x) /\ Reachable(next, null, x) = g[Cardinality(DOMAIN next)]
<1>1. \E f : Steps(f, next, null, x)
  BY FS_CardinalityType, ReachExists DEF Steps
<1> DEFINE g == CHOOSE f : Steps(f, next, null, x)
<1>2. Steps(g, next, null, x)
  BY <1>1
<1>3. Reachable(next, null, x) = g[Cardinality(DOMAIN next)]
  BY DEF Reachable, Steps, StepsTo, OneMore
<1> QED
  BY <1>2, <1>3

\* What every step keeps.
LEMMA StepsStayIn ==
  ASSUME NEW next, NEW null, NEW x, NEW g, Steps(g, next, null, x), IsFiniteSet(DOMAIN next),
         NEW A, x \in A \/ x = null, \A y \in A : next[y] \in A \/ next[y] = null
  PROVE  \A k \in 0..Cardinality(DOMAIN next) : g[k] \subseteq A
<1> DEFINE N   == Cardinality(DOMAIN next)
           Bad == {k \in 0..N : ~(g[k] \subseteq A)}
<1>0. N \in Nat
  BY FS_CardinalityType
<1> HIDE DEF N
<1>1. ASSUME Bad # {}
      PROVE  FALSE
  <2>1. PICK m \in Bad : \A k \in Bad : m <= k
    <3>1. Bad \in SUBSET Nat
      BY <1>0
    <3> HIDE DEF Bad
    <3> QED
      BY <1>1, <3>1, LeastNatural
  <2>2. m \in 0..N /\ m \in Nat
    BY <1>0
  <2>3. g[m] = IF m = 0 THEN {x} \ {null} ELSE OneMore(next, null, g[m - 1])
    BY <2>2 DEF Steps, StepsTo, N
  <2>4. CASE m = 0
    BY <2>1, <2>3, <2>4
  <2>5. CASE m # 0
    <3>1. m - 1 \in 0..N /\ ~(m <= m - 1)
      BY <1>0, <2>2, <2>5
    <3>2. g[m - 1] \subseteq A
      BY <2>1, <3>1
    <3> QED
      BY <2>1, <2>3, <2>5, <3>2 DEF OneMore
  <2> QED
    BY <2>4, <2>5
<1> QED
  BY <1>1 DEF N

\* A set that has x and is closed under next has all that can be reached from x.
THEOREM ReachLeast ==
  ASSUME NEW next, NEW null, NEW x, IsFiniteSet(DOMAIN next),
         NEW A, x \in A \/ x = null, \A y \in A : next[y] \in A \/ next[y] = null
  PROVE  Reachable(next, null, x) \subseteq A
<1>1. Cardinality(DOMAIN next) \in 0..Cardinality(DOMAIN next)
  BY FS_CardinalityType
<1>2. PICK g : Steps(g, next, null, x) /\ Reachable(next, null, x) = g[Cardinality(DOMAIN next)]
  BY ReachSteps
<1> QED
  BY <1>1, <1>2, StepsStayIn

\* Either nothing more can be reached after k steps, or each step found a node.
LEMMA StepsGrow ==
  ASSUME NEW next, NEW null, NEW x, NEW g, Steps(g, next, null, x), IsFiniteSet(DOMAIN next),
         x \in DOMAIN next \/ x = null,
         \A y \in DOMAIN next : next[y] \in DOMAIN next \/ next[y] = null
  PROVE  \A k \in 0..Cardinality(DOMAIN next) :
           /\ {x} \ {null} \subseteq g[k]
           /\ \/ \A y \in g[k] : next[y] \in g[k] \/ next[y] = null
              \/ IsFiniteSet(g[k]) /\ Cardinality(g[k]) > k
<1> DEFINE N       == Cardinality(DOMAIN next)
           Good(k) == /\ {x} \ {null} \subseteq g[k]
                      /\ \/ \A y \in g[k] : next[y] \in g[k] \/ next[y] = null
                         \/ IsFiniteSet(g[k]) /\ Cardinality(g[k]) > k
           Bad     == {k \in 0..N : ~Good(k)}
<1>0. N \in Nat
  BY FS_CardinalityType
<1> HIDE DEF N
<1>1. ASSUME Bad # {}
      PROVE  FALSE
  <2>1. PICK m \in Bad : \A k \in Bad : m <= k
    <3>1. Bad \in SUBSET Nat
      BY <1>0
    <3> HIDE DEF Bad
    <3> QED
      BY <1>1, <3>1, LeastNatural
  <2>2. m \in 0..N /\ m \in Nat /\ ~Good(m)
    BY <1>0
  <2>3. g[m] = IF m = 0 THEN {x} \ {null} ELSE OneMore(next, null, g[m - 1])
    BY <2>2 DEF Steps, StepsTo, N
  <2>4. CASE m = 0
    <3>1. CASE x = null
      BY <2>2, <2>3, <2>4, <3>1
    <3>2. CASE x # null
      <4>1. g[m] = {x}
        BY <2>3, <2>4, <3>2
      <4>2. IsFiniteSet({x}) /\ Cardinality({x}) = 1
        BY FS_Singleton
      <4> QED
        BY <2>2, <2>4, <4>1, <4>2
    <3> QED
      BY <3>1, <3>2
  <2>5. CASE m # 0
    <3>1. m - 1 \in 0..N /\ ~(m <= m - 1)
      BY <1>0, <2>2, <2>5
    <3>2. Good(m - 1)
      <4>1. m - 1 \notin Bad
        BY <2>1, <3>1
      <4> HIDE DEF Good
      <4> QED
        BY <3>1, <4>1
    <3>3. g[m] = OneMore(next, null, g[m - 1])
      BY <2>3, <2>5
    <3>4. CASE \A y \in g[m - 1] : next[y] \in g[m - 1] \/ next[y] = null
      <4>1. g[m] = g[m - 1]
        BY <3>3, <3>4 DEF OneMore
      <4> QED
        BY <2>2, <3>2, <3>4, <4>1
    <3>5. CASE ~ \A y \in g[m - 1] : next[y] \in g[m - 1] \/ next[y] = null
      <4>1. IsFiniteSet(g[m - 1]) /\ Cardinality(g[m - 1]) > m - 1
        BY <3>2, <3>5
      <4>2. PICK y \in g[m - 1] : next[y] \notin g[m - 1] /\ next[y] # null
        BY <3>5
      <4>3. next[y] \in g[m] /\ g[m - 1] \subseteq g[m]
        BY <3>3, <4>2 DEF OneMore
      <4>4. IsFiniteSet(g[m])
        <5>1. g[m] \subseteq DOMAIN next
          BY <2>2, StepsStayIn DEF N
        <5> QED
          BY <5>1, FS_Subset
      <4>5. /\ Cardinality(g[m - 1] \cup {next[y]}) = Cardinality(g[m - 1]) + 1
            /\ Cardinality(g[m - 1] \cup {next[y]}) <= Cardinality(g[m])
            /\ Cardinality(g[m - 1]) \in Nat /\ Cardinality(g[m]) \in Nat
        BY <4>1, <4>2, <4>3, <4>4, FS_AddElement, FS_Subset, FS_CardinalityType
      <4>6. Cardinality(g[m]) > m
        BY <2>2, <4>1, <4>5
      <4>7. {x} \ {null} \subseteq g[m]
        BY <3>2, <4>3
      <4> QED
        BY <2>2, <4>4, <4>6, <4>7
    <3> QED
      BY <3>4, <3>5
  <2> QED
    BY <2>4, <2>5
<1>2. \A k \in 0..N : Good(k)
  <2> HIDE DEF Good
  <2> QED
    BY <1>1
<1> QED
  BY <1>2 DEF N

\* What can be reached from x has x, and the node after each of its nodes: there
\* are no more steps to make than there are nodes.
THEOREM ReachClosed ==
  ASSUME NEW next, NEW null, NEW x, IsFiniteSet(DOMAIN next),
         x \in DOMAIN next \/ x = null,
         \A y \in DOMAIN next : next[y] \in DOMAIN next \/ next[y] = null
  PROVE  /\ x # null => x \in Reachable(next, null, x)
         /\ \A y \in Reachable(next, null, x) :
              next[y] # null => next[y] \in Reachable(next, null, x)
<1> DEFINE N == Cardinality(DOMAIN next)
<1>1. N \in 0..N /\ N \in Nat
  BY FS_CardinalityType
<1>2. PICK g : Steps(g, next, null, x) /\ Reachable(next, null, x) = g[N]
  BY ReachSteps
<1>3. g[N] \subseteq DOMAIN next
  BY <1>1, <1>2, StepsStayIn
<1>4. ~(IsFiniteSet(g[N]) /\ Cardinality(g[N]) > N)
  <2>1. Cardinality(g[N]) \in Nat /\ Cardinality(g[N]) <= N
    BY <1>3, FS_Subset, FS_CardinalityType
  <2> QED
    BY <1>1, <2>1
<1>5. /\ {x} \ {null} \subseteq g[N]
      /\ \A y \in g[N] : next[y] \in g[N] \/ next[y] = null
  BY <1>1, <1>2, <1>4, StepsGrow
<1> QED
  BY <1>2, <1>5
=============================================================================
