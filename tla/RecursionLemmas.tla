-------------------------- MODULE RecursionLemmas --------------------------
(***************************************************************************)
(* Facts about functions defined by recursion on numbers, stated over sets *)
(* and functions so that they can be cited: induction, the existence of    *)
(* the function that the definition names, and the number of rounds after  *)
(* which a growing set has stopped.                                        *)
(***************************************************************************)
EXTENDS Naturals, FiniteSets, FiniteSetTheorems, WellFoundedInduction, TLAPS

(* A set that has 0 and the successor of each of its numbers has them all. *)
LEMMA NatBySteps ==
    ASSUME NEW S, 0 \in S, \A n \in Nat : n \in S => n + 1 \in S
    PROVE  \A n \in Nat : n \in S
<1> DEFINE less == {ss \in Nat \X Nat : ss[1] < ss[2]}
           out == {n \in Nat : n \notin S}
<1>1. IsWellFoundedOn(less, Nat)
  BY NatLessThanWellFounded DEF OpToRel
<1>2. \A a, b \in Nat : a < b => <<a, b>> \in less
  OBVIOUS
<1>3. SUFFICES ASSUME out # {} PROVE FALSE
  OBVIOUS
<1> HIDE DEF less
<1>4. PICK m \in out : \A u \in out : <<u, m>> \notin less
  BY <1>1, <1>3, WFMin
<1>5. m # 0 /\ m \in Nat /\ m - 1 \in Nat /\ m - 1 < m /\ (m - 1) + 1 = m
  BY <1>4
<1>6. m - 1 \in S
  BY <1>2, <1>4, <1>5
<1> QED
  BY <1>4, <1>5, <1>6

(* Iterates of a step on a set, as a function.                              *)
Iterates(base, step, g) ==
    g[0] = base /\ \A n \in Nat : g[n + 1] = step[g[n]]

(* Two functions that agree at 0 and go on alike agree as far as they go.   *)
LEMMA SameIterates ==
    ASSUME NEW step, NEW k \in Nat, NEW f, NEW g, f[0] = g[0],
           \A n \in Nat : n < k => f[n + 1] = step[f[n]] /\ g[n + 1] = step[g[n]]
    PROVE  \A n \in 0 .. k : f[n] = g[n]
<1> DEFINE S == {n \in Nat : n <= k => f[n] = g[n]}
<1>1. 0 \in S
  OBVIOUS
<1>2. ASSUME NEW n \in Nat, n \in S PROVE n + 1 \in S
  <2>1. SUFFICES ASSUME n + 1 <= k PROVE f[n + 1] = g[n + 1]
    OBVIOUS
  <2>2. n < k /\ n <= k
    BY <2>1
  <2>3. f[n] = g[n]
    BY <1>2, <2>2
  <2> QED
    BY <2>2, <2>3
<1> HIDE DEF S
<1>3. \A n \in Nat : n \in S
  BY <1>1, <1>2, NatBySteps
<1>4. \A n \in 0 .. k : n \in S /\ n \in Nat /\ n <= k
  BY <1>3
<1> QED
  BY <1>4 DEF S

(* The iterates of a function from a set to itself exist.                   *)
LEMMA IteratesExist ==
    ASSUME NEW T, NEW base \in T, NEW step \in [T -> T]
    PROVE  \E g \in [Nat -> T] : Iterates(base, step, g)
<1> DEFINE Upto(k, f) == /\ f \in [0 .. k -> T]
                         /\ f[0] = base
                         /\ \A n \in Nat : n < k => f[n + 1] = step[f[n]]
           S == {k \in Nat : \E f : Upto(k, f)}
<1>1. 0 \in S
  <2>1. Upto(0, [n \in 0 .. 0 |-> base])
    OBVIOUS
  <2> QED
    BY <2>1
<1>2. ASSUME NEW k \in Nat, k \in S PROVE k + 1 \in S
  <2>1. PICK f : Upto(k, f)
    BY <1>2
  <2> DEFINE g == [n \in 0 .. k + 1 |-> IF n = k + 1 THEN step[f[k]] ELSE f[n]]
  <2>2. f[k] \in T /\ step[f[k]] \in T
    BY <2>1
  <2>3. g \in [0 .. k + 1 -> T]
    BY <2>1, <2>2
  <2>4. g[0] = base
    BY <2>1
  <2>5. ASSUME NEW n \in Nat, n < k + 1 PROVE g[n + 1] = step[g[n]]
    BY <2>1, <2>5
  <2>6. Upto(k + 1, g)
    BY <2>3, <2>4, <2>5
  <2> HIDE DEF g, Upto
  <2> QED
    BY <2>6
<1> HIDE DEF S
<1>3. \A k \in Nat : k \in S
  BY <1>1, <1>2, NatBySteps
<1>4. \A k \in Nat : \E f : Upto(k, f)
  BY <1>3 DEF S
<1> DEFINE part == [k \in Nat |-> CHOOSE f : Upto(k, f)]
           g == [n \in Nat |-> part[n][n]]
<1>5. \A k \in Nat : Upto(k, part[k])
  BY <1>4
<1> HIDE DEF part
<1>6. g \in [Nat -> T]
  BY <1>5
<1>7. g[0] = base
  BY <1>5
<1>8. ASSUME NEW n \in Nat PROVE g[n + 1] = step[g[n]]
  <2>1. Upto(n, part[n]) /\ Upto(n + 1, part[n + 1])
    BY <1>5
  <2>2. \A m \in Nat : m < n => /\ part[n][m + 1] = step[part[n][m]]
                                /\ part[n + 1][m + 1] = step[part[n + 1][m]]
    BY <2>1
  <2>3. part[n][0] = part[n + 1][0]
    BY <2>1
  <2>4. \A m \in 0 .. n : part[n][m] = part[n + 1][m]
    <3> HIDE DEF Upto
    <3>1. \A f, h : /\ f[0] = h[0]
                    /\ \A m \in Nat : m < n => f[m + 1] = step[f[m]] /\ h[m + 1] = step[h[m]]
                    => \A m \in 0 .. n : f[m] = h[m]
      BY SameIterates
    <3> QED
      BY <2>2, <2>3, <3>1
  <2>5. part[n + 1][n + 1] = step[part[n + 1][n]]
    BY <2>1
  <2>6. part[n][n] = part[n + 1][n]
    BY <2>4
  <2> QED
    BY <2>5, <2>6
<1> QED
  BY <1>6, <1>7, <1>8 DEF Iterates

(* What a definition by recursion on numbers names: a function that starts *)
(* at base and goes on by step, from a set to itself.                       *)
LEMMA RecursiveFunction ==
    ASSUME NEW T, NEW base \in T, NEW step \in [T -> T], NEW f,
           f = CHOOSE g : g = [n \in Nat |-> IF n = 0 THEN base ELSE step[g[n - 1]]]
    PROVE  f \in [Nat -> T] /\ Iterates(base, step, f)
<1> DEFINE Defines(g) == g = [n \in Nat |-> IF n = 0 THEN base ELSE step[g[n - 1]]]
<1>1. PICK g \in [Nat -> T] : Iterates(base, step, g)
  BY IteratesExist
<1>2. Defines(g)
  <2>1. ASSUME NEW n \in Nat, n # 0 PROVE g[n] = step[g[n - 1]]
    <3>1. n - 1 \in Nat /\ (n - 1) + 1 = n
      BY <2>1
    <3> QED
      BY <1>1, <3>1 DEF Iterates
  <2>2. g[0] = base
    BY <1>1 DEF Iterates
  <2> QED
    BY <1>1, <2>1, <2>2
<1>3. Defines(f)
  BY <1>2
<1>4. Iterates(base, step, f)
  <2>1. \A n \in Nat : n + 1 \in Nat /\ n + 1 # 0 /\ (n + 1) - 1 = n
    OBVIOUS
  <2>2. \A m \in Nat : f[m] = IF m = 0 THEN base ELSE step[f[m - 1]]
    BY <1>3
  <2> HIDE DEF Defines
  <2>3. \A n \in Nat : f[n + 1] = step[f[n]]
    BY <2>1, <2>2
  <2> QED
    BY <2>2, <2>3 DEF Iterates
<1> DEFINE S == {n \in Nat : f[n] \in T}
<1>5. \A n \in Nat : n \in S => n + 1 \in S
  BY <1>4 DEF Iterates
<1>6. 0 \in S
  BY <1>4 DEF Iterates
<1>7. \A n \in Nat : n \in S
  <2> HIDE DEF S
  <2> QED
    BY <1>5, <1>6, NatBySteps
<1>8. f \in [Nat -> T]
  BY <1>3, <1>7
<1> QED
  BY <1>4, <1>8

(* A set of elements of a finite set that grows until it stops has stopped *)
(* after as many rounds as the finite set has elements.                     *)
LEMMA GrowthStops ==
    ASSUME NEW U, IsFiniteSet(U), NEW g \in [Nat -> SUBSET U],
           \A n \in Nat : g[n] \subseteq g[n + 1],
           \A n \in Nat : g[n + 1] = g[n] => g[n + 2] = g[n + 1],
           NEW k \in Nat, Cardinality(U) <= k + Cardinality(g[0])
    PROVE  g[k + 1] = g[k]
<1> DEFINE S == {n \in Nat : g[n + 1] # g[n] => Cardinality(g[n]) >= n + Cardinality(g[0])}
<1>1. \A n \in Nat : IsFiniteSet(g[n]) /\ Cardinality(g[n]) \in Nat
  BY FS_Subset, FS_CardinalityType
<1>2. 0 \in S
  BY <1>1
<1>3. ASSUME NEW n \in Nat, n \in S PROVE n + 1 \in S
  <2>1. SUFFICES ASSUME g[(n + 1) + 1] # g[n + 1]
                 PROVE  Cardinality(g[n + 1]) >= (n + 1) + Cardinality(g[0])
    OBVIOUS
  <2>2. (n + 1) + 1 = n + 2
    OBVIOUS
  <2>3. g[n + 1] # g[n]
    BY <2>1, <2>2
  <2>4. Cardinality(g[n]) >= n + Cardinality(g[0])
    BY <1>3, <2>3
  <2>5. /\ Cardinality(g[n]) <= Cardinality(g[n + 1])
        /\ Cardinality(g[n + 1]) = Cardinality(g[n]) => g[n + 1] = g[n]
    <3>1. g[n] \in SUBSET g[n + 1] /\ IsFiniteSet(g[n + 1])
      BY <1>1
    <3> QED
      BY <3>1, FS_Subset
  <2>6. /\ Cardinality(g[n]) \in Nat /\ Cardinality(g[n + 1]) \in Nat
        /\ Cardinality(g[0]) \in Nat
    BY <1>1
  <2>7. Cardinality(g[n]) < Cardinality(g[n + 1])
    BY <2>3, <2>5, <2>6
  <2> QED
    BY <2>4, <2>6, <2>7
<1> HIDE DEF S
<1>4. k \in S
  BY <1>2, <1>3, NatBySteps
<1>5. SUFFICES ASSUME g[k + 1] # g[k] PROVE FALSE
  OBVIOUS
<1>6. Cardinality(g[k]) >= Cardinality(U)
  <2>1. Cardinality(U) \in Nat
    BY FS_CardinalityType
  <2> QED
    BY <1>1, <1>4, <1>5, <2>1 DEF S
<1>7. g[k] = U
  <2>1. g[k] \in SUBSET U /\ Cardinality(U) \in Nat
    BY FS_CardinalityType
  <2>2. Cardinality(g[k]) <= Cardinality(U)
    BY <2>1, FS_Subset
  <2>3. Cardinality(U) = Cardinality(g[k])
    BY <1>1, <1>6, <2>1, <2>2
  <2> QED
    BY <2>1, <2>3, FS_Subset
<1>8. g[k + 1] \subseteq U /\ g[k] \subseteq g[k + 1]
  OBVIOUS
<1> QED
  BY <1>5, <1>7, <1>8
=============================================================================
