---------------------------- MODULE CfgPlanLemmas -----------------------------
(***************************************************************************)
(* What the operators of Cfg compute, for every program in block form: the *)
(* least solution of the liveness equations, and the scan of a block.  And *)
(* what the reference-counting planner of Cfg and CfgPlan computes, for    *)
(* every well-formed function: what is live at each site, which values are *)
(* managed, what a plan retains and releases at each site and on each edge *)
(* (SiteBalance, EdgePlan), and, for what the planner calls fresh, that a  *)
(* value used once is dead after its use (DeadAfterOnlyUse). Nothing here  *)
(* speaks of a running program.                                            *)
(***************************************************************************)
EXTENDS CfgShape, RecursionLemmas

-----------------------------------------------------------------------------
(* Liveness.                                                               *)

(* The rounds of LeastLiveIn, as the iterates of one step.                 *)

RoundOf(p, in) == [b \in Blocks(p) |-> InOf(Exposed(p, b), BlockDefs(p, b), OutOf(p, in, b))]

LEMMA Rounds ==
    ASSUME NEW p, Numbered(p)
    PROVE  \E g \in [Nat -> [Blocks(p) -> SUBSET Value]] :
              /\ g[0] = [b \in Blocks(p) |-> {}]
              /\ \A k \in Nat : g[k + 1] = RoundOf(p, g[k])
              /\ LeastLiveIn(p) = g[Len(p.params)]
<1> DEFINE T == [Blocks(p) -> SUBSET Value]
           none == [b \in Blocks(p) |-> {}]
           step == [in \in T |-> RoundOf(p, in)]
           f == CHOOSE r : r = [k \in Nat |->
                    IF k = 0 THEN [b \in Blocks(p) |-> {}]
                    ELSE [b \in Blocks(p) |->
                            InOf([c \in Blocks(p) |-> Exposed(p, c)][b],
                                 [c \in Blocks(p) |-> BlockDefs(p, c)][b],
                                 OutOf(p, r[k - 1], b))]]
           D(r) == r = [k \in Nat |-> IF k = 0 THEN none ELSE RoundOf(p, r[k - 1])]
<1>1. LeastLiveIn(p) = f[Len(p.params)]
  BY DEF LeastLiveIn
<1>2. \A in \in T : RoundOf(p, in) \in T
  <2>1. SUFFICES ASSUME NEW in \in T, NEW b \in Blocks(p)
                 PROVE  InOf(Exposed(p, b), BlockDefs(p, b), OutOf(p, in, b)) \in SUBSET Value
    BY DEF RoundOf
  <2>2. \A s \in Successors(p, b) : in[s] \subseteq Value
    BY DEF Numbered
  <2>3. Exposed(p, b) \subseteq Value
    BY DEF Exposed
  <2> QED
    BY <2>2, <2>3 DEF InOf, OutOf
<1>3. none \in T /\ step \in [T -> T]
  BY <1>2
<1>4. PICK g \in [Nat -> T] : Iterates(none, step, g)
  <2> HIDE DEF none, step, T
  <2> QED
    BY <1>3, IteratesExist
<1>5. D(g)
  <2>1. g[0] = none /\ \A k \in Nat : g[k + 1] = RoundOf(p, g[k])
    BY <1>4 DEF Iterates
  <2>2. ASSUME NEW k \in Nat, k # 0 PROVE g[k] = RoundOf(p, g[k - 1])
    <3>1. k - 1 \in Nat /\ (k - 1) + 1 = k
      BY <2>2
    <3> QED
      BY <2>1, <3>1
  <2> HIDE DEF none
  <2> QED
    BY <1>4, <2>1, <2>2
<1>6. D(f)
  <2>1. f = CHOOSE r : D(r)
    BY DEF RoundOf
  <2> HIDE DEF D, f
  <2> QED
    BY <1>5, <2>1
<1>7. f[0] = none /\ \A k \in Nat : f[k + 1] = RoundOf(p, f[k])
  <2>1. \A k \in Nat : k + 1 \in Nat /\ k + 1 # 0 /\ (k + 1) - 1 = k
    OBVIOUS
  <2>2. \A k \in Nat : f[k] = IF k = 0 THEN none ELSE RoundOf(p, f[k - 1])
    <3> HIDE DEF f, none
    <3> QED
      BY <1>6
  <2> HIDE DEF D, f, none
  <2> QED
    BY <2>1, <2>2
<1>8. f \in [Nat -> T]
  <2> DEFINE S == {k \in Nat : f[k] \in T}
  <2> HIDE DEF f, T, none
  <2>1. 0 \in S /\ \A k \in Nat : k \in S => k + 1 \in S
    BY <1>2, <1>3, <1>7
  <2> HIDE DEF S
  <2>2. \A k \in Nat : k \in S
    BY <2>1, NatBySteps
  <2> QED
    BY <1>6, <2>2 DEF S
<1> HIDE DEF f
<1> QED
  BY <1>1, <1>7, <1>8

LEMMA RoundMembers ==
    ASSUME NEW p, NEW in, NEW b \in Blocks(p), NEW x
    PROVE  x \in RoundOf(p, in)[b] <=>
              \/ x \in Exposed(p, b)
              \/ x \notin BlockDefs(p, b) /\ \E s \in Successors(p, b) : x \in in[s]
BY DEF RoundOf, InOf, OutOf

(* A value that a block needs it needs in every later round, and as many   *)
(* rounds as there are blocks carry each value to all blocks it is needed  *)
(* in: the last round solves the equations, and is below every solution.   *)
LEMMA LeastSolution ==
    ASSUME NEW p, Numbered(p)
    PROVE  /\ LeastLiveIn(p) \in [Blocks(p) -> SUBSET Value]
           /\ LeastLiveIn(p) = RoundOf(p, LeastLiveIn(p))
           /\ \A S \in [Blocks(p) -> SUBSET Value] :
                 S = RoundOf(p, S) => \A b \in Blocks(p) : LeastLiveIn(p)[b] \subseteq S[b]
<1> DEFINE T == [Blocks(p) -> SUBSET Value]
           N == Len(p.params)
<1>1. PICK g \in [Nat -> T] : /\ g[0] = [b \in Blocks(p) |-> {}]
                             /\ \A k \in Nat : g[k + 1] = RoundOf(p, g[k])
                             /\ LeastLiveIn(p) = g[N]
  BY Rounds
<1>2. /\ N \in Nat /\ Blocks(p) = 1 .. N
      /\ \A b \in Blocks(p) : Successors(p, b) \subseteq Blocks(p)
  BY DEF Numbered
<1>3. \A k \in Nat, b \in Blocks(p) : \A x :
          x \in g[k + 1][b] <=>
              \/ x \in Exposed(p, b)
              \/ x \notin BlockDefs(p, b) /\ \E s \in Successors(p, b) : x \in g[k][s]
  <2>1. \A in : \A b \in Blocks(p) : \A x :
          x \in RoundOf(p, in)[b] <=>
              \/ x \in Exposed(p, b)
              \/ x \notin BlockDefs(p, b) /\ \E s \in Successors(p, b) : x \in in[s]
    BY RoundMembers
  <2>2. SUFFICES ASSUME NEW k \in Nat, NEW b \in Blocks(p), NEW x
                 PROVE  x \in g[k + 1][b] <=>
                          \/ x \in Exposed(p, b)
                          \/ x \notin BlockDefs(p, b) /\ \E s \in Successors(p, b) : x \in g[k][s]
    OBVIOUS
  <2>3. g[k + 1] = RoundOf(p, g[k])
    BY <1>1
  <2>4. x \in RoundOf(p, g[k])[b] <=>
              \/ x \in Exposed(p, b)
              \/ x \notin BlockDefs(p, b) /\ \E s \in Successors(p, b) : x \in g[k][s]
    BY <2>1
  <2> QED
    BY <2>3, <2>4
<1>4. \A k \in Nat, b \in Blocks(p) : g[k][b] \subseteq g[k + 1][b]
  <2> DEFINE R == {k \in Nat : \A b \in Blocks(p) : g[k][b] \subseteq g[k + 1][b]}
  <2>1. 0 \in R
    BY <1>1
  <2>2. ASSUME NEW k \in Nat, k \in R PROVE k + 1 \in R
    <3>1. SUFFICES ASSUME NEW b \in Blocks(p), NEW x \in g[k + 1][b]
                   PROVE  x \in g[(k + 1) + 1][b]
      OBVIOUS
    <3>2. \A s \in Successors(p, b) : x \in g[k][s] => x \in g[k + 1][s]
      BY <1>2, <2>2
    <3>3. k + 1 \in Nat
      OBVIOUS
    <3>4. \/ x \in Exposed(p, b)
          \/ x \notin BlockDefs(p, b) /\ \E s \in Successors(p, b) : x \in g[k][s]
      BY <1>3, <3>1
    <3> QED
      BY <1>3, <3>2, <3>3, <3>4
  <2> HIDE DEF R
  <2>3. \A k \in Nat : k \in R
    BY <2>1, <2>2, NatBySteps
  <2> QED
    BY <2>3 DEF R
<1>5. g[N + 1] = g[N]
  <2>1. SUFFICES ASSUME NEW x \in Value, NEW b \in Blocks(p) PROVE x \in g[N + 1][b] <=> x \in g[N][b]
    <3>1. g[N] \in T /\ g[N + 1] \in T
      BY <1>2
    <3>2. ASSUME NEW b \in Blocks(p) PROVE g[N + 1][b] = g[N][b]
      <4>1. g[N + 1][b] \subseteq Value /\ g[N][b] \subseteq Value
        BY <3>1
      <4> HIDE DEF N
      <4> QED
        BY <2>1, <4>1
    <3> HIDE DEF N
    <3> QED
      BY <3>1, <3>2
  <2> DEFINE h == [k \in Nat |-> {c \in Blocks(p) : x \in g[k][c]}]
  <2>2. h \in [Nat -> SUBSET Blocks(p)]
    OBVIOUS
  <2>3. \A k \in Nat : h[k] \subseteq h[k + 1]
    BY <1>4
  <2>4. ASSUME NEW k \in Nat, h[k + 1] = h[k] PROVE h[k + 2] = h[k + 1]
    <3>1. k + 1 \in Nat /\ (k + 1) + 1 = k + 2
      OBVIOUS
    <3>2. \A c \in Blocks(p) : x \in g[k + 1][c] <=> x \in g[k][c]
      BY <2>4, <3>1
    <3>3. ASSUME NEW c \in Blocks(p) PROVE x \in g[k + 2][c] <=> x \in g[k + 1][c]
      <4>1. \A s \in Successors(p, c) : x \in g[k + 1][s] <=> x \in g[k][s]
        BY <1>2, <3>2
      <4>2. x \in g[k + 1][c] <=>
              \/ x \in Exposed(p, c)
              \/ x \notin BlockDefs(p, c) /\ \E s \in Successors(p, c) : x \in g[k][s]
        BY <1>3
      <4>3. x \in g[k + 2][c] <=>
              \/ x \in Exposed(p, c)
              \/ x \notin BlockDefs(p, c) /\ \E s \in Successors(p, c) : x \in g[k + 1][s]
        BY <1>3, <3>1
      <4> QED
        BY <4>1, <4>2, <4>3
    <3> QED
      BY <3>1, <3>3
  <2>5. Cardinality(h[0]) = 0
    <3>1. h[0] = {}
      BY <1>1
    <3> HIDE DEF h
    <3> QED
      BY <3>1, FS_EmptySet
  <2>6. IsFiniteSet(Blocks(p)) /\ Cardinality(Blocks(p)) = N
    BY <1>2, FS_Interval
  <2>7. Cardinality(Blocks(p)) <= N + Cardinality(h[0])
    BY <1>2, <2>5, <2>6
  <2> HIDE DEF h, N
  <2>8. h[N + 1] = h[N]
    BY <1>2, <2>2, <2>3, <2>4, <2>6, <2>7, GrowthStops
  <2>9. N + 1 \in Nat
    BY <1>2
  <2> QED
    BY <1>2, <2>8, <2>9 DEF h
<1>6. ASSUME NEW S \in T, S = RoundOf(p, S), NEW b \in Blocks(p) PROVE g[N][b] \subseteq S[b]
  <2> DEFINE R == {k \in Nat : \A c \in Blocks(p) : g[k][c] \subseteq S[c]}
  <2>1. 0 \in R
    BY <1>1
  <2>2. ASSUME NEW k \in Nat, k \in R PROVE k + 1 \in R
    <3>1. SUFFICES ASSUME NEW c \in Blocks(p), NEW x \in g[k + 1][c] PROVE x \in S[c]
      OBVIOUS
    <3>2. \A s \in Successors(p, c) : x \in g[k][s] => x \in S[s]
      BY <1>2, <2>2
    <3>3. x \in RoundOf(p, S)[c] <=>
              \/ x \in Exposed(p, c)
              \/ x \notin BlockDefs(p, c) /\ \E s \in Successors(p, c) : x \in S[s]
      BY RoundMembers
    <3> QED
      BY <1>3, <1>6, <3>1, <3>2, <3>3
  <2> HIDE DEF R
  <2>3. \A k \in Nat : k \in R
    BY <2>1, <2>2, NatBySteps
  <2> QED
    BY <1>2, <2>3 DEF R
<1> HIDE DEF N
<1>7. g[N] \in T /\ g[N + 1] = RoundOf(p, g[N])
  BY <1>1, <1>2
<1> QED
  BY <1>1, <1>5, <1>6, <1>7

-----------------------------------------------------------------------------
(* The scan inside a block, and paths.                                     *)

(* No site from i + 1 up to j defines x.                                   *)
Untouched(p, b, i, j, x) == \A m \in Sites(p, b) : i < m /\ m <= j => x \notin Defs(p, b, m)

(* Some site after i reads x before a site defines it, or x is live out of *)
(* the block and no site after i defines it.                               *)
ReadLater(p, b, i, x) ==
    \E j \in Sites(p, b) : i < j /\ x \in Uses(p, b, j) /\ Untouched(p, b, i, j - 1, x)

OutLater(p, b, i, x, out) == x \in out /\ Untouched(p, b, i, Last(p, b), x)

LEMMA SiteNumbers ==
    ASSUME NEW p, Numbered(p), NEW b \in Blocks(p)
    PROVE  Last(p, b) \in Nat \ {0} /\ Sites(p, b) = 1 .. Last(p, b)
BY DEF Numbered, Last, Sites

(* One step of the scan, said of paths.                                    *)
LEMMA LaterStep ==
    ASSUME NEW p, Numbered(p), NEW b \in Blocks(p), NEW i \in 0 .. Last(p, b), NEW x, NEW out
    PROVE  (ReadLater(p, b, i, x) \/ OutLater(p, b, i, x, out)) <=>
              IF i = Last(p, b) THEN x \in out
              ELSE \/ x \in Uses(p, b, i + 1)
                   \/ /\ x \notin Defs(p, b, i + 1)
                      /\ ReadLater(p, b, i + 1, x) \/ OutLater(p, b, i + 1, x, out)
<1> DEFINE e == Last(p, b)
<1>1. e \in Nat \ {0} /\ Sites(p, b) = 1 .. e
  BY SiteNumbers
<1> HIDE DEF e
<1>2. CASE i = e
  <2>1. \A j \in Sites(p, b) : ~(i < j)
    BY <1>1, <1>2
  <2> QED
    BY <1>2, <2>1 DEF ReadLater, OutLater, Untouched, e
<1>3. CASE i # e
  <2>1. i \in Nat /\ i + 1 \in Sites(p, b) /\ i < i + 1
    BY <1>1, <1>3 DEF e
  <2>2. \A j \in Int : Untouched(p, b, i, j, x) <=>
             (i + 1 <= j => x \notin Defs(p, b, i + 1)) /\ Untouched(p, b, i + 1, j, x)
    <3>1. \A m \in Sites(p, b) : m \in Int /\ (i < m <=> m = i + 1 \/ i + 1 < m)
      BY <1>1, <2>1
    <3> QED
      BY <2>1, <3>1 DEF Untouched
  <2>3. ReadLater(p, b, i, x) <=>
           \/ x \in Uses(p, b, i + 1)
           \/ x \notin Defs(p, b, i + 1) /\ ReadLater(p, b, i + 1, x)
    <3>1. \A j \in Sites(p, b) : j \in Int /\ j - 1 \in Int /\ (i < j <=> j = i + 1 \/ i + 1 < j)
                                 /\ (i + 1 <= j - 1 <=> i + 1 < j)
      BY <1>1, <2>1
    <3>2. Untouched(p, b, i, (i + 1) - 1, x)
      BY <1>1, <2>1 DEF Untouched
    <3>3. \A j \in Sites(p, b) : i + 1 < j =>
             (Untouched(p, b, i, j - 1, x) <=> x \notin Defs(p, b, i + 1) /\ Untouched(p, b, i + 1, j - 1, x))
      BY <2>2, <3>1
    <3> QED
      BY <2>1, <3>1, <3>2, <3>3 DEF ReadLater
  <2>4. OutLater(p, b, i, x, out) <=> x \notin Defs(p, b, i + 1) /\ OutLater(p, b, i + 1, x, out)
    <3>1. e \in Int /\ i + 1 <= e
      BY <1>1, <2>1
    <3> QED
      BY <2>2, <3>1 DEF OutLater, e
  <2> QED
    BY <1>3, <2>3, <2>4 DEF e
<1> QED
  BY <1>2, <1>3

(* The scan from the end of the block finds exactly these values.          *)
LEMMA ScanMembers ==
    ASSUME NEW p, Numbered(p), NEW b \in Blocks(p), NEW out \in SUBSET Value,
           NEW i \in 0 .. Last(p, b), NEW x
    PROVE  x \in LiveAfter(p, out, b)[i] <=>
              ReadLater(p, b, i, x) \/ OutLater(p, b, i, x, out)
<1> DEFINE e == Last(p, b)
           D(f) == f = [k \in 0 .. e |-> IF k = e THEN out
                                        ELSE (f[k + 1] \ Defs(p, b, k + 1)) \cup Uses(p, b, k + 1)]
           later(y, k) == ReadLater(p, b, k, y) \/ OutLater(p, b, k, y, out)
           h == [k \in 0 .. e |-> {y \in Value : later(y, k)}]
           a == LiveAfter(p, out, b)
<1>1. e \in Nat \ {0} /\ Sites(p, b) = 1 .. e
  BY SiteNumbers
<1>2. \A k \in 0 .. e, y \in Value :
         later(y, k) <=> IF k = e THEN y \in out
                         ELSE \/ y \in Uses(p, b, k + 1)
                              \/ y \notin Defs(p, b, k + 1) /\ later(y, k + 1)
  BY LaterStep
<1>3. D(h)
  <2> HIDE DEF e, later
  <2>1. SUFFICES ASSUME NEW k \in 0 .. e
                 PROVE  h[k] = IF k = e THEN out
                               ELSE (h[k + 1] \ Defs(p, b, k + 1)) \cup Uses(p, b, k + 1)
    OBVIOUS
  <2>2. CASE k = e
    BY <1>2, <2>2
  <2>3. CASE k # e
    <3>1. k + 1 \in 0 .. e /\ k + 1 \in Sites(p, b)
      BY <1>1, <2>3
    <3>2. Uses(p, b, k + 1) \subseteq Value
      BY <3>1 DEF Numbered
    <3> QED
      BY <1>2, <2>3, <3>1, <3>2
  <2> QED
    BY <2>2, <2>3
<1>4. D(a)
  <2>1. a = CHOOSE f : D(f)
    BY DEF LiveAfter
  <2> HIDE DEF D, a, h
  <2> QED
    BY <1>3, <2>1
<1>5. \A k \in 0 .. e : a[k] = IF k = e THEN out ELSE (a[k + 1] \ Defs(p, b, k + 1)) \cup Uses(p, b, k + 1)
  <2> HIDE DEF a, e
  <2> QED
    BY <1>4
<1> HIDE DEF D, a, h, e
<1> DEFINE S == {m \in Nat : \A k \in 0 .. e : k + m = e => \A y : y \in a[k] <=> later(y, k)}
<1>6. \A k \in 0 .. e : \A y :
         later(y, k) <=> IF k = e THEN y \in out
                         ELSE \/ y \in Uses(p, b, k + 1)
                              \/ y \notin Defs(p, b, k + 1) /\ later(y, k + 1)
  BY LaterStep DEF e
<1> HIDE DEF later
<1>7. 0 \in S
  <2>1. \A k \in 0 .. e : k + 0 = e => k = e
    BY <1>1
  <2> QED
    BY <1>5, <1>6, <2>1
<1>8. ASSUME NEW m \in Nat, m \in S PROVE m + 1 \in S
  <2>1. SUFFICES ASSUME NEW k \in 0 .. e, k + (m + 1) = e, NEW y
                 PROVE  y \in a[k] <=> later(y, k)
    OBVIOUS
  <2>2. k + 1 \in 0 .. e /\ (k + 1) + m = e /\ k # e
    BY <1>1, <2>1
  <2>3. y \in a[k + 1] <=> later(y, k + 1)
    BY <1>8, <2>2
  <2> QED
    <3>1. a[k] = (a[k + 1] \ Defs(p, b, k + 1)) \cup Uses(p, b, k + 1)
      BY <1>5, <2>2
    <3>2. later(y, k) <=> \/ y \in Uses(p, b, k + 1)
                          \/ y \notin Defs(p, b, k + 1) /\ later(y, k + 1)
      BY <1>6, <2>2
    <3> QED
      BY <2>3, <3>1, <3>2
<1> HIDE DEF S
<1>9. \A m \in Nat : m \in S
  BY <1>7, <1>8, NatBySteps
<1>10. i \in 0 .. e /\ e - i \in Nat /\ i + (e - i) = e
  BY <1>1 DEF e
<1>11. x \in a[i] <=> later(x, i)
  BY <1>9, <1>10 DEF S
<1> QED
  BY <1>11 DEF a, later

(* What is live into a block is what the scan says is live at its entry,   *)
(* without the parameters.                                                 *)
LEMMA EntryLive ==
    ASSUME NEW p, Numbered(p), NEW b \in Blocks(p), NEW out \in SUBSET Value, NEW x \in Value
    PROVE  x \in InOf(Exposed(p, b), BlockDefs(p, b), out) <=>
              x \notin Params(p, b) /\ x \in LiveAfter(p, out, b)[0]
<1> DEFINE e == Last(p, b)
<1>1. e \in Nat \ {0} /\ Sites(p, b) = 1 .. e /\ 0 \in 0 .. e
  BY SiteNumbers
<1>2. x \in LiveAfter(p, out, b)[0] <=> ReadLater(p, b, 0, x) \/ OutLater(p, b, 0, x, out)
  BY <1>1, ScanMembers
<1> HIDE DEF e
<1>3. x \in Exposed(p, b) <=> x \notin Params(p, b) /\ ReadLater(p, b, 0, x)
  <2>1. \A i \in Sites(p, b) : 0 < i /\
           ((\A j \in 1 .. i - 1 : x \notin Defs(p, b, j)) <=> Untouched(p, b, 0, i - 1, x))
    BY <1>1 DEF Untouched
  <2> QED
    BY <2>1 DEF Exposed, ReadLater
<1>4. x \notin BlockDefs(p, b) <=> x \notin Params(p, b) /\ Untouched(p, b, 0, e, x)
  <2>1. \A m \in Sites(p, b) : 0 < m /\ m <= e
    BY <1>1
  <2> QED
    BY <2>1 DEF BlockDefs, Untouched
<1> QED
  BY <1>2, <1>3, <1>4 DEF InOf, OutLater, e

-----------------------------------------------------------------------------
(* How many members of a finite set a function maps to a value: every      *)
(* count of owners below is such a number.                                 *)

(* How many members of a set a function maps to c.                         *)
Names(S, f, c) == Cardinality({x \in S : f[x] = c})

(* Such a number is a natural; it is zero when nothing is mapped to c.     *)
LEMMA NamesFinite ==
    ASSUME NEW S, IsFiniteSet(S), NEW f, NEW c
    PROVE  /\ IsFiniteSet({x \in S : f[x] = c}) /\ Names(S, f, c) \in Nat
           /\ \A x \in S : f[x] = c => Names(S, f, c) > 0
           /\ (\A x \in S : f[x] # c) => Names(S, f, c) = 0
<1> DEFINE T == {x \in S : f[x] = c}
<1>1. T \in SUBSET S
  OBVIOUS
<1>2. IsFiniteSet(T) /\ Cardinality(T) \in Nat
  BY <1>1, FS_Subset, FS_CardinalityType
<1>3. Cardinality(T) = 0 <=> T = {}
  BY <1>2, FS_EmptySet
<1> QED
  BY <1>2, <1>3 DEF Names

(* Only where a function meets c matters.                                  *)
LEMMA NamesSame ==
    ASSUME NEW S, NEW f, NEW g, NEW c, \A x \in S : f[x] = c <=> g[x] = c
    PROVE  Names(S, f, c) = Names(S, g, c)
<1>1. {x \in S : f[x] = c} = {x \in S : g[x] = c}
  OBVIOUS
<1> QED
  BY <1>1 DEF Names

(* Disjoint sets add up.                                                   *)
LEMMA NamesSplit ==
    ASSUME NEW S, NEW T, IsFiniteSet(S), IsFiniteSet(T), S \cap T = {}, NEW f, NEW c
    PROVE  Names(S \cup T, f, c) = Names(S, f, c) + Names(T, f, c)
<1> DEFINE A == {x \in S : f[x] = c}
           B == {x \in T : f[x] = c}
<1>1. IsFiniteSet(A) /\ IsFiniteSet(B)
  <2>1. A \in SUBSET S /\ B \in SUBSET T
    OBVIOUS
  <2> QED
    BY <2>1, FS_Subset
<1>2. A \cap B = {} /\ {x \in S \cup T : f[x] = c} = A \cup B
  OBVIOUS
<1>3. Cardinality(A) \in Nat /\ Cardinality(B) \in Nat
  BY <1>1, FS_CardinalityType
<1> HIDE DEF A, B
<1>4. Cardinality(A \cup B) = Cardinality(A) + Cardinality(B) - Cardinality(A \cap B)
  BY <1>1, FS_Union
<1>5. Cardinality(A \cap B) = 0
  BY <1>2, FS_EmptySet
<1> QED
  BY <1>2, <1>3, <1>4, <1>5 DEF Names, A, B

(* A single member counts once or not at all.                              *)
LEMMA NamesOne ==
    ASSUME NEW x, NEW f, NEW c
    PROVE  Names({x}, f, c) = IF f[x] = c THEN 1 ELSE 0
<1>1. CASE f[x] = c
  <2>1. {y \in {x} : f[y] = c} = {x}
    BY <1>1
  <2> QED
    BY <1>1, <2>1, FS_Singleton DEF Names
<1>2. CASE f[x] # c
  <2>1. {y \in {x} : f[y] = c} = {}
    BY <1>2
  <2> QED
    BY <1>2, <2>1, FS_EmptySet DEF Names
<1> QED
  BY <1>1, <1>2

(* One more member.                                                        *)
LEMMA NamesAdd ==
    ASSUME NEW S, IsFiniteSet(S), NEW x, x \notin S, NEW f, NEW c
    PROVE  Names(S \cup {x}, f, c) = Names(S, f, c) + (IF f[x] = c THEN 1 ELSE 0)
<1>1. IsFiniteSet({x}) /\ S \cap {x} = {}
  BY FS_Singleton
<1>2. Names(S \cup {x}, f, c) = Names(S, f, c) + Names({x}, f, c)
  BY <1>1, NamesSplit
<1> QED
  BY <1>2, NamesOne

(* One member less.                                                        *)
LEMMA NamesRemove ==
    ASSUME NEW S, IsFiniteSet(S), NEW x \in S, NEW f, NEW c
    PROVE  Names(S \ {x}, f, c) = Names(S, f, c) - (IF f[x] = c THEN 1 ELSE 0)
<1> DEFINE R == S \ {x}
<1>1. IsFiniteSet(R) /\ x \notin R /\ R \cup {x} = S
  BY FS_RemoveElement
<1> HIDE DEF R
<1>2. Names(R \cup {x}, f, c) = Names(R, f, c) + (IF f[x] = c THEN 1 ELSE 0)
  BY <1>1, NamesAdd
<1>3. Names(R, f, c) \in Nat
  BY <1>1, NamesFinite
<1> DEFINE d == IF f[x] = c THEN 1 ELSE 0
<1>4. Names(S, f, c) = Names(R, f, c) + d
  BY <1>1, <1>2
<1>5. d \in Nat
  OBVIOUS
<1> HIDE DEF d
<1>6. Names(R, f, c) = Names(S, f, c) - d
  BY <1>3, <1>4, <1>5
<1> QED
  BY <1>6 DEF R, d

(* A renaming of the members keeps the number; a member that is left out   *)
(* names something else.                                                   *)
LEMMA NamesMoved ==
    ASSUME NEW S, IsFiniteSet(S), NEW T, NEW f, NEW g, NEW h, NEW c,
           \A x \in S : f[x] = c => h[x] \in T /\ g[h[x]] = c,
           \A x, y \in S : h[x] = h[y] => x = y,
           \A z \in T : g[z] = c => \E x \in S : h[x] = z /\ f[x] = c
    PROVE  Names(T, g, c) = Names(S, f, c)
<1> DEFINE A == {x \in S : f[x] = c}
           B == {x \in T : g[x] = c}
           k == [x \in A |-> h[x]]
<1>1. IsFiniteSet(A)
  <2>1. A \in SUBSET S
    OBVIOUS
  <2> QED
    BY <2>1, FS_Subset
<1>2. k \in Bijection(A, B)
  <2>1. k \in [A -> B]
    OBVIOUS
  <2>2. \A x, y \in A : k[x] = k[y] => x = y
    OBVIOUS
  <2>3. \A z \in B : \E x \in A : k[x] = z
    OBVIOUS
  <2> QED
    BY <2>1, <2>2, <2>3 DEF Bijection, Injection, Surjection, IsInjective
<1>3. ExistsBijection(A, B)
  BY <1>2 DEF ExistsBijection
<1> HIDE DEF A, B
<1>4. Cardinality(B) = Cardinality(A)
  BY <1>1, <1>3, FS_Bijection
<1> QED
  BY <1>4 DEF Names, A, B

(* How many members of a set a function maps into W.                       *)
Into(S, f, W) == Cardinality({x \in S : f[x] \in W})

(* One more value to fall into.                                            *)
LEMMA IntoAdd ==
    ASSUME NEW S, IsFiniteSet(S), NEW f, NEW W, NEW w \in W
    PROVE  /\ Into(S, f, W) = Into(S, f, W \ {w}) + Names(S, f, w)
           /\ Into(S, f, W) \in Nat /\ Into(S, f, W \ {w}) \in Nat /\ Names(S, f, w) \in Nat
<1> DEFINE P == {x \in S : f[x] \in W \ {w}}
           Q == {x \in S : f[x] = w}
<1>1. {x \in S : f[x] \in W} = P \cup Q /\ P \cap Q = {}
  OBVIOUS
<1>2. P \in SUBSET S /\ Q \in SUBSET S
  OBVIOUS
<1>3. /\ IsFiniteSet(P) /\ IsFiniteSet(Q)
      /\ Cardinality(P) \in Nat /\ Cardinality(Q) \in Nat
  BY <1>2, FS_Subset, FS_CardinalityType
<1> HIDE DEF P, Q
<1>4. Cardinality(P \cup Q) = Cardinality(P) + Cardinality(Q) - Cardinality(P \cap Q)
  BY <1>3, FS_Union
<1>5. Cardinality(P \cap Q) = 0
  BY <1>1, FS_EmptySet
<1>6. Cardinality(P \cup Q) = Cardinality(P) + Cardinality(Q)
  BY <1>3, <1>4, <1>5
<1>7. Cardinality(P \cup Q) \in Nat
  BY <1>3, <1>6
<1> QED
  BY <1>1, <1>3, <1>6, <1>7 DEF Names, Into, P, Q

(* Two and three sets whose members are spread alike over W: as many of    *)
(* the ones as of the others fall into W.                                  *)
LEMMA SameSpread ==
    ASSUME NEW A, NEW B, NEW C, NEW D, NEW E, NEW a, NEW b, NEW c, NEW d, NEW e,
           IsFiniteSet(A), IsFiniteSet(B), IsFiniteSet(C), IsFiniteSet(D), IsFiniteSet(E),
           NEW W, IsFiniteSet(W),
           \A w \in W : Names(A, a, w) + Names(B, b, w) =
                          Names(C, c, w) + Names(D, d, w) + Names(E, e, w)
    PROVE  Into(A, a, W) + Into(B, b, W) = Into(C, c, W) + Into(D, d, W) + Into(E, e, W)
<1> DEFINE Same(U) == Into(A, a, U) + Into(B, b, U) = Into(C, c, U) + Into(D, d, U) + Into(E, e, U)
           S == {m \in Nat : \A U \in SUBSET W : Cardinality(U) = m => Same(U)}
<1>1. 0 \in S
  <2>1. SUFFICES ASSUME NEW U \in SUBSET W, Cardinality(U) = 0 PROVE Same(U)
    OBVIOUS
  <2>2. U = {}
    BY <2>1, FS_Subset, FS_EmptySet
  <2>3. \A X, h : {x \in X : h[x] \in U} = {}
    BY <2>2
  <2>4. \A X, h : Into(X, h, U) = 0
    BY <2>3, FS_EmptySet DEF Into
  <2> QED
    BY <2>4
<1>2. ASSUME NEW m \in Nat, m \in S PROVE m + 1 \in S
  <2>1. SUFFICES ASSUME NEW U \in SUBSET W, Cardinality(U) = m + 1 PROVE Same(U)
    OBVIOUS
  <2>2. IsFiniteSet(U) /\ U # {}
    BY <2>1, FS_Subset, FS_EmptySet
  <2>3. PICK w : w \in U
    BY <2>2
  <2> DEFINE R == U \ {w}
  <2>4. R \in SUBSET W /\ Cardinality(R) = m
    <3>1. Cardinality(R) = IF w \in U THEN Cardinality(U) - 1 ELSE Cardinality(U)
      BY <2>2, FS_RemoveElement
    <3>2. (m + 1) - 1 = m
      OBVIOUS
    <3> QED
      BY <2>1, <2>3, <3>1, <3>2
  <2>5. Same(R)
    BY <1>2, <2>4
  <2>6. Names(A, a, w) + Names(B, b, w) = Names(C, c, w) + Names(D, d, w) + Names(E, e, w)
    BY <2>3
  <2> HIDE DEF R
  <2>7. ASSUME NEW X, IsFiniteSet(X), NEW h
        PROVE  /\ Into(X, h, U) = Into(X, h, R) + Names(X, h, w)
               /\ Into(X, h, R) \in Nat /\ Names(X, h, w) \in Nat
    BY <2>3, <2>7, IntoAdd DEF R
  <2>8. /\ Into(A, a, U) = Into(A, a, R) + Names(A, a, w)
        /\ Into(B, b, U) = Into(B, b, R) + Names(B, b, w)
        /\ Into(C, c, U) = Into(C, c, R) + Names(C, c, w)
        /\ Into(D, d, U) = Into(D, d, R) + Names(D, d, w)
        /\ Into(E, e, U) = Into(E, e, R) + Names(E, e, w)
    BY <2>7
  <2>9. /\ Into(A, a, R) \in Nat /\ Into(B, b, R) \in Nat /\ Into(C, c, R) \in Nat
        /\ Into(D, d, R) \in Nat /\ Into(E, e, R) \in Nat
        /\ Names(A, a, w) \in Nat /\ Names(B, b, w) \in Nat /\ Names(C, c, w) \in Nat
        /\ Names(D, d, w) \in Nat /\ Names(E, e, w) \in Nat
    BY <2>7
  <2>10. \A a1, b1, c1, d1, e1, a2, b2, c2, d2, e2 \in Nat :
            a1 + b1 = c1 + d1 + e1 /\ a2 + b2 = c2 + d2 + e2 =>
               (a1 + a2) + (b1 + b2) = (c1 + c2) + (d1 + d2) + (e1 + e2)
    OBVIOUS
  <2>11. (Into(A, a, R) + Names(A, a, w)) + (Into(B, b, R) + Names(B, b, w)) =
           (Into(C, c, R) + Names(C, c, w)) + (Into(D, d, R) + Names(D, d, w))
             + (Into(E, e, R) + Names(E, e, w))
    BY <2>5, <2>6, <2>9, <2>10
  <2> QED
    BY <2>8, <2>11
<1> HIDE DEF S
<1>3. \A m \in Nat : m \in S
  BY <1>1, <1>2, NatBySteps
<1>4. Cardinality(W) \in Nat /\ W \in SUBSET W
  BY FS_CardinalityType
<1>5. Same(W)
  BY <1>3, <1>4 DEF S
<1> QED
  BY <1>5

-----------------------------------------------------------------------------
(* Liveness: the shape of what is live, and how it changes over a site and *)
(* into a block.                                                           *)

(* What a plan reads of the analysis.                                      *)
Out(p, b) == OutOf(p, LeastLiveIn(p), b)
After(p, b) == LiveAfter(p, Out(p, b), b)

(* The shape of a function, unfolded at a block: its sites, its            *)
(* terminator, its successors.                                             *)
LEMMA Shapes ==
    ASSUME NEW p, Shaped(p), NEW b \in Blocks(p)
    PROVE  /\ Numbered(p)
           /\ Last(p, b) \in Nat \ {0} /\ Sites(p, b) = 1 .. Last(p, b)
           /\ \A i \in Sites(p, b) : i # Last(p, b) <=> i \in DOMAIN p.insts[b]
           /\ \A i \in DOMAIN p.insts[b] : /\ i \in Sites(p, b) /\ InstShape(p.insts[b][i])
                                           /\ ExprAt(p, b, i) = p.insts[b][i].expr
                                           /\ Defs(p, b, i) = {p.insts[b][i].result}
                                           /\ p.insts[b][i].result \in Value
           /\ Defs(p, b, Last(p, b)) = {} /\ ExprAt(p, b, Last(p, b)) = p.term[b].expr
           /\ TermShape(p, p.term[b])
           /\ \A i \in Sites(p, b) : ExprAt(p, b, i).args \in Seq(Occurrence)
           /\ \A j \in DOMAIN p.term[b].succ : p.term[b].succ[j] \in Blocks(p)
<1>1. /\ Numbered(p) /\ Len(p.insts[b]) \in Nat /\ DOMAIN p.insts[b] = 1 .. Len(p.insts[b])
  BY DEF Shaped, Numbered
<1>2. Last(p, b) \in Nat \ {0} /\ Sites(p, b) = 1 .. Last(p, b) /\ Last(p, b) = Len(p.insts[b]) + 1
  BY <1>1 DEF Last, Sites
<1>3. \A i \in Sites(p, b) : i # Last(p, b) <=> i \in DOMAIN p.insts[b]
  BY <1>1, <1>2
<1>4. \A i \in DOMAIN p.insts[b] : i \in Sites(p, b) /\ i # Last(p, b)
  BY <1>1, <1>2
<1>5. \A i \in DOMAIN p.insts[b] : InstShape(p.insts[b][i])
  BY DEF Shaped
<1>6. TermShape(p, p.term[b])
  BY DEF Shaped
<1>7. \A i \in DOMAIN p.insts[b] : /\ ExprAt(p, b, i) = p.insts[b][i].expr
                                   /\ Defs(p, b, i) = {p.insts[b][i].result}
  BY <1>4 DEF ExprAt, Defs
<1>8. Defs(p, b, Last(p, b)) = {} /\ ExprAt(p, b, Last(p, b)) = p.term[b].expr
  BY DEF ExprAt, Defs
<1>9. \A i \in DOMAIN p.insts[b] : p.insts[b][i].result \in Value /\ p.insts[b][i].expr.args \in Seq(Occurrence)
  BY <1>5 DEF InstShape
<1>10. p.term[b].expr.args \in Seq(Occurrence) /\ p.term[b].succ \in Seq(Blocks(p))
  BY <1>6 DEF TermShape
<1>11. \A i \in Sites(p, b) : ExprAt(p, b, i).args \in Seq(Occurrence)
  BY <1>3, <1>7, <1>8, <1>9, <1>10
<1> QED
  BY <1>1, <1>2, <1>3, <1>4, <1>5, <1>6, <1>7, <1>8, <1>9, <1>10, <1>11

(* The occurrences of a site.                                              *)
LEMMA Occurring ==
    ASSUME NEW p, Shaped(p), NEW b \in Blocks(p), NEW i \in Sites(p, b)
    PROVE  LET args == ExprAt(p, b, i).args
           IN  /\ IsFiniteSet(DOMAIN args) /\ DOMAIN args = 1 .. Len(args) /\ Len(args) \in Nat
               /\ \A k \in DOMAIN args : /\ args[k] \in Occurrence /\ args[k].val \in Value
                                         /\ args[k].via \in {"direct", "field", "call"}
                                         /\ args[k].val \in Uses(p, b, i)
               /\ \A v \in Uses(p, b, i) : v \in Value /\ \E k \in DOMAIN args : args[k].val = v
<1> DEFINE args == ExprAt(p, b, i).args
<1>1. args \in Seq(Occurrence)
  BY Shapes
<1>2. Uses(p, b, i) = {args[k].val : k \in DOMAIN args}
  BY DEF Uses, Elems
<1> HIDE DEF args
<1>3. DOMAIN args = 1 .. Len(args) /\ Len(args) \in Nat /\ \A k \in DOMAIN args : args[k] \in Occurrence
  BY <1>1
<1>4. \A o \in Occurrence : o.val \in Value /\ o.via \in {"direct", "field", "call"}
  BY DEF Occurrence
<1>5. IsFiniteSet(DOMAIN args)
  BY <1>3, FS_Interval
<1> QED
  BY <1>2, <1>3, <1>4, <1>5 DEF args

-----------------------------------------------------------------------------
(* What is live, step by step.                                             *)

(* What is live anywhere is a set of values.                               *)
LEMMA LiveTypes ==
    ASSUME NEW p, Shaped(p), NEW b \in Blocks(p)
    PROVE  /\ LeastLiveIn(p) \in [Blocks(p) -> SUBSET Value]
           /\ Out(p, b) \subseteq Value
           /\ \A s \in Successors(p, b) : s \in Blocks(p) /\ LeastLiveIn(p)[s] \subseteq Out(p, b)
<1>1. Numbered(p)
  BY Shapes
<1>2. LeastLiveIn(p) \in [Blocks(p) -> SUBSET Value]
  BY <1>1, LeastSolution
<1>3. Successors(p, b) \subseteq Blocks(p)
  BY <1>1 DEF Numbered
<1> QED
  BY <1>2, <1>3 DEF Out, OutOf

(* The scan of a block, backwards from what is live out of it.             *)
LEMMA ScanStep ==
    ASSUME NEW p, Shaped(p), NEW b \in Blocks(p)
    PROVE  /\ After(p, b)[Last(p, b)] = Out(p, b)
           /\ \A i \in Sites(p, b) :
                After(p, b)[i - 1] = (After(p, b)[i] \ Defs(p, b, i)) \cup Uses(p, b, i)
<1>1. Numbered(p) /\ Last(p, b) \in Nat \ {0} /\ Sites(p, b) = 1 .. Last(p, b)
  BY Shapes
<1>2. Out(p, b) \in SUBSET Value
  BY LiveTypes
<1> DEFINE out == Out(p, b)
           later(x, i) == ReadLater(p, b, i, x) \/ OutLater(p, b, i, x, out)
<1>3. \A i \in 0 .. Last(p, b) : \A x : x \in After(p, b)[i] <=> later(x, i)
  BY <1>1, <1>2, ScanMembers DEF After
<1>4. \A i \in 0 .. Last(p, b) : \A x :
        later(x, i) <=> IF i = Last(p, b) THEN x \in out
                        ELSE \/ x \in Uses(p, b, i + 1)
                             \/ x \notin Defs(p, b, i + 1) /\ later(x, i + 1)
  BY <1>1, LaterStep
<1> HIDE DEF later
<1>5. After(p, b)[Last(p, b)] \subseteq Value /\ \A i \in 0 .. Last(p, b) : After(p, b)[i] = {x \in After(p, b)[i] : TRUE}
  <2>1. Last(p, b) \in 0 .. Last(p, b)
    BY <1>1
  <2> QED
    BY <1>2, <1>3, <1>4, <2>1
<1>6. ASSUME NEW i \in Sites(p, b)
      PROVE  \A x : x \in After(p, b)[i - 1] <=> x \in (After(p, b)[i] \ Defs(p, b, i)) \cup Uses(p, b, i)
  <2>1. i - 1 \in 0 .. Last(p, b) /\ i - 1 # Last(p, b) /\ (i - 1) + 1 = i /\ i \in 0 .. Last(p, b)
    BY <1>1
  <2> QED
    BY <1>3, <1>4, <2>1
<1>7. \A x : x \in After(p, b)[Last(p, b)] <=> x \in Out(p, b)
  <2>1. Last(p, b) \in 0 .. Last(p, b)
    BY <1>1
  <2> QED
    BY <1>3, <1>4, <2>1
<1>8. \A i \in 0 .. Last(p, b) : \E S : After(p, b)[i] = S
  OBVIOUS
<1> QED
  BY <1>6, <1>7

(* What is live into a block is what is live at its entry, less its        *)
(* parameters.                                                             *)
LEMMA EntryStep ==
    ASSUME NEW p, Shaped(p), NEW b \in Blocks(p)
    PROVE  LeastLiveIn(p)[b] = After(p, b)[0] \ Params(p, b)
<1>1. Numbered(p) /\ Last(p, b) \in Nat \ {0} /\ Sites(p, b) = 1 .. Last(p, b)
  BY Shapes
<1>2. Out(p, b) \in SUBSET Value /\ LeastLiveIn(p)[b] \subseteq Value
  BY LiveTypes
<1>3. LeastLiveIn(p)[b] = InOf(Exposed(p, b), BlockDefs(p, b), Out(p, b))
  <2>1. LeastLiveIn(p) = RoundOf(p, LeastLiveIn(p))
    BY <1>1, LeastSolution
  <2>2. RoundOf(p, LeastLiveIn(p))[b] = InOf(Exposed(p, b), BlockDefs(p, b), Out(p, b))
    BY DEF RoundOf, Out
  <2> QED
    BY <2>1, <2>2
<1>4. \A x \in Value : x \in LeastLiveIn(p)[b] <=> x \notin Params(p, b) /\ x \in After(p, b)[0]
  BY <1>1, <1>2, <1>3, EntryLive DEF After
<1>5. After(p, b)[0] \subseteq Value
  <2>1. ASSUME NEW x, ReadLater(p, b, 0, x) PROVE x \in Value
    BY <1>1, <2>1 DEF ReadLater, Numbered
  <2>2. 0 \in 0 .. Last(p, b)
    BY <1>1
  <2>3. \A x : x \in After(p, b)[0] <=> ReadLater(p, b, 0, x) \/ OutLater(p, b, 0, x, Out(p, b))
    BY <1>1, <1>2, <2>2, ScanMembers DEF After
  <2> QED
    BY <1>2, <2>1, <2>3 DEF OutLater
<1> QED
  BY <1>2, <1>4, <1>5

(* Only what some site reads is ever live.                                 *)
LEMMA LiveIsRead ==
    ASSUME NEW p, Shaped(p), NEW b \in Blocks(p)
    PROVE  /\ LeastLiveIn(p)[b] \subseteq Reads(p) /\ Out(p, b) \subseteq Reads(p)
           /\ \A i \in 0 .. Last(p, b) : After(p, b)[i] \subseteq Reads(p)
           /\ \A i \in Sites(p, b) : Uses(p, b, i) \subseteq Reads(p)
<1>1. Numbered(p) /\ Last(p, b) \in Nat \ {0} /\ Sites(p, b) = 1 .. Last(p, b)
  BY Shapes
<1> DEFINE L == LeastLiveIn(p)
           S == [c \in Blocks(p) |-> L[c] \cap Reads(p)]
<1>2. /\ L \in [Blocks(p) -> SUBSET Value] /\ L = RoundOf(p, L)
      /\ \A T \in [Blocks(p) -> SUBSET Value] :
            T = RoundOf(p, T) => \A c \in Blocks(p) : L[c] \subseteq T[c]
  BY <1>1, LeastSolution
<1> HIDE DEF L
<1>3. \A c \in Blocks(p) : \A i \in Sites(p, c) : Uses(p, c, i) \subseteq Reads(p)
  BY DEF Reads
<1>4. \A c \in Blocks(p) : Exposed(p, c) \subseteq Reads(p)
  BY <1>3 DEF Exposed
<1>5. S \in [Blocks(p) -> SUBSET Value]
  BY <1>2
<1>6. S = RoundOf(p, S)
  <2>1. ASSUME NEW c \in Blocks(p) PROVE S[c] = RoundOf(p, S)[c]
    <3>1. Successors(p, c) \subseteq Blocks(p)
      BY <1>1 DEF Numbered
    <3>2. \A x : x \in L[c] <=> \/ x \in Exposed(p, c)
                                \/ x \notin BlockDefs(p, c) /\ \E s \in Successors(p, c) : x \in L[s]
      BY <1>2, RoundMembers
    <3>3. \A x : x \in RoundOf(p, S)[c] <=> \/ x \in Exposed(p, c)
                                            \/ x \notin BlockDefs(p, c) /\ \E s \in Successors(p, c) : x \in S[s]
      <4> HIDE DEF S
      <4> QED
        BY RoundMembers
    <3>4. \A s \in Successors(p, c) : \A x : x \in S[s] <=> x \in L[s] /\ x \in Reads(p)
      BY <3>1
    <3>5. \A x : x \in S[c] <=> x \in L[c] /\ x \in Reads(p)
      OBVIOUS
    <3>6. \A x : x \in S[c] <=> x \in RoundOf(p, S)[c]
      <4> HIDE DEF S
      <4>1. SUFFICES ASSUME NEW x PROVE x \in S[c] <=> x \in RoundOf(p, S)[c]
        OBVIOUS
      <4>2. x \in Exposed(p, c) => x \in Reads(p)
        BY <1>4
      <4>3. \A s \in Successors(p, c) : x \in S[s] <=> x \in L[s] /\ x \in Reads(p)
        BY <3>4
      <4>4. x \in L[c] <=> \/ x \in Exposed(p, c)
                           \/ x \notin BlockDefs(p, c) /\ \E s \in Successors(p, c) : x \in L[s]
        BY <3>2
      <4>5. x \in RoundOf(p, S)[c] <=> \/ x \in Exposed(p, c)
                                       \/ x \notin BlockDefs(p, c) /\ \E s \in Successors(p, c) : x \in S[s]
        BY <3>3
      <4>6. x \in S[c] <=> x \in L[c] /\ x \in Reads(p)
        BY <3>5
      <4> QED
        BY <4>2, <4>3, <4>4, <4>5, <4>6
    <3> DEFINE R == RoundOf(p, S)[c]
    <3>7. \A x : x \in S[c] <=> x \in R
      BY <3>6
    <3>8. R = InOf(Exposed(p, c), BlockDefs(p, c), OutOf(p, S, c))
      BY DEF RoundOf
    <3> HIDE DEF R
    <3> QED
      BY <3>7, <3>8 DEF InOf, R
  <2>2. RoundOf(p, S) = [c \in Blocks(p) |-> RoundOf(p, S)[c]]
    BY DEF RoundOf
  <2>3. S = [c \in Blocks(p) |-> S[c]]
    OBVIOUS
  <2> HIDE DEF S
  <2> QED
    BY <2>1, <2>2, <2>3
<1>7. \A c \in Blocks(p) : L[c] \subseteq Reads(p)
  <2>1. \A c \in Blocks(p) : L[c] \subseteq S[c]
    <3> HIDE DEF S
    <3> QED
      BY <1>2, <1>5, <1>6
  <2> QED
    BY <2>1
<1>8. Out(p, b) \subseteq Reads(p)
  <2>1. Successors(p, b) \subseteq Blocks(p)
    BY <1>1 DEF Numbered
  <2> QED
    BY <1>7, <2>1 DEF Out, OutOf, L
<1>9. \A i \in 0 .. Last(p, b) : After(p, b)[i] \subseteq Reads(p)
  <2>1. Out(p, b) \in SUBSET Value
    BY LiveTypes
  <2>2. \A i \in 0 .. Last(p, b) : \A x :
           x \in After(p, b)[i] <=> ReadLater(p, b, i, x) \/ OutLater(p, b, i, x, Out(p, b))
    BY <1>1, <2>1, ScanMembers DEF After
  <2>3. \A i \in 0 .. Last(p, b) : \A x : ReadLater(p, b, i, x) => x \in Reads(p)
    BY <1>3 DEF ReadLater
  <2> QED
    BY <1>8, <2>2, <2>3 DEF OutLater
<1> QED
  BY <1>3, <1>7, <1>8, <1>9 DEF L

(* Only values are read.                                                   *)
LEMMA ReadsAreValues ==
    ASSUME NEW p, Shaped(p)
    PROVE  Reads(p) \subseteq Value
<1>1. \A b \in Blocks(p) : \A i \in Sites(p, b) : Uses(p, b, i) \subseteq Value
  BY DEF Shaped, Numbered
<1> QED
  BY <1>1 DEF Reads

-----------------------------------------------------------------------------
(* The managed values, cfg_arc.rs's classification.                        *)

(* There are finitely many values.                                         *)
LEMMA ValuesFinite == IsFiniteSet(Value) /\ Cardinality(Value) \in Nat
BY ValueIdAssumption, FS_CardinalityType

(* A block's parameters are values, each named once.                       *)
LEMMA ParamsShape ==
    ASSUME NEW p, Shaped(p), NEW b \in Blocks(p)
    PROVE  /\ p.params[b] \in Seq(Value) /\ DOMAIN p.params[b] = 1 .. Len(p.params[b])
           /\ Len(p.params[b]) \in Nat /\ IsFiniteSet(DOMAIN p.params[b])
           /\ \A k \in DOMAIN p.params[b] : p.params[b][k] \in Params(p, b) /\ p.params[b][k] \in Value
           /\ \A v \in Params(p, b) : v \in Value /\ \E k \in DOMAIN p.params[b] : p.params[b][k] = v
           /\ \A j, k \in DOMAIN p.params[b] : p.params[b][j] = p.params[b][k] => j = k
<1>1. p.params[b] \in Seq(Value) /\ \A j, k \in DOMAIN p.params[b] : p.params[b][j] = p.params[b][k] => j = k
  BY DEF Shaped
<1>2. Len(p.params[b]) \in Nat /\ DOMAIN p.params[b] = 1 .. Len(p.params[b])
  BY <1>1
<1>3. IsFiniteSet(DOMAIN p.params[b])
  BY <1>2, FS_Interval
<1> QED
  BY <1>1, <1>2, <1>3 DEF Params, Elems

(* What one pass over the program adds.                                    *)
LEMMA ManagedMembers ==
    ASSUME NEW p, NEW S, NEW x
    PROVE  x \in ManagedStep(p, S) <=>
             \/ x \in S
             \/ \E s \in Insts(p) :
                  LET e == ExprAt(p, s[1], s[2])
                  IN  /\ x = ResultOf(p, s[1], s[2])
                      /\ ExprIsManaged(e.kind, Elems([k \in DOMAIN e.args |-> e.args[k].val]), S)
             \/ \E b \in Blocks(p) :
                  /\ p.term[b].kind = "goto"
                  /\ \E k \in DOMAIN p.term[b].expr.args :
                        /\ x = p.params[p.term[b].succ[1]][k]
                        /\ ExprIsManaged(ArgKind(p.term[b].expr, k), {p.term[b].expr.args[k].val}, S)
             \/ \E b \in Blocks(p) :
                  /\ p.term[b].kind = "match" /\ DirectValue(p.term[b].expr) \subseteq S
                  /\ \E j \in 1 .. Len(p.term[b].succ) - 1 : x \in Params(p, p.term[b].succ[j])
<1> DEFINE into(b) ==
             LET t == p.term[b]
             IN  {p.params[t.succ[1]][k] :
                    k \in {j \in DOMAIN t.expr.args :
                             t.kind = "goto" /\
                             ExprIsManaged(ArgKind(t.expr, j), {t.expr.args[j].val}, S)}}
                 \cup IF t.kind = "match" /\ DirectValue(t.expr) \subseteq S
                        THEN UNION {Params(p, t.succ[j]) : j \in 1 .. Len(t.succ) - 1}
                        ELSE {}
           lets == {ResultOf(p, s[1], s[2]) :
                      s \in {t \in Insts(p) : LET e == ExprAt(p, t[1], t[2])
                                              IN  ExprIsManaged(e.kind, Elems([k \in DOMAIN e.args |-> e.args[k].val]), S)}}
<1>1. ManagedStep(p, S) = S \cup lets \cup UNION {into(b) : b \in Blocks(p)}
  BY DEF ManagedStep
<1>2. ASSUME NEW b \in Blocks(p)
      PROVE  x \in into(b) <=>
               \/ /\ p.term[b].kind = "goto"
                  /\ \E k \in DOMAIN p.term[b].expr.args :
                        /\ x = p.params[p.term[b].succ[1]][k]
                        /\ ExprIsManaged(ArgKind(p.term[b].expr, k), {p.term[b].expr.args[k].val}, S)
               \/ /\ p.term[b].kind = "match" /\ DirectValue(p.term[b].expr) \subseteq S
                  /\ \E j \in 1 .. Len(p.term[b].succ) - 1 : x \in Params(p, p.term[b].succ[j])
  OBVIOUS
<1>3. x \in UNION {into(b) : b \in Blocks(p)} <=> \E b \in Blocks(p) : x \in into(b)
  OBVIOUS
<1>4. x \in lets <=> \E s \in Insts(p) :
                  LET e == ExprAt(p, s[1], s[2])
                  IN  /\ x = ResultOf(p, s[1], s[2])
                      /\ ExprIsManaged(e.kind, Elems([k \in DOMAIN e.args |-> e.args[k].val]), S)
  OBVIOUS
<1> HIDE DEF into, lets
<1> QED
  BY <1>1, <1>2, <1>3, <1>4

(* The managed values are values, and one more pass finds no more.         *)
LEMMA ManagedIsValues ==
    ASSUME NEW p, Shaped(p), NEW S \in SUBSET Value
    PROVE  S \subseteq ManagedStep(p, S) /\ ManagedStep(p, S) \in SUBSET Value
<1>1. \A s \in Insts(p) : ResultOf(p, s[1], s[2]) \in Value
  <2>1. SUFFICES ASSUME NEW s \in Insts(p) PROVE ResultOf(p, s[1], s[2]) \in Value
    OBVIOUS
  <2>2. PICK b \in Blocks(p) : s \in {b} \X Sites(p, b) /\ s[2] < Last(p, s[1])
    BY DEF Insts, AllSites
  <2>3. s[1] = b /\ s[2] \in Sites(p, b) /\ s[2] # Last(p, b)
    <3>1. s[1] = b /\ s[2] \in Sites(p, b) /\ s[2] < Last(p, b)
      BY <2>2
    <3>2. Last(p, b) \in Nat /\ Sites(p, b) \subseteq Nat
      BY Shapes
    <3> QED
      BY <3>1, <3>2
  <2>4. s[2] \in DOMAIN p.insts[b]
    BY <2>3, Shapes
  <2> QED
    BY <2>3, <2>4, Shapes DEF ResultOf
<1>2. ASSUME NEW b \in Blocks(p), p.term[b].kind = "goto", NEW j \in DOMAIN p.term[b].expr.args
      PROVE  p.params[p.term[b].succ[1]][j] \in Value
  <2>1. /\ Len(p.term[b].succ) = 1 /\ p.term[b].succ \in Seq(Blocks(p))
        /\ Len(p.term[b].expr.args) = Len(p.params[p.term[b].succ[1]])
        /\ p.term[b].expr.args \in Seq(Occurrence)
    BY <1>2, Shapes DEF TermShape
  <2>2. p.term[b].succ[1] \in Blocks(p)
    BY <2>1
  <2>3. j \in DOMAIN p.params[p.term[b].succ[1]]
    BY <2>1, <2>2, ParamsShape
  <2> QED
    BY <2>2, <2>3, ParamsShape
<1>3. ASSUME NEW b \in Blocks(p), NEW j \in 1 .. Len(p.term[b].succ) - 1
      PROVE  Params(p, p.term[b].succ[j]) \subseteq Value
  <2>1. p.term[b].succ \in Seq(Blocks(p))
    BY Shapes DEF TermShape
  <2>2. p.term[b].succ[j] \in Blocks(p)
    BY <2>1
  <2> QED
    BY <2>2, ParamsShape
<1>4. \A x \in ManagedStep(p, S) : x \in Value
  <2>1. SUFFICES ASSUME NEW x \in ManagedStep(p, S), x \notin S PROVE x \in Value
    OBVIOUS
  <2>2. \/ \E s \in Insts(p) : x = ResultOf(p, s[1], s[2])
        \/ \E b \in Blocks(p) : /\ p.term[b].kind = "goto"
                               /\ \E k \in DOMAIN p.term[b].expr.args : x = p.params[p.term[b].succ[1]][k]
        \/ \E b \in Blocks(p) : \E j \in 1 .. Len(p.term[b].succ) - 1 : x \in Params(p, p.term[b].succ[j])
    <3> DEFINE lets == \E s \in Insts(p) :
                  LET e == ExprAt(p, s[1], s[2])
                  IN  /\ x = ResultOf(p, s[1], s[2])
                      /\ ExprIsManaged(e.kind, Elems([k \in DOMAIN e.args |-> e.args[k].val]), S)
               gotos == \E b \in Blocks(p) :
                  /\ p.term[b].kind = "goto"
                  /\ \E k \in DOMAIN p.term[b].expr.args :
                        /\ x = p.params[p.term[b].succ[1]][k]
                        /\ ExprIsManaged(ArgKind(p.term[b].expr, k), {p.term[b].expr.args[k].val}, S)
               arms == \E b \in Blocks(p) :
                  /\ p.term[b].kind = "match" /\ DirectValue(p.term[b].expr) \subseteq S
                  /\ \E j \in 1 .. Len(p.term[b].succ) - 1 : x \in Params(p, p.term[b].succ[j])
    <3>1. x \in ManagedStep(p, S) <=> x \in S \/ lets \/ gotos \/ arms
      BY ManagedMembers
    <3>2. lets => \E s \in Insts(p) : x = ResultOf(p, s[1], s[2])
      OBVIOUS
    <3>3. gotos => \E b \in Blocks(p) : /\ p.term[b].kind = "goto"
                    /\ \E k \in DOMAIN p.term[b].expr.args : x = p.params[p.term[b].succ[1]][k]
      OBVIOUS
    <3>4. arms => \E b \in Blocks(p) : \E j \in 1 .. Len(p.term[b].succ) - 1 : x \in Params(p, p.term[b].succ[j])
      OBVIOUS
    <3> HIDE DEF lets, gotos, arms
    <3> QED
      BY <2>1, <3>1, <3>2, <3>3, <3>4
  <2> QED
    BY <1>1, <1>2, <1>3, <2>2
<1>5. \A x \in S : x \in ManagedStep(p, S)
  BY ManagedMembers
<1> QED
  BY <1>4, <1>5

(* The managed values are closed under one more pass over the program.     *)
LEMMA ManagedClosed ==
    ASSUME NEW p, Shaped(p)
    PROVE  Classify(p) \in SUBSET Value /\ ManagedStep(p, Classify(p)) = Classify(p)
<1> DEFINE T == SUBSET Value
           step == [S \in T |-> ManagedStep(p, S)]
           D(r) == r = [m \in Nat |-> IF m = 0 THEN p.facts ELSE ManagedStep(p, r[m - 1])]
           f == CHOOSE r : D(r)
           N == Cardinality(Value)
<1>1. Classify(p) = f[N]
  BY DEF Classify
<1>2. p.facts \in T /\ step \in [T -> T]
  BY ManagedIsValues DEF Shaped
<1>3. PICK g \in [Nat -> T] : Iterates(p.facts, step, g)
  <2> HIDE DEF step, T
  <2> QED
    BY <1>2, IteratesExist
<1>4. \A m \in Nat : g[m + 1] = ManagedStep(p, g[m])
  BY <1>3 DEF Iterates
<1>5. D(g)
  <2>1. ASSUME NEW m \in Nat, m # 0 PROVE g[m] = ManagedStep(p, g[m - 1])
    <3>1. m - 1 \in Nat /\ (m - 1) + 1 = m
      BY <2>1
    <3> QED
      BY <1>4, <3>1
  <2> HIDE DEF T
  <2> QED
    BY <1>3, <2>1 DEF Iterates
<1>6. D(f)
  <2> HIDE DEF D
  <2> QED
    BY <1>5
<1>7. f[0] = p.facts /\ \A m \in Nat : f[m + 1] = ManagedStep(p, f[m])
  <2>1. \A m \in Nat : m + 1 \in Nat /\ m + 1 # 0 /\ (m + 1) - 1 = m
    OBVIOUS
  <2>2. \A m \in Nat : f[m] = IF m = 0 THEN p.facts ELSE ManagedStep(p, f[m - 1])
    <3> HIDE DEF f
    <3> QED
      BY <1>6
  <2> HIDE DEF f, D
  <2> QED
    BY <2>1, <2>2
<1>8. f \in [Nat -> T]
  <2> DEFINE S == {m \in Nat : f[m] \in T}
  <2>1. 0 \in S /\ \A m \in Nat : m \in S => m + 1 \in S
    <3> HIDE DEF f, T
    <3>1. \A X \in T : ManagedStep(p, X) \in T
      BY ManagedIsValues DEF T
    <3> QED
      BY <1>2, <1>7, <3>1
  <2> HIDE DEF S, T
  <2>2. \A m \in Nat : m \in S
    BY <2>1, NatBySteps
  <2>3. \A m \in Nat : f[m] \in T
    BY <2>2 DEF S
  <2> HIDE DEF f
  <2> QED
    BY <1>6, <2>3
<1> HIDE DEF f, D, step, N
<1>9. f[N + 1] = f[N]
  <2>1. IsFiniteSet(Value) /\ N \in Nat
    BY ValuesFinite DEF N
  <2>2. \A m \in Nat : f[m] \subseteq f[m + 1]
    BY <1>7, <1>8, ManagedIsValues
  <2>3. \A m \in Nat : f[m + 1] = f[m] => f[m + 2] = f[m + 1]
    <3>1. \A m \in Nat : m + 1 \in Nat /\ (m + 1) + 1 = m + 2
      OBVIOUS
    <3> QED
      BY <1>7, <3>1
  <2>4. Cardinality(f[0]) \in Nat
    BY <1>8, <2>1, FS_Subset, FS_CardinalityType
  <2>5. Cardinality(Value) <= N + Cardinality(f[0])
    BY <2>1, <2>4 DEF N
  <2> QED
    BY <1>8, <2>1, <2>2, <2>3, <2>5, GrowthStops
<1>10. N \in Nat
  BY ValuesFinite DEF N
<1> QED
  BY <1>1, <1>7, <1>8, <1>9, <1>10

(* What may name a cell is managed.                                        *)
LEMMA ManagedRules ==
    ASSUME NEW p, Shaped(p), ScalarsAreScalar(p), NEW b \in Blocks(p)
    PROVE  LET m == Classify(p)
               t == p.term[b]
           IN  /\ m \subseteq Value
               /\ \A i \in DOMAIN p.insts[b] :
                    LET in == p.insts[b][i]
                    IN  in.kind = "let" /\ in.result \notin m =>
                          \/ in.expr.kind = "read"
                          \/ in.expr.kind \in {"value", "field"} /\ in.expr.args[1].val \notin m
               /\ t.kind = "goto" =>
                    \A k \in DOMAIN t.expr.args :
                       p.params[t.succ[1]][k] \notin m =>
                          t.expr.args[k].via \in {"direct", "field"} /\ t.expr.args[k].val \notin m
               /\ t.kind = "match" /\ t.expr.args[1].val \in m =>
                    \A j \in 1 .. Len(t.succ) - 1 : Params(p, t.succ[j]) \subseteq m
<1> DEFINE m == Classify(p)
           t == p.term[b]
<1>1. m \in SUBSET Value /\ ManagedStep(p, m) = m
  BY ManagedClosed
<1>2. ASSUME NEW i \in DOMAIN p.insts[b]
      PROVE  LET in == p.insts[b][i]
             IN  in.kind = "let" /\ in.result \notin m =>
                   \/ in.expr.kind = "read"
                   \/ in.expr.kind \in {"value", "field"} /\ in.expr.args[1].val \notin m
  <2> DEFINE in == p.insts[b][i]
             e == in.expr
             s == <<b, i>>
             vals == Elems([k \in DOMAIN e.args |-> e.args[k].val])
  <2>1. SUFFICES ASSUME in.kind = "let", in.result \notin m
                 PROVE  \/ e.kind = "read"
                        \/ e.kind \in {"value", "field"} /\ e.args[1].val \notin m
    OBVIOUS
  <2>2. InstShape(in) /\ ExprAt(p, b, i) = e /\ i \in Sites(p, b) /\ i < Last(p, b)
    <3>1. i \in Sites(p, b) /\ i # Last(p, b) /\ Sites(p, b) = 1 .. Last(p, b) /\ Last(p, b) \in Nat
      BY Shapes
    <3> QED
      BY <3>1, Shapes
  <2>3. s \in Insts(p) /\ s[1] = b /\ s[2] = i
    BY <2>2 DEF Insts, AllSites
  <2>4. ~ExprIsManaged(e.kind, vals, m)
    <3>1. SUFFICES ASSUME ExprIsManaged(e.kind, vals, m) PROVE ResultOf(p, s[1], s[2]) \in ManagedStep(p, m)
      BY <1>1, <2>1, <2>3 DEF ResultOf
    <3>2. ExprAt(p, s[1], s[2]) = e
      BY <2>2, <2>3
    <3> HIDE DEF s, m, in
    <3> QED
      BY <2>3, <3>1, <3>2 DEF ManagedStep
  <2>5. e.kind = "value" => e.args[1].val \notin m
    <3>1. SUFFICES ASSUME e.kind = "value", e.args[1].val \in m PROVE FALSE
      OBVIOUS
    <3>2. Len(e.args) = 1 /\ e.args \in Seq(Occurrence)
      BY <2>2, <3>1 DEF InstShape
    <3>3. DOMAIN e.args = {1}
      BY <3>2
    <3>4. vals = {e.args[1].val}
      <4> DEFINE q == [k \in DOMAIN e.args |-> e.args[k].val]
      <4>1. DOMAIN q = {1} /\ q[1] = e.args[1].val
        BY <3>3
      <4> HIDE DEF q
      <4>2. Elems(q) = {e.args[1].val}
        BY <4>1 DEF Elems
      <4> QED
        BY <4>2 DEF q
    <3> HIDE DEF vals, e, m
    <3> QED
      BY <2>4, <3>1, <3>4 DEF ExprIsManaged
  <2>6. e.kind \notin {"call", "make", "pooled"}
    BY <2>4 DEF ExprIsManaged
  <2>7. e.kind # "closure" /\ (e.kind = "field" => e.args[1].val \notin m)
    BY <2>1 DEF ScalarsAreScalar
  <2>8. e.kind \in {"value", "read", "field", "pooled", "make", "call", "closure"}
    BY <2>2 DEF InstShape
  <2> HIDE DEF e, m
  <2> QED
    BY <2>5, <2>6, <2>7, <2>8
<1>3. ASSUME t.kind = "goto", NEW k \in DOMAIN t.expr.args, p.params[t.succ[1]][k] \notin m
      PROVE  t.expr.args[k].via \in {"direct", "field"} /\ t.expr.args[k].val \notin m
  <2>1. ~ExprIsManaged(ArgKind(t.expr, k), {t.expr.args[k].val}, m)
    <3>1. SUFFICES ASSUME ExprIsManaged(ArgKind(t.expr, k), {t.expr.args[k].val}, m)
                   PROVE  p.params[t.succ[1]][k] \in ManagedStep(p, m)
      BY <1>1, <1>3
    <3> HIDE DEF m
    <3> QED
      BY <1>3, <3>1, ManagedMembers
  <2>2. t.expr.args[k] \in Occurrence
    <3>1. t.expr.args \in Seq(Occurrence)
      BY Shapes DEF TermShape
    <3> QED
      BY <1>3, <3>1
  <2>3. t.expr.args[k].via \in {"direct", "field", "call"}
    BY <2>2 DEF Occurrence
  <2>4. t.expr.args[k].via # "call"
    BY <2>1 DEF ExprIsManaged, ArgKind
  <2>5. t.expr.args[k].via = "direct" => t.expr.args[k].val \notin m
    BY <2>1 DEF ExprIsManaged, ArgKind
  <2>6. t.expr.args[k].via = "field" => t.expr.args[k].val \notin m
    BY <1>3 DEF ScalarsAreScalar
  <2> QED
    BY <2>3, <2>4, <2>5, <2>6
<1>4. ASSUME t.kind = "match", t.expr.args[1].val \in m, NEW j \in 1 .. Len(t.succ) - 1
      PROVE  Params(p, t.succ[j]) \subseteq m
  <2>1. DirectValue(t.expr) \subseteq m
    BY <1>4 DEF DirectValue
  <2>2. Params(p, t.succ[j]) \subseteq ManagedStep(p, m)
    <3> HIDE DEF m
    <3>1. \A x \in Params(p, t.succ[j]) : x \in ManagedStep(p, m)
      BY <1>4, <2>1, ManagedMembers
    <3> QED
      BY <3>1
  <2> QED
    BY <1>1, <2>2
<1> QED
  BY <1>1, <1>2, <1>3, <1>4

-----------------------------------------------------------------------------
(* A plan's fields.                                                        *)

(* Binders that a plan lets borrow.                                        *)
Borrowed(p, pl) ==
    UNION {UNION {{p.params[p.term[b].succ[j]][k] :
                     k \in {i \in DOMAIN pl.mode[b][j] : pl.mode[b][j][i] = "Borrow"}} :
                    j \in DOMAIN pl.mode[b]} : b \in Blocks(p)}

Afters(p) == [b \in Blocks(p) |-> After(p, b)]

(* The fields of a plan, for a block.                                      *)
ModesAt(p, o, b) ==
    [j \in 1 .. Len(p.term[b].succ) - 1 |->
       [k \in DOMAIN p.params[p.term[b].succ[j]] |->
          Mode(p, o, Classify(p), SolveOrigins(p), Afters(p), b,
               p.params[p.term[b].succ[j]][k], p.term[b].succ[j])]]

PlannedAt(p, o, b, i) == PlanUses(p, o, Classify(p), Afters(p), b, i)

DroppedAt(p, b, j, borrowed) ==
    IF Len(p.term[b].succ) < 2 THEN {}
    ELSE ((Out(p, b) \ LeastLiveIn(p)[p.term[b].succ[j]]) \cap Classify(p)) \ borrowed

(* Every field of a plan, for one block.                                   *)
LEMMA PlanFields ==
    ASSUME NEW p, NEW o, NEW b \in Blocks(p)
    PROVE  /\ Plan(p, o).managed = Classify(p) /\ Plan(p, o).after = Afters(p)
           /\ Plan(p, o).entry[b] =
                ((Params(p, b) \cap Classify(p)) \ After(p, b)[0]) \ Borrowed(p, Plan(p, o))
           /\ \A i \in Sites(p, b) : Plan(p, o).site[b][i] = PlannedAt(p, o, b, i)
           /\ \A j \in DOMAIN p.term[b].succ :
                 Plan(p, o).drop[b][j] = DroppedAt(p, b, j, Borrowed(p, Plan(p, o)))
           /\ Plan(p, o).mode[b] = IF p.term[b].kind = "match" THEN ModesAt(p, o, b) ELSE <<>>
<1> DEFINE pl == Plan(p, o)
           m == Classify(p)
           fresh == SolveOrigins(p)
           in == LeastLiveIn(p)
           out == [c \in Blocks(p) |-> OutOf(p, in, c)]
           after == [c \in Blocks(p) |-> LiveAfter(p, out[c], c)]
           mode == [c \in Blocks(p) |->
                      IF p.term[c].kind # "match" THEN <<>>
                      ELSE [j \in 1 .. Len(p.term[c].succ) - 1 |->
                              [k \in DOMAIN p.params[p.term[c].succ[j]] |->
                                     Mode(p, o, m, fresh, after, c,
                                          p.params[p.term[c].succ[j]][k], p.term[c].succ[j])]]]
           borrowed == UNION {UNION {{p.params[p.term[c].succ[j]][k] :
                                        k \in {i \in DOMAIN mode[c][j] : mode[c][j][i] = "Borrow"}} :
                                       j \in DOMAIN mode[c]} : c \in Blocks(p)}
<1>1. pl = [managed |-> m, after |-> after, mode |-> mode,
            entry |-> [c \in Blocks(p) |-> EntryReleases(p, m, borrowed, after, c)],
            site |-> [c \in Blocks(p) |-> [i \in Sites(p, c) |->
                        PlanUses(p, o, m, after, c, i)]],
            drop |-> [c \in Blocks(p) |-> [j \in DOMAIN p.term[c].succ |->
                        EdgeDrops(p, m, borrowed, in, out, c, p.term[c].succ[j])]]]
  BY DEF Plan
<1>2. after = Afters(p) /\ out[b] = Out(p, b)
  BY DEF Afters, After, Out
<1>3. pl.mode = mode
  <2> HIDE DEF m, fresh, after, mode, borrowed, out, in
  <2> QED
    BY <1>1
<1>4. borrowed = Borrowed(p, pl)
  <2> HIDE DEF mode, pl
  <2> QED
    BY <1>3 DEF Borrowed
<1>5. mode[b] = IF p.term[b].kind = "match" THEN ModesAt(p, o, b) ELSE <<>>
  <2> HIDE DEF m, fresh, after
  <2>1. mode[b] = IF p.term[b].kind # "match" THEN <<>>
                  ELSE [j \in 1 .. Len(p.term[b].succ) - 1 |->
                          [k \in DOMAIN p.params[p.term[b].succ[j]] |->
                                 Mode(p, o, m, fresh, Afters(p), b,
                                      p.params[p.term[b].succ[j]][k], p.term[b].succ[j])]]
    BY <1>2
  <2> QED
    BY <2>1 DEF ModesAt, m, fresh
<1> HIDE DEF pl, m, fresh, after, mode, borrowed, out, in
<1>6. pl.managed = m /\ pl.after = Afters(p)
  BY <1>1, <1>2
<1>7. pl.entry[b] = ((Params(p, b) \cap m) \ After(p, b)[0]) \ Borrowed(p, pl)
  BY <1>1, <1>2, <1>4 DEF EntryReleases, Afters
<1>8. \A i \in Sites(p, b) : pl.site[b][i] = PlannedAt(p, o, b, i)
  BY <1>1, <1>2 DEF PlannedAt, m
<1>9. \A j \in DOMAIN p.term[b].succ : pl.drop[b][j] = DroppedAt(p, b, j, Borrowed(p, pl))
  BY <1>1, <1>2, <1>4 DEF EdgeDrops, in, DroppedAt, m
<1>10. pl.mode[b] = IF p.term[b].kind = "match" THEN ModesAt(p, o, b) ELSE <<>>
  BY <1>3, <1>5
<1> QED
  BY <1>6, <1>7, <1>8, <1>9, <1>10 DEF pl, m

(* What a plan says of the whole function.                                 *)
LEMMA PlanGlobal ==
    ASSUME NEW p, NEW o, NEW b \in Blocks(p)
    PROVE  /\ Plan(p, o).managed = Classify(p) /\ Plan(p, o).after = Afters(p)
           /\ Plan(p, o).after[b] = After(p, b)
<1>1. Plan(p, o).managed = Classify(p) /\ Plan(p, o).after = Afters(p)
  BY PlanFields
<1> QED
  BY <1>1 DEF Afters

(* What is planned at a block's entry.                                     *)
LEMMA PlanEntry ==
    ASSUME NEW p, NEW o, NEW b \in Blocks(p)
    PROVE  Plan(p, o).entry[b] = ((Params(p, b) \cap Classify(p)) \ After(p, b)[0]) \ Borrowed(p, Plan(p, o))
BY PlanFields

(* What is planned at a site.                                              *)
LEMMA PlanSite ==
    ASSUME NEW p, NEW o, NEW b \in Blocks(p), NEW i \in Sites(p, b)
    PROVE  Plan(p, o).site[b][i] = PlannedAt(p, o, b, i)
BY PlanFields

(* What is planned on an edge.                                             *)
LEMMA PlanDrop ==
    ASSUME NEW p, NEW o, NEW b \in Blocks(p), NEW j \in DOMAIN p.term[b].succ
    PROVE  Plan(p, o).drop[b][j] =
             IF Len(p.term[b].succ) < 2 THEN {}
             ELSE ((Out(p, b) \ LeastLiveIn(p)[p.term[b].succ[j]]) \cap Classify(p)) \ Borrowed(p, Plan(p, o))
<1>1. \A i \in DOMAIN p.term[b].succ : Plan(p, o).drop[b][i] = DroppedAt(p, b, i, Borrowed(p, Plan(p, o)))
  BY PlanFields
<1> QED
  BY <1>1 DEF DroppedAt

-----------------------------------------------------------------------------
(* What is planned at a site.                                              *)

(* The occurrences of v at a site that take a reference, and that do not.  *)
With(p, b, i, v, role) ==
    LET e == ExprAt(p, b, i)
    IN  {k \in DOMAIN e.args : e.args[k].val = v /\ Role(e, k) = role}

Handed(p, b, i) == i = Last(p, b) /\ p.term[b].kind = "return" /\ DirectValue(ExprAt(p, b, i)) # {}

(* The role of an operand is to give a reference or to be read.            *)
LEMMA RoleIs ==
    ASSUME NEW p, Shaped(p), NEW b \in Blocks(p), NEW i \in Sites(p, b),
           NEW k \in DOMAIN ExprAt(p, b, i).args
    PROVE  LET e == ExprAt(p, b, i)
           IN  /\ Role(e, k) \in {"Read", "Owned"}
               /\ Role(e, k) = "Read" <=> \/ e.args[k].via = "field"
                                          \/ e.kind \in {"read", "field"}
                                          \/ e.kind = "closure" /\ k = 1
               /\ e.args[k].via = "call" => Role(e, k) = "Owned"
               /\ e.kind \in {"read", "field"} => e.args[k].via = "direct"
               /\ e.kind = "closure" /\ k = 1 => e.args[k].via = "direct"
<1> DEFINE e == ExprAt(p, b, i)
<1>1. e.args[k].via \in {"direct", "field", "call"}
  BY Occurring
<1>2. /\ e.kind \in {"read", "field"} => e.args[k].via = "direct"
      /\ e.kind = "closure" /\ k = 1 => e.args[k].via = "direct"
  <2>1. CASE i = Last(p, b)
    <3>1. e = p.term[b].expr /\ TermShape(p, p.term[b])
      BY <2>1, Shapes
    <3> QED
      BY <3>1 DEF TermShape, Named
  <2>2. CASE i # Last(p, b)
    <3>1. i \in DOMAIN p.insts[b]
      BY <2>2, Shapes
    <3>2. e = p.insts[b][i].expr /\ InstShape(p.insts[b][i])
      BY <3>1, Shapes
    <3> QED
      BY <3>2 DEF InstShape, Named
  <2> QED
    BY <2>1, <2>2
<1> HIDE DEF e
<1>3. CASE e.args[k].via = "field"
  BY <1>2, <1>3 DEF Role, e
<1>4. CASE e.args[k].via = "call"
  BY <1>2, <1>4 DEF Role, e
<1>5. CASE e.args[k].via = "direct"
  <2>1. CASE e.kind \in {"read", "field"}
    BY <1>5, <2>1 DEF Role, e
  <2>2. CASE e.kind = "closure" /\ k = 1
    BY <1>5, <2>2 DEF Role, e
  <2>3. CASE e.kind \notin {"read", "field"} /\ ~(e.kind = "closure" /\ k = 1)
    BY <1>5, <2>3 DEF Role, e
  <2> QED
    BY <2>1, <2>2, <2>3
<1> QED
  BY <1>1, <1>3, <1>4, <1>5

(* A site has finitely many operands.                                      *)
LEMMA WithFinite ==
    ASSUME NEW p, Shaped(p), NEW b \in Blocks(p), NEW i \in Sites(p, b), NEW v, NEW role
    PROVE  /\ IsFiniteSet(With(p, b, i, v, role)) /\ Cardinality(With(p, b, i, v, role)) \in Nat
           /\ Cardinality(With(p, b, i, v, role)) = 0 <=> With(p, b, i, v, role) = {}
<1>1. With(p, b, i, v, role) \in SUBSET DOMAIN ExprAt(p, b, i).args
  BY DEF With
<1>2. IsFiniteSet(DOMAIN ExprAt(p, b, i).args)
  BY Occurring
<1>3. IsFiniteSet(With(p, b, i, v, role))
  BY <1>1, <1>2, FS_Subset
<1> QED
  BY <1>3, FS_CardinalityType, FS_EmptySet

(* What is planned at a site, said of one value, and of how many of its    *)
(* occurrences take a reference and how many do not.                       *)
OwnedUses(p, b, i, v) == IF Handed(p, b, i) THEN 0 ELSE Cardinality(With(p, b, i, v, "Owned"))
ReadUses(p, b, i, v) == IF Handed(p, b, i) THEN 0 ELSE Cardinality(With(p, b, i, v, "Read"))

SiteRule(p, o, b, i, v, owned, read) ==
    LET h == PlannedAt(p, o, b, i)
        m == Classify(p)
        live == v \in After(p, b)[i]
    IN  /\ h.retain[v] = IF v \in m /\ owned > 0 THEN IF o /\ ~live THEN owned - 1 ELSE owned ELSE 0
        /\ v \in h.early <=> /\ i = Last(p, b) /\ v \in m /\ ~live /\ ~o /\ owned > 0
        /\ v \in h.late <=>
             \/ i # Last(p, b) /\ v \in m /\ ~live /\ ~o /\ owned > 0
             \/ v \in m /\ ~live /\ owned = 0 /\ read > 0
             \/ /\ i # Last(p, b) /\ v = p.insts[b][i].result /\ ~live
                /\ IF p.insts[b][i].kind = "let" THEN v \in m ELSE ProducesOwned(p.insts[b][i].expr.kind)

(* The retains and releases planned at a site, for one value, by how often *)
(* it is given and read there.                                             *)
LEMMA SitePlan ==
    ASSUME NEW p, Shaped(p), NEW o, NEW b \in Blocks(p), NEW i \in Sites(p, b), NEW v \in Value
    PROVE  SiteRule(p, o, b, i, v, OwnedUses(p, b, i, v), ReadUses(p, b, i, v))
<1> DEFINE owned(x) == Counts(p, b, i, "Owned", x)
           read(x) == Counts(p, b, i, "Read", x)
           m == Classify(p)
           L == After(p, b)[i]
           dead == m \ L
           spent == {x \in dead : ~o /\ owned(x) > 0}
           early == IF i = Last(p, b) THEN spent ELSE {}
           unused == IF i = Last(p, b) THEN {}
                     ELSE {p.insts[b][i].result} \cap
                            (IF p.insts[b][i].kind = "let" THEN dead
                             ELSE IF ProducesOwned(p.insts[b][i].expr.kind) THEN Value \ L ELSE {})
           h == PlanUses(p, o, m, Afters(p), b, i)
<1>1. Afters(p)[b] = After(p, b)
  BY DEF Afters
<1>2. h = [retain |-> [x \in Value |-> IF x \in m /\ owned(x) > 0 THEN Retains(o, owned(x), x \in L) ELSE 0],
           early |-> early,
           late |-> (spent \ early) \cup unused \cup {x \in dead : owned(x) = 0 /\ read(x) > 0}]
  <2> HIDE DEF m
  <2> QED
    BY <1>1 DEF PlanUses
<1>3. owned(v) = OwnedUses(p, b, i, v) /\ read(v) = ReadUses(p, b, i, v)
  BY DEF Counts, Handed, With, OwnedUses, ReadUses
<1> HIDE DEF owned, read, m, L, h
<1>4. h.retain[v] = IF v \in m /\ owned(v) > 0 THEN IF o /\ v \notin L THEN owned(v) - 1 ELSE owned(v) ELSE 0
  BY <1>2 DEF Retains
<1>5. v \in h.early <=> /\ i = Last(p, b) /\ v \in m /\ v \notin L /\ ~o /\ owned(v) > 0
  BY <1>2
<1>6. v \in h.late <=>
        \/ i # Last(p, b) /\ v \in m /\ v \notin L /\ ~o /\ owned(v) > 0
        \/ v \in m /\ v \notin L /\ owned(v) = 0 /\ read(v) > 0
        \/ v \in unused
  <2>1. h.late = (spent \ early) \cup unused \cup {x \in dead : owned(x) = 0 /\ read(x) > 0}
    BY <1>2
  <2>2. v \in spent \ early <=> i # Last(p, b) /\ v \in m /\ v \notin L /\ ~o /\ owned(v) > 0
    OBVIOUS
  <2>3. v \in {x \in dead : owned(x) = 0 /\ read(x) > 0} <=> v \in m /\ v \notin L /\ owned(v) = 0 /\ read(v) > 0
    OBVIOUS
  <2> HIDE DEF spent, early, unused, dead
  <2> QED
    BY <2>1, <2>2, <2>3
<1>7. v \in unused <=> /\ i # Last(p, b) /\ v = p.insts[b][i].result /\ v \notin L
                       /\ IF p.insts[b][i].kind = "let" THEN v \in m ELSE ProducesOwned(p.insts[b][i].expr.kind)
  OBVIOUS
<1> HIDE DEF unused
<1> QED
  BY <1>3, <1>4, <1>5, <1>6, <1>7 DEF h, m, L, SiteRule, PlannedAt

(* Those numbers are naturals.                                             *)
LEMMA UsesCounted ==
    ASSUME NEW p, Shaped(p), NEW b \in Blocks(p), NEW i \in Sites(p, b), NEW v
    PROVE  OwnedUses(p, b, i, v) \in Nat /\ ReadUses(p, b, i, v) \in Nat
BY WithFinite DEF OwnedUses, ReadUses

(* The plan's sets contain values only.                                    *)
LEMMA SitePlanTypes ==
    ASSUME NEW p, Shaped(p), NEW o, NEW b \in Blocks(p), NEW i \in Sites(p, b)
    PROVE  LET h == PlannedAt(p, o, b, i)
           IN  h.early \subseteq Value /\ h.late \subseteq Value /\ h.retain \in [Value -> Nat]
<1> DEFINE h == PlannedAt(p, o, b, i)
           m == Classify(p)
<1>1. m \subseteq Value
  BY ManagedClosed
<1>2. ASSUME i # Last(p, b) PROVE p.insts[b][i].result \in Value
  BY <1>2, Shapes
<1> HIDE DEF m
<1>3. h.early \subseteq Value /\ h.late \subseteq Value
  BY <1>1, <1>2 DEF PlanUses, m, PlannedAt
<1>4. ASSUME NEW v \in Value PROVE h.retain[v] \in Nat
  <2>1. SiteRule(p, o, b, i, v, OwnedUses(p, b, i, v), ReadUses(p, b, i, v)) /\ OwnedUses(p, b, i, v) \in Nat
    BY SitePlan, UsesCounted
  <2> HIDE DEF h
  <2> QED
    BY <2>1 DEF SiteRule, h
<1>5. h.retain = [v \in Value |-> h.retain[v]]
  BY DEF PlanUses, PlannedAt
<1> HIDE DEF h
<1>6. h.retain \in [Value -> Nat]
  BY <1>4, <1>5
<1> QED
  BY <1>3, <1>6 DEF h, m

(* One value at one site: what it holds before the site and the retains    *)
(* make up what is held after the site, the releases and the operands that *)
(* take a reference.                                                       *)
Bit(cond) == IF cond THEN 1 ELSE 0

(* The heart of the plan. For one managed value at one site: what it holds *)
(* before the site, and the retains, are what it holds after, the releases *)
(* and the operands that take a reference.                                 *)
LEMMA SiteBalance ==
    ASSUME NEW p, Shaped(p), NEW o, NEW b \in Blocks(p), NEW i \in Sites(p, b),
           NEW v \in Classify(p)
    PROVE  LET h == PlannedAt(p, o, b, i)
           IN  Bit(v \in After(p, b)[i - 1] \ h.early) + h.retain[v] =
                 Bit(v \in After(p, b)[i] \ Defs(p, b, i)) + Bit(v \in h.late \ Defs(p, b, i))
                   + Cardinality(With(p, b, i, v, "Owned"))
<1> DEFINE h == PlannedAt(p, o, b, i)
           N == Cardinality(With(p, b, i, v, "Owned"))
           R == Cardinality(With(p, b, i, v, "Read"))
           owned == OwnedUses(p, b, i, v)
           read == ReadUses(p, b, i, v)
           live == v \in After(p, b)[i]
<1>1. /\ N \in Nat /\ R \in Nat
      /\ N = 0 <=> With(p, b, i, v, "Owned") = {}
      /\ R = 0 <=> With(p, b, i, v, "Read") = {}
  BY WithFinite
<1>2. v \in Value
  BY ManagedClosed
<1>3. /\ h.retain[v] = IF owned > 0 THEN IF o /\ ~live THEN owned - 1 ELSE owned ELSE 0
      /\ v \in h.early <=> /\ i = Last(p, b) /\ ~live /\ ~o /\ owned > 0
      /\ v \in h.late \ Defs(p, b, i) <=>
           /\ v \notin Defs(p, b, i)
           /\ \/ i # Last(p, b) /\ ~live /\ ~o /\ owned > 0
              \/ ~live /\ owned = 0 /\ read > 0
  <2>1. SiteRule(p, o, b, i, v, owned, read)
    BY <1>2, SitePlan
  <2>2. i # Last(p, b) /\ v = p.insts[b][i].result => v \in Defs(p, b, i)
    BY DEF Defs
  <2> HIDE DEF owned, read
  <2> QED
    BY <2>1, <2>2 DEF SiteRule
<1>4. v \in After(p, b)[i - 1] <=> v \in Uses(p, b, i) \/ (live /\ v \notin Defs(p, b, i))
  BY ScanStep
<1>5. v \in Uses(p, b, i) <=> N > 0 \/ R > 0
  <2>1. N > 0 <=> With(p, b, i, v, "Owned") # {}
    BY <1>1
  <2>2. R > 0 <=> With(p, b, i, v, "Read") # {}
    BY <1>1
  <2>3. v \in Uses(p, b, i) <=> \E k \in DOMAIN ExprAt(p, b, i).args : ExprAt(p, b, i).args[k].val = v
    BY Occurring
  <2>4. \A k \in DOMAIN ExprAt(p, b, i).args : Role(ExprAt(p, b, i), k) \in {"Read", "Owned"}
    BY RoleIs
  <2> QED
    BY <2>1, <2>2, <2>3, <2>4 DEF With
<1>6. v \in Uses(p, b, i) => v \notin Defs(p, b, i)
  <2>1. CASE i = Last(p, b)
    BY <2>1 DEF Defs
  <2>2. CASE i # Last(p, b)
    <3>1. i \in DOMAIN p.insts[b] /\ InstShape(p.insts[b][i]) /\ ExprAt(p, b, i) = p.insts[b][i].expr
      BY <2>2, Shapes
    <3> QED
      BY <2>2, <3>1 DEF InstShape, Defs, Uses
  <2> QED
    BY <2>1, <2>2
<1>7. Handed(p, b, i) => /\ i = Last(p, b) /\ ~live
                         /\ v \in Uses(p, b, i) => N = 1
                         /\ v \notin Uses(p, b, i) => N = 0
  <2>1. SUFFICES ASSUME Handed(p, b, i)
                 PROVE  /\ i = Last(p, b) /\ ~live
                        /\ v \in Uses(p, b, i) => N = 1
                        /\ v \notin Uses(p, b, i) => N = 0
    OBVIOUS
  <2> DEFINE e == ExprAt(p, b, i)
  <2>2. /\ i = Last(p, b) /\ p.term[b].kind = "return" /\ e = p.term[b].expr /\ TermShape(p, p.term[b])
        /\ DirectValue(e) # {}
    BY <2>1, Shapes DEF Handed
  <2>3. p.term[b].succ = <<>> /\ e.kind = "args" /\ Len(e.args) = 1 /\ e.args[1].via = "direct"
    BY <2>2 DEF TermShape, DirectValue
  <2>4. ~live
    <3>1. Successors(p, b) = {}
      BY <2>3 DEF Successors, Elems
    <3>2. Out(p, b) = {}
      BY <3>1 DEF Out, OutOf
    <3> QED
      BY <2>2, <3>2, ScanStep
  <2>5. DOMAIN e.args = {1}
    <3>1. DOMAIN e.args = 1 .. Len(e.args)
      BY Occurring
    <3> QED
      BY <2>3, <3>1
  <2>6. Role(e, 1) = "Owned"
    BY <2>3, <2>5, RoleIs
  <2>7. v \in Uses(p, b, i) => With(p, b, i, v, "Owned") = {1}
    <3>1. v \in Uses(p, b, i) => e.args[1].val = v
      BY <2>5, Occurring
    <3> QED
      BY <2>5, <2>6, <3>1 DEF With
  <2>8. Cardinality({1}) = 1
    BY FS_Singleton
  <2> QED
    BY <1>1, <1>5, <2>2, <2>4, <2>7, <2>8
<1> HIDE DEF h, live, N, R
<1>8. CASE Handed(p, b, i)
  <2>1. owned = 0 /\ read = 0 /\ ~live /\ i = Last(p, b)
    BY <1>7, <1>8 DEF OwnedUses, ReadUses, N, R
  <2>2. Defs(p, b, i) = {}
    BY <2>1 DEF Defs
  <2> HIDE DEF owned, read
  <2>3. h.retain[v] = 0 /\ v \notin h.early /\ v \notin h.late
    BY <1>3, <2>1, <2>2
  <2>4. Bit(v \in After(p, b)[i] \ Defs(p, b, i)) = 0 /\ Bit(v \in h.late \ Defs(p, b, i)) = 0
    BY <2>1, <2>3 DEF Bit, live
  <2>5. Bit(v \in After(p, b)[i - 1] \ h.early) = N
    BY <1>4, <1>7, <1>8, <2>1, <2>3 DEF Bit
  <2>6. N \in Nat
    BY <1>1
  <2> QED
    BY <2>3, <2>4, <2>5, <2>6 DEF h, N
<1>9. CASE ~Handed(p, b, i)
  <2>1. owned = N /\ read = R
    BY <1>9 DEF OwnedUses, ReadUses, N, R
  <2> HIDE DEF owned, read
  <2>2. CASE v \notin Uses(p, b, i)
    <3>1. N = 0 /\ R = 0
      BY <1>1, <1>5, <2>2
    <3>2. h.retain[v] = 0 /\ v \notin h.early /\ v \notin h.late \ Defs(p, b, i)
      BY <1>3, <2>1, <3>1
    <3>3. v \in After(p, b)[i - 1] \ h.early <=> v \in After(p, b)[i] \ Defs(p, b, i)
      BY <1>4, <2>2, <3>2 DEF live
    <3> QED
      BY <3>1, <3>2, <3>3 DEF Bit, h, N
  <2>3. CASE v \in Uses(p, b, i)
    <3>1. v \in After(p, b)[i - 1] /\ v \notin Defs(p, b, i)
      BY <1>4, <1>6, <2>3
    <3>2. N > 0 \/ R > 0
      BY <1>5, <2>3
    <3>3. Bit(v \in After(p, b)[i] \ Defs(p, b, i)) = Bit(live)
      BY <3>1 DEF Bit, live
    <3>4. Bit(v \in After(p, b)[i - 1] \ h.early) = Bit(v \notin h.early)
      BY <3>1 DEF Bit
    <3>5. h.retain[v] = IF N > 0 THEN IF o /\ ~live THEN N - 1 ELSE N ELSE 0
      BY <1>3, <2>1
    <3>6. v \in h.early <=> i = Last(p, b) /\ ~live /\ ~o /\ N > 0
      BY <1>3, <2>1
    <3>7. v \in h.late \ Defs(p, b, i) <=>
           \/ i # Last(p, b) /\ ~live /\ ~o /\ N > 0
           \/ ~live /\ N = 0 /\ R > 0
      BY <1>3, <2>1, <3>1
    <3>8. Bit(v \notin h.early) + h.retain[v] = Bit(live) + Bit(v \in h.late \ Defs(p, b, i)) + N
      BY <1>1, <3>2, <3>5, <3>6, <3>7 DEF Bit
    <3> QED
      BY <3>3, <3>4, <3>8 DEF h, N
  <2> QED
    BY <2>2, <2>3
<1> QED
  BY <1>8, <1>9

(* A site uses what one of its operands names.                             *)
LEMMA UsedIffOccurs ==
    ASSUME NEW p, Shaped(p), NEW b \in Blocks(p), NEW i \in Sites(p, b), NEW v
    PROVE  /\ Cardinality(With(p, b, i, v, "Owned")) > 0 => v \in Uses(p, b, i)
           /\ Cardinality(With(p, b, i, v, "Read")) > 0 => v \in Uses(p, b, i)
           /\ v \in Uses(p, b, i) => v \notin Defs(p, b, i)
<1>1. ASSUME NEW role, Cardinality(With(p, b, i, v, role)) > 0 PROVE v \in Uses(p, b, i)
  <2>1. With(p, b, i, v, role) # {}
    BY <1>1, WithFinite
  <2> QED
    BY <2>1, Occurring DEF With
<1>2. v \in Uses(p, b, i) => v \notin Defs(p, b, i)
  <2>1. CASE i = Last(p, b)
    BY <2>1 DEF Defs
  <2>2. CASE i # Last(p, b)
    <3>1. i \in DOMAIN p.insts[b] /\ InstShape(p.insts[b][i]) /\ ExprAt(p, b, i) = p.insts[b][i].expr
      BY <2>2, Shapes
    <3> QED
      BY <2>2, <3>1 DEF InstShape, Defs, Uses
  <2> QED
    BY <2>1, <2>2
<1> QED
  BY <1>1, <1>2

(* What a site retains and releases it reads, or has just defined.         *)
LEMMA SiteReleases ==
    ASSUME NEW p, Shaped(p), NEW o, NEW b \in Blocks(p), NEW i \in Sites(p, b), NEW v \in Value
    PROVE  LET h == PlannedAt(p, o, b, i)
           IN  /\ v \in h.early => v \in Classify(p) /\ v \in Uses(p, b, i) /\ i = Last(p, b)
               /\ v \in h.late /\ v \notin Defs(p, b, i) => v \in Classify(p) /\ v \in Uses(p, b, i)
               /\ v \in h.late => v \notin After(p, b)[i]
               /\ h.retain[v] > 0 => v \in Classify(p) /\ v \in Uses(p, b, i)
<1> DEFINE h == PlannedAt(p, o, b, i)
           owned == OwnedUses(p, b, i, v)
           read == ReadUses(p, b, i, v)
           live == v \in After(p, b)[i]
<1>1. SiteRule(p, o, b, i, v, owned, read)
  BY SitePlan
<1>2. owned > 0 => v \in Uses(p, b, i)
  BY UsedIffOccurs DEF OwnedUses
<1>3. read > 0 => v \in Uses(p, b, i)
  BY UsedIffOccurs DEF ReadUses
<1>4. i # Last(p, b) /\ v = p.insts[b][i].result => v \in Defs(p, b, i)
  BY DEF Defs
<1> HIDE DEF owned, read
<1> QED
  BY <1>1, <1>2, <1>3, <1>4 DEF SiteRule

(* The result of an instruction is released at once, or is live, if it     *)
(* holds a reference, and else neither.                                    *)
LEMMA ResultPlan ==
    ASSUME NEW p, Shaped(p), DefinedWhenRead(p), NEW o, NEW b \in Blocks(p), NEW i \in DOMAIN p.insts[b]
    PROVE  LET h == PlannedAt(p, o, b, i)
               in == p.insts[b][i]
           IN  IF in.kind = "let"
                 THEN in.result \in h.late <=> in.result \in Classify(p) /\ in.result \notin After(p, b)[i]
                 ELSE /\ in.result \notin After(p, b)[i] /\ in.result \notin Reads(p)
                      /\ in.result \in h.late <=> ProducesOwned(in.expr.kind)
<1> DEFINE h == PlannedAt(p, o, b, i)
           v == p.insts[b][i].result
           owned == OwnedUses(p, b, i, v)
           read == ReadUses(p, b, i, v)
           live == v \in After(p, b)[i]
<1>1. i \in Sites(p, b) /\ i # Last(p, b) /\ v \in Value /\ Defs(p, b, i) = {v} /\ i \in 0 .. Last(p, b)
  <2>1. Sites(p, b) = 1 .. Last(p, b) /\ Last(p, b) \in Nat
    BY Shapes
  <2> QED
    BY <2>1, Shapes
<1>2. v \notin Uses(p, b, i)
  BY <1>1, UsedIffOccurs
<1>3. owned = 0 /\ read = 0
  <2>1. ~(Cardinality(With(p, b, i, v, "Owned")) > 0) /\ ~(Cardinality(With(p, b, i, v, "Read")) > 0)
    BY <1>1, <1>2, UsedIffOccurs
  <2>2. Cardinality(With(p, b, i, v, "Owned")) \in Nat /\ Cardinality(With(p, b, i, v, "Read")) \in Nat
    BY <1>1, WithFinite
  <2> QED
    BY <2>1, <2>2 DEF OwnedUses, ReadUses
<1>4. SiteRule(p, o, b, i, v, owned, read)
  BY <1>1, SitePlan
<1>5. p.insts[b][i].kind = "eval" => v \notin Reads(p)
  BY DEF DefinedWhenRead
<1>6. live => v \in Reads(p)
  BY <1>1, LiveIsRead
<1>7. p.insts[b][i].kind \in {"let", "eval"}
  BY Shapes DEF InstShape
<1> HIDE DEF owned, read
<1> QED
  BY <1>1, <1>3, <1>4, <1>5, <1>6, <1>7 DEF SiteRule

(* A value that a site only reads is live after it, or released after it.  *)
LEMMA ReadPlan ==
    ASSUME NEW p, Shaped(p), NEW o, NEW b \in Blocks(p), NEW i \in Sites(p, b),
           NEW k \in DOMAIN ExprAt(p, b, i).args, Role(ExprAt(p, b, i), k) = "Read",
           ExprAt(p, b, i).args[k].val \in Classify(p)
    PROVE  LET h == PlannedAt(p, o, b, i)
               v == ExprAt(p, b, i).args[k].val
           IN  \/ With(p, b, i, v, "Owned") # {}
               \/ v \in After(p, b)[i] \ Defs(p, b, i)
               \/ v \in h.late \ Defs(p, b, i)
<1> DEFINE e == ExprAt(p, b, i)
           h == PlannedAt(p, o, b, i)
           v == e.args[k].val
           owned == OwnedUses(p, b, i, v)
           read == ReadUses(p, b, i, v)
           live == v \in After(p, b)[i]
<1>1. v \in Value /\ v \in Uses(p, b, i) /\ v \notin Defs(p, b, i)
  BY Occurring, UsedIffOccurs
<1>2. SUFFICES ASSUME With(p, b, i, v, "Owned") = {}, ~live PROVE v \in h.late
  BY <1>1
<1>3. ~Handed(p, b, i)
  <2>1. SUFFICES ASSUME Handed(p, b, i) PROVE FALSE
    OBVIOUS
  <2>2. i = Last(p, b) /\ p.term[b].kind = "return" /\ e = p.term[b].expr /\ TermShape(p, p.term[b])
    BY <2>1, Shapes DEF Handed
  <2>3. e.kind = "args" /\ Len(e.args) = 1 /\ e.args[1].via = "direct"
    BY <2>1, <2>2 DEF TermShape, Handed, DirectValue
  <2>4. k = 1
    <3>1. DOMAIN e.args = 1 .. Len(e.args)
      BY Occurring
    <3> QED
      BY <2>3, <3>1
  <2> QED
    BY <2>3, <2>4, RoleIs
<1>4. owned = 0
  BY <1>2, <1>3, WithFinite DEF OwnedUses
<1>5. read > 0
  <2>1. k \in With(p, b, i, v, "Read")
    BY DEF With
  <2>2. Cardinality(With(p, b, i, v, "Read")) \in Nat /\ Cardinality(With(p, b, i, v, "Read")) # 0
    BY <2>1, WithFinite
  <2> QED
    BY <1>3, <2>2 DEF ReadUses
<1>6. SiteRule(p, o, b, i, v, owned, read)
  BY <1>1, SitePlan
<1>7. v \in Classify(p)
  OBVIOUS
<1> HIDE DEF owned, read, v
<1> QED
  BY <1>2, <1>4, <1>5, <1>6, <1>7 DEF SiteRule

-----------------------------------------------------------------------------
(* Match arms and their binders.                                           *)

(* The arms of a match, and the modes planned for their binders.           *)
LEMMA ArmModes ==
    ASSUME NEW p, Shaped(p), NEW o, NEW b \in Blocks(p), NEW j \in DOMAIN Plan(p, o).mode[b]
    PROVE  LET t == p.term[b].succ[j]
               modes == Plan(p, o).mode[b][j]
           IN  /\ p.term[b].kind = "match" /\ IsArm(p, b, j) /\ j \in DOMAIN p.term[b].succ
               /\ t \in ArmTargets(p) /\ t \in Blocks(p)
               /\ DOMAIN modes = DOMAIN p.params[t]
               /\ \A k \in DOMAIN p.params[t] :
                    /\ modes[k] = Mode(p, o, Classify(p), SolveOrigins(p), Afters(p), b, p.params[t][k], t)
                    /\ modes[k] \in {"Borrow", "Copy", "Move", "MoveUnique"}
                    /\ modes[k] = "Borrow" <=> p.params[t][k] \notin Classify(p) \/ p.params[t][k] \notin After(p, t)[0]
<1> DEFINE pl == Plan(p, o)
           n == Len(p.term[b].succ)
           t == p.term[b].succ[j]
<1>1. p.term[b].succ \in Seq(Blocks(p))
  BY Shapes DEF TermShape
<1>2. n \in Nat /\ DOMAIN p.term[b].succ = 1 .. n
  BY <1>1
<1>3. pl.mode[b] = IF p.term[b].kind = "match" THEN ModesAt(p, o, b) ELSE <<>>
  BY PlanFields
<1>4. p.term[b].kind = "match" /\ j \in 1 .. n - 1
  <2>1. j \in DOMAIN pl.mode[b]
    OBVIOUS
  <2>2. CASE p.term[b].kind # "match"
    <3>1. pl.mode[b] = <<>>
      BY <1>3, <2>2
    <3> HIDE DEF pl
    <3>2. DOMAIN pl.mode[b] = {}
      BY <3>1
    <3> QED
      BY <2>1, <3>2
  <2>3. CASE p.term[b].kind = "match"
    <3>1. pl.mode[b] = ModesAt(p, o, b)
      BY <1>3, <2>3
    <3>2. DOMAIN ModesAt(p, o, b) = 1 .. n - 1
      BY DEF ModesAt
    <3> HIDE DEF pl, n
    <3> QED
      BY <2>1, <2>3, <3>1, <3>2
  <2> QED
    BY <2>2, <2>3, Zenon
<1>5. j \in DOMAIN p.term[b].succ /\ IsArm(p, b, j)
  BY <1>2, <1>4 DEF IsArm
<1>6. t \in ArmTargets(p) /\ t \in Blocks(p)
  BY <1>1, <1>5 DEF ArmTargets
<1>7. pl.mode[b][j] = [k \in DOMAIN p.params[t] |->
                         Mode(p, o, Classify(p), SolveOrigins(p), Afters(p), b, p.params[t][k], t)]
  BY <1>3, <1>4 DEF ModesAt
<1> HIDE DEF pl, t
<1>8. ASSUME NEW v
      PROVE  /\ Mode(p, o, Classify(p), SolveOrigins(p), Afters(p), b, v, t) \in {"Borrow", "Copy", "Move", "MoveUnique"}
             /\ Mode(p, o, Classify(p), SolveOrigins(p), Afters(p), b, v, t) = "Borrow"
                  <=> v \notin Classify(p) \/ v \notin After(p, t)[0]
  BY <1>6 DEF Mode, Afters
<1> QED
  BY <1>4, <1>5, <1>6, <1>7, <1>8 DEF pl, t

(* Every arm has modes, one for each binder.                               *)
LEMMA ArmHasModes ==
    ASSUME NEW p, Shaped(p), NEW o, NEW b \in Blocks(p), NEW j \in DOMAIN p.term[b].succ, IsArm(p, b, j)
    PROVE  j \in DOMAIN Plan(p, o).mode[b]
<1>1. p.term[b].succ \in Seq(Blocks(p))
  BY Shapes DEF TermShape
<1>2. p.term[b].kind = "match" /\ j \in 1 .. Len(p.term[b].succ) - 1
  BY <1>1 DEF IsArm
<1>3. Plan(p, o).mode[b] = ModesAt(p, o, b)
  BY <1>2, PlanFields
<1> QED
  BY <1>2, <1>3 DEF ModesAt

(* A borrowed binder is a parameter of an arm whose plan says borrow.      *)
LEMMA BorrowedBinder ==
    ASSUME NEW p, Shaped(p), NEW o, NEW v
    PROVE  v \in Borrowed(p, Plan(p, o)) <=>
             \E b \in Blocks(p) : \E j \in DOMAIN Plan(p, o).mode[b] :
                \E k \in DOMAIN Plan(p, o).mode[b][j] :
                   v = p.params[p.term[b].succ[j]][k] /\ Plan(p, o).mode[b][j][k] = "Borrow"
<1> DEFINE pl == Plan(p, o)
<1> HIDE DEF pl
<1>1. v \in Borrowed(p, pl) <=>
             \E b \in Blocks(p) : \E j \in DOMAIN pl.mode[b] :
                \E k \in DOMAIN pl.mode[b][j] :
                   v = p.params[p.term[b].succ[j]][k] /\ pl.mode[b][j][k] = "Borrow"
  BY DEF Borrowed
<1> QED
  BY <1>1 DEF pl

(* A borrowed binder belongs to one arm, which does not use it as its own. *)
LEMMA BorrowedFacts ==
    ASSUME NEW p, Shaped(p), SealedArms(p), NEW o
    PROVE  LET B == Borrowed(p, Plan(p, o))
           IN  /\ \A t \in Blocks(p) : B \cap Params(p, t) \cap Classify(p) \cap After(p, t)[0] = {}
               /\ \A t \in Blocks(p) \ ArmTargets(p) : B \cap Params(p, t) = {}
               /\ \A b \in Blocks(p) : \A i \in DOMAIN p.insts[b] : p.insts[b][i].result \notin B
               /\ \A b \in Blocks(p) : \A j \in DOMAIN Plan(p, o).mode[b] :
                     \A k \in DOMAIN Plan(p, o).mode[b][j] :
                        p.params[p.term[b].succ[j]][k] \in B <=> Plan(p, o).mode[b][j][k] = "Borrow"
<1> DEFINE pl == Plan(p, o)
           B == Borrowed(p, pl)
<1>1. ASSUME NEW v \in B
      PROVE  \E t \in ArmTargets(p) : /\ t \in Blocks(p) /\ v \in Params(p, t)
                                      /\ v \notin Classify(p) \/ v \notin After(p, t)[0]
  <2>1. PICK b \in Blocks(p) : \E j \in DOMAIN pl.mode[b] : \E k \in DOMAIN pl.mode[b][j] :
                 v = p.params[p.term[b].succ[j]][k] /\ pl.mode[b][j][k] = "Borrow"
    BY BorrowedBinder
  <2>2. PICK j \in DOMAIN pl.mode[b] : \E k \in DOMAIN pl.mode[b][j] :
                 v = p.params[p.term[b].succ[j]][k] /\ pl.mode[b][j][k] = "Borrow"
    BY <2>1
  <2>3. PICK k \in DOMAIN pl.mode[b][j] :
                 v = p.params[p.term[b].succ[j]][k] /\ pl.mode[b][j][k] = "Borrow"
    BY <2>2
  <2> DEFINE t == p.term[b].succ[j]
  <2>4. /\ t \in ArmTargets(p) /\ t \in Blocks(p) /\ k \in DOMAIN p.params[t]
        /\ pl.mode[b][j][k] = "Borrow" <=> p.params[t][k] \notin Classify(p) \/ p.params[t][k] \notin After(p, t)[0]
    BY ArmModes
  <2> HIDE DEF pl, t
  <2>5. \A i \in DOMAIN p.params[t] : p.params[t][i] \in Params(p, t)
    BY <2>4, ParamsShape
  <2>6. v = p.params[t][k] /\ v \in Params(p, t)
    BY <2>3, <2>4, <2>5, Zenon DEF t
  <2> QED
    BY <2>3, <2>4, <2>6
<1> HIDE DEF B
<1>2. ASSUME NEW t \in Blocks(p), NEW v \in B, v \in Params(p, t)
      PROVE  t \in ArmTargets(p) /\ (v \notin Classify(p) \/ v \notin After(p, t)[0])
  <2>1. PICK u \in ArmTargets(p) : /\ u \in Blocks(p) /\ v \in Params(p, u)
                                   /\ v \notin Classify(p) \/ v \notin After(p, u)[0]
    BY <1>1
  <2>2. t = u
    BY <1>2, <2>1 DEF SealedArms, OnlyHere
  <2> QED
    BY <2>1, <2>2
<1>3. \A b \in Blocks(p) : \A i \in DOMAIN p.insts[b] : p.insts[b][i].result \notin B
  BY <1>1 DEF SealedArms, OnlyHere
<1>4. ASSUME NEW b \in Blocks(p), NEW j \in DOMAIN pl.mode[b], NEW k \in DOMAIN pl.mode[b][j]
      PROVE  p.params[p.term[b].succ[j]][k] \in B <=> pl.mode[b][j][k] = "Borrow"
  <2> DEFINE t == p.term[b].succ[j]
             v == p.params[t][k]
  <2>1. /\ t \in ArmTargets(p) /\ t \in Blocks(p) /\ k \in DOMAIN p.params[t]
        /\ pl.mode[b][j][k] = "Borrow" <=> v \notin Classify(p) \/ v \notin After(p, t)[0]
    BY ArmModes
  <2>2. v \in Params(p, t)
    BY <2>1, ParamsShape
  <2>3. v \in B => pl.mode[b][j][k] = "Borrow"
    BY <1>2, <2>1, <2>2
  <2>4. pl.mode[b][j][k] = "Borrow" => v \in B
    BY BorrowedBinder DEF B
  <2> QED
    BY <2>3, <2>4
<1> QED
  BY <1>2, <1>3, <1>4 DEF B

(* What no instruction of a block defines is live nowhere in the block if  *)
(* it is not live at its entry.                                            *)
LEMMA LiveSinceEntry ==
    ASSUME NEW p, Shaped(p), NEW b \in Blocks(p), NEW v,
           \A i \in DOMAIN p.insts[b] : p.insts[b][i].result # v,
           NEW i \in 0 .. Last(p, b), v \in After(p, b)[i]
    PROVE  v \in After(p, b)[0]
<1>1. Numbered(p) /\ Last(p, b) \in Nat \ {0} /\ Sites(p, b) = 1 .. Last(p, b)
  BY Shapes
<1>2. Out(p, b) \in SUBSET Value
  BY LiveTypes
<1>3. \A j \in Sites(p, b) : v \notin Defs(p, b, j)
  <2>1. \A j \in Sites(p, b) : j # Last(p, b) => j \in DOMAIN p.insts[b]
    BY Shapes
  <2> QED
    BY <2>1 DEF Defs
<1>4. \A j \in 0 .. Last(p, b) :
         v \in After(p, b)[j] <=> ReadLater(p, b, j, v) \/ OutLater(p, b, j, v, Out(p, b))
  BY <1>1, <1>2, ScanMembers DEF After
<1>5. ReadLater(p, b, i, v) => ReadLater(p, b, 0, v)
  BY <1>1, <1>3 DEF ReadLater, Untouched
<1>6. OutLater(p, b, i, v, Out(p, b)) => OutLater(p, b, 0, v, Out(p, b))
  BY <1>3 DEF OutLater, Untouched
<1>7. 0 \in 0 .. Last(p, b)
  BY <1>1
<1> QED
  BY <1>4, <1>5, <1>6, <1>7

-----------------------------------------------------------------------------
(* What is planned on an edge.                                             *)

(* What a plan expects to hold a reference when control enters a block.    *)
Expected(pl, t) == (pl.after[t][0] \cap pl.managed) \cup pl.entry[t]

(* What an edge has to carry over: no parameter of the target is live      *)
(* before it, and what is live is expected by the target or dropped.       *)
LEMMA EdgePlan ==
    ASSUME NEW p, WellFormed(p), NEW o, NEW b \in Blocks(p), NEW j \in DOMAIN p.term[b].succ,
           Borrowed(p, Plan(p, o)) \cap Classify(p) \cap Out(p, b) = {}
    PROVE  LET pl == Plan(p, o)
               t == p.term[b].succ[j]
               B == Borrowed(p, pl)
               m == Classify(p)
           IN  /\ t \in Blocks(p)
               /\ Expected(pl, t) \cup pl.drop[b][j] = (Out(p, b) \cap m) \cup ((Params(p, t) \cap m) \ B)
               /\ Expected(pl, t) \cap pl.drop[b][j] = {}
               /\ Out(p, b) \cap Params(p, t) = {}
               /\ B \cap m \cap After(p, t)[0] = {}
               /\ Uses(p, b, Last(p, b)) \cap Params(p, t) = {}
<1> DEFINE pl == Plan(p, o)
           t == p.term[b].succ[j]
           B == Borrowed(p, pl)
           m == Classify(p)
           L == LeastLiveIn(p)[t]
           A == After(p, t)[0]
           P == Params(p, t)
           O == Out(p, b)
<1>1. Shaped(p) /\ SealedArms(p) /\ DefinedWhenRead(p)
  BY DEF WellFormed
<1>2. t \in Blocks(p) /\ t \in Successors(p, b)
  BY <1>1, Shapes DEF Successors, Elems
<1>3. p.term[b].succ \in Seq(Blocks(p)) /\ TermShape(p, p.term[b])
  BY <1>1, Shapes DEF TermShape
<1>4. /\ pl.after[t] = After(p, t) /\ pl.managed = m
  BY <1>2, PlanGlobal
<1>13. pl.drop[b][j] = IF Len(p.term[b].succ) < 2 THEN {} ELSE ((O \ L) \cap m) \ B
  BY PlanDrop
<1>5. pl.entry[t] = ((P \cap m) \ A) \ B
  BY <1>2, PlanEntry
<1>6. Expected(pl, t) = (A \cap m) \cup (((P \cap m) \ A) \ B)
  BY <1>4, <1>5 DEF Expected
<1>7. L = A \ P
  BY <1>1, <1>2, EntryStep
<1>8. L \subseteq O
  BY <1>1, <1>2, LiveTypes
<1>9. B \cap P \cap m \cap A = {}
  BY <1>1, <1>2, BorrowedFacts
<1>10. Uses(p, b, Last(p, b)) \cap P = {}
  BY <1>1, <1>2 DEF DefinedWhenRead
<1>11. CASE Len(p.term[b].succ) < 2
  <2>1. DOMAIN p.term[b].succ = {1} /\ j = 1
    BY <1>3, <1>11
  <2>2. Successors(p, b) = {t}
    BY <2>1 DEF Successors, Elems
  <2>3. O = L
    BY <2>2 DEF Out, OutOf
  <2>4. pl.drop[b][j] = {}
    BY <1>11, <1>13
  <2>5. O \cap P = {}
    BY <1>7, <2>3
  <2>6. B \cap m \cap A = {}
    BY <1>7, <1>9, <2>3
  <2>7. Expected(pl, t) = (O \cap m) \cup ((P \cap m) \ B)
    <3> HIDE DEF B, m, L, A, P, O
    <3> QED
      BY <1>6, <1>7, <1>9, <2>3
  <2> QED
    BY <1>2, <1>10, <2>4, <2>5, <2>6, <2>7
<1>12. CASE ~(Len(p.term[b].succ) < 2)
  <2>1. p.term[b].kind \in {"branch", "match"}
    <3>1. p.term[b].succ # <<>> /\ Len(p.term[b].succ) # 1
      BY <1>3, <1>12
    <3> QED
      BY <1>3, <3>1 DEF TermShape
  <2>2. O \cap P = {}
    <3>1. CASE IsArm(p, b, j)
      BY <1>1, <3>1 DEF DefinedWhenRead, Out
    <3>2. CASE ~IsArm(p, b, j)
      <4>1. Len(p.params[t]) = 0 \/ p.params[t] = <<>>
        <5>1. CASE p.term[b].kind = "branch"
          BY <1>3, <5>1 DEF TermShape
        <5>2. CASE p.term[b].kind = "match"
          <6>1. j = Len(p.term[b].succ)
            BY <1>3, <3>2, <5>2 DEF IsArm
          <6>2. Len(p.params[t]) <= 0
            BY <1>3, <5>2, <6>1 DEF TermShape
          <6>3. Len(p.params[t]) \in Nat
            BY <1>1, <1>2, ParamsShape
          <6> QED
            BY <6>2, <6>3
        <5> QED
          BY <2>1, <5>1, <5>2
      <4>2. P = {}
        <5>1. p.params[t] \in Seq(Value)
          BY <1>1, <1>2, ParamsShape
        <5>2. DOMAIN p.params[t] = {}
          BY <4>1, <5>1
        <5> QED
          BY <5>2 DEF Params, Elems
      <4> QED
        BY <4>2
    <3> QED
      BY <3>1, <3>2
  <2>3. pl.drop[b][j] = ((O \ L) \cap m) \ B
    BY <1>12, <1>13
  <2>4. B \cap m \cap O = {}
    OBVIOUS
  <2> HIDE DEF B, m, L, A, P, O
  <2>5. B \cap m \cap A = {}
    BY <1>7, <1>8, <1>9, <2>4
  <2>6. pl.drop[b][j] = (O \ L) \cap m
    BY <2>3, <2>4
  <2>7. Expected(pl, t) = (L \cap m) \cup ((P \cap m) \ B)
    BY <1>6, <1>7, <1>9
  <2>8. Expected(pl, t) \cup pl.drop[b][j] = (O \cap m) \cup ((P \cap m) \ B)
    BY <1>8, <2>6, <2>7
  <2>9. Expected(pl, t) \cap pl.drop[b][j] = {}
    BY <2>2, <2>6, <2>7
  <2> QED
    BY <1>2, <1>10, <2>2, <2>5, <2>8, <2>9 DEF B, m, L, A, P, O
<1> QED
  BY <1>11, <1>12

(* A target that is no arm keeps all its managed parameters.               *)
LEMMA PlainTarget ==
    ASSUME NEW p, WellFormed(p), NEW o, NEW b \in Blocks(p), NEW j \in DOMAIN p.term[b].succ,
           ~IsArm(p, b, j)
    PROVE  Borrowed(p, Plan(p, o)) \cap Params(p, p.term[b].succ[j]) = {}
<1>1. Shaped(p) /\ SealedArms(p)
  BY DEF WellFormed
<1>2. p.term[b].succ[j] \in Blocks(p)
  BY <1>1, Shapes
<1>3. p.term[b].succ[j] \notin ArmTargets(p)
  BY <1>1 DEF SealedArms
<1> QED
  BY <1>1, <1>2, <1>3, BorrowedFacts

(* The entry block expects what its caller passes.                         *)
LEMMA EntryPlan ==
    ASSUME NEW p, WellFormed(p), NEW o, Len(p.params) \in Blocks(p)
    PROVE  LET pl == Plan(p, o)
               b == Len(p.params)
           IN  /\ Expected(pl, b) = Params(p, b) \cap Classify(p)
               /\ Borrowed(p, pl) \cap Classify(p) \cap After(p, b)[0] = {}
<1> DEFINE pl == Plan(p, o)
           b == Len(p.params)
<1>1. Shaped(p) /\ SealedArms(p) /\ DefinedWhenRead(p)
  BY DEF WellFormed
<1>2. After(p, b)[0] \subseteq Params(p, b)
  <2>1. LeastLiveIn(p)[b] = {}
    BY <1>1 DEF DefinedWhenRead
  <2>2. LeastLiveIn(p)[b] = After(p, b)[0] \ Params(p, b)
    BY <1>1, EntryStep
  <2> QED
    BY <2>1, <2>2
<1>3. b \notin ArmTargets(p)
  BY <1>1 DEF SealedArms
<1>4. Borrowed(p, pl) \cap Params(p, b) = {}
  BY <1>1, <1>3, BorrowedFacts
<1>5. /\ pl.managed = Classify(p) /\ pl.after[b] = After(p, b)
      /\ pl.entry[b] = ((Params(p, b) \cap Classify(p)) \ After(p, b)[0]) \ Borrowed(p, pl)
  BY PlanGlobal, PlanEntry
<1> HIDE DEF pl, b
<1>6. Expected(pl, b) = Params(p, b) \cap Classify(p)
  BY <1>2, <1>4, <1>5 DEF Expected
<1> QED
  BY <1>2, <1>4, <1>6 DEF pl, b

-----------------------------------------------------------------------------
(* Values with a single use.                                               *)

(* A function has finitely many sites.                                     *)
LEMMA SitesFinite ==
    ASSUME NEW p, Shaped(p)
    PROVE  IsFiniteSet(AllSites(p)) /\ \A s \in AllSites(p) : s[1] \in Blocks(p) /\ s[2] \in Sites(p, s[1])
<1> DEFINE at == [b \in Blocks(p) |-> {b} \X Sites(p, b)]
           T == {{b} \X Sites(p, b) : b \in Blocks(p)}
<1>1. IsFiniteSet(Blocks(p))
  <2>1. Blocks(p) = 1 .. Len(p.params) /\ Len(p.params) \in Nat
    BY DEF Shaped, Numbered
  <2>2. 1 \in Int /\ Len(p.params) \in Int
    BY <2>1
  <2> QED
    BY <2>1, <2>2, FS_Interval
<1>2. at \in Surjection(Blocks(p), T)
  BY DEF Surjection
<1>3. IsFiniteSet(T)
  <2> HIDE DEF at, T
  <2> QED
    BY <1>1, <1>2, FS_Surjection
<1>4. \A t \in T : IsFiniteSet(t)
  <2>1. SUFFICES ASSUME NEW b \in Blocks(p) PROVE IsFiniteSet({b} \X Sites(p, b))
    OBVIOUS
  <2>2. IsFiniteSet(Sites(p, b))
    <3>1. Sites(p, b) = 1 .. Last(p, b) /\ Last(p, b) \in Nat
      BY Shapes
    <3>2. 1 \in Int /\ Last(p, b) \in Int
      BY <3>1
    <3> QED
      BY <3>1, <3>2, FS_Interval
  <2> QED
    BY <2>2, FS_Singleton, FS_Product
<1>5. AllSites(p) = UNION T
  BY DEF AllSites
<1>6. IsFiniteSet(UNION T)
  <2> HIDE DEF T
  <2> QED
    BY <1>3, <1>4, FS_UNION
<1> QED
  BY <1>5, <1>6

(* A function has finitely many occurrences of values.                     *)
LEMMA OccurrencesFinite ==
    ASSUME NEW p, Shaped(p)
    PROVE  IsFiniteSet(Occurrences(p))
<1> DEFINE args(s) == DOMAIN ExprAt(p, s[1], s[2]).args
           at == [s \in AllSites(p) |-> {s} \X args(s)]
           T == {{s} \X args(s) : s \in AllSites(p)}
<1>1. at \in Surjection(AllSites(p), T)
  BY DEF Surjection
<1>2. IsFiniteSet(T)
  <2> HIDE DEF at, T
  <2> QED
    BY <1>1, SitesFinite, FS_Surjection
<1>3. \A t \in T : IsFiniteSet(t)
  <2>1. SUFFICES ASSUME NEW s \in AllSites(p) PROVE IsFiniteSet({s} \X args(s))
    OBVIOUS
  <2>2. IsFiniteSet(args(s))
    BY SitesFinite, Occurring
  <2> HIDE DEF args
  <2> QED
    BY <2>2, FS_Singleton, FS_Product
<1>4. Occurrences(p) = UNION T
  BY DEF Occurrences
<1>5. IsFiniteSet(UNION T)
  <2> HIDE DEF T
  <2> QED
    BY <1>2, <1>3, FS_UNION
<1> QED
  BY <1>4, <1>5

UsedOnce(p, v) == \E o \in Occurrences(p) : UsesOf(p, v) = {o}

(* What the planner counts as one use is one occurrence.                   *)
LEMMA CountedOnce ==
    ASSUME NEW p, Shaped(p), NEW v, Cardinality(UsesOf(p, v)) = 1
    PROVE  UsedOnce(p, v)
<1>1. UsesOf(p, v) \in SUBSET Occurrences(p)
  BY DEF UsesOf
<1>2. IsFiniteSet(UsesOf(p, v))
  BY <1>1, OccurrencesFinite, FS_Subset
<1>3. PICK o : UsesOf(p, v) = {o}
  BY <1>2, FS_Singleton
<1> QED
  BY <1>1, <1>3 DEF UsedOnce

(* An operand of a site is an occurrence of its value.                     *)
LEMMA UseIsOccurrence ==
    ASSUME NEW p, Shaped(p), NEW b \in Blocks(p), NEW i \in Sites(p, b),
           NEW k \in DOMAIN ExprAt(p, b, i).args
    PROVE  << <<b, i>>, k>> \in UsesOf(p, ExprAt(p, b, i).args[k].val)
<1>1. <<b, i>> \in AllSites(p)
  BY DEF AllSites
<1>2. << <<b, i>>, k>> \in Occurrences(p)
  BY <1>1 DEF Occurrences
<1> QED
  BY <1>2 DEF UsesOf

(* What nothing later in the block reads, and is live, is live at its end. *)
LEMMA LiveToTheEnd ==
    ASSUME NEW p, Shaped(p), NEW b \in Blocks(p), NEW v, NEW i \in 0 .. Last(p, b),
           \A j \in Sites(p, b) : j > i => v \notin Uses(p, b, j), v \in After(p, b)[i]
    PROVE  v \in Out(p, b)
<1> DEFINE n == Last(p, b)
           S == {m \in Nat : \A j \in 0 .. n :
                   j + m = n /\ (\A l \in Sites(p, b) : l > j => v \notin Uses(p, b, l)) /\ v \in After(p, b)[j]
                      => v \in Out(p, b)}
<1>1. n \in Nat \ {0} /\ Sites(p, b) = 1 .. n
  BY Shapes
<1> HIDE DEF n
<1>2. /\ After(p, b)[n] = Out(p, b)
      /\ \A j \in 1 .. n : After(p, b)[j - 1] = (After(p, b)[j] \ Defs(p, b, j)) \cup Uses(p, b, j)
  BY <1>1, ScanStep DEF n
<1>3. 0 \in S
  BY <1>1, <1>2
<1>4. ASSUME NEW m \in Nat, m \in S PROVE m + 1 \in S
  <2>1. SUFFICES ASSUME NEW j \in 0 .. n, j + (m + 1) = n,
                        \A l \in Sites(p, b) : l > j => v \notin Uses(p, b, l), v \in After(p, b)[j]
                 PROVE v \in Out(p, b)
    OBVIOUS
  <2>2. j + 1 \in 1 .. n /\ j + 1 \in 0 .. n /\ (j + 1) + m = n /\ (j + 1) - 1 = j /\ j + 1 > j
    BY <1>1, <2>1
  <2>3. v \in After(p, b)[j + 1]
    <3>1. After(p, b)[j] = (After(p, b)[j + 1] \ Defs(p, b, j + 1)) \cup Uses(p, b, j + 1)
      BY <1>2, <2>2
    <3>2. v \notin Uses(p, b, j + 1)
      BY <1>1, <2>1, <2>2
    <3> QED
      BY <2>1, <3>1, <3>2
  <2>4. \A l \in Sites(p, b) : l > j + 1 => v \notin Uses(p, b, l)
    BY <1>1, <2>1, <2>2
  <2> QED
    BY <1>4, <2>2, <2>3, <2>4
<1> HIDE DEF S
<1>5. \A m \in Nat : m \in S
  BY <1>3, <1>4, NatBySteps
<1>6. n - i \in Nat /\ i + (n - i) = n /\ i \in 0 .. n
  BY <1>1 DEF n
<1> QED
  BY <1>5, <1>6 DEF S

(* A value with a single use is dead after it, for no path comes back.     *)
LEMMA DeadAfterOnlyUse ==
    ASSUME NEW p, Shaped(p), Acyclic(p), NEW v, UsedOnce(p, v),
           NEW b \in Blocks(p), NEW i \in Sites(p, b), NEW k \in DOMAIN ExprAt(p, b, i).args,
           ExprAt(p, b, i).args[k].val = v
    PROVE  /\ v \notin After(p, b)[i]
           /\ \A j \in DOMAIN ExprAt(p, b, i).args : ExprAt(p, b, i).args[j].val = v => j = k
<1>1. UsesOf(p, v) = {<< <<b, i>>, k>>}
  BY UseIsOccurrence DEF UsedOnce
<1>2. ASSUME NEW d \in Blocks(p), NEW j \in Sites(p, d), v \in Uses(p, d, j)
      PROVE d = b /\ j = i
  <2>1. PICK l \in DOMAIN ExprAt(p, d, j).args : ExprAt(p, d, j).args[l].val = v
    BY <1>2, Occurring
  <2>2. << <<d, j>>, l>> \in UsesOf(p, v)
    BY <2>1, UseIsOccurrence
  <2> QED
    BY <1>1, <2>2
<1>3. ASSUME NEW j \in DOMAIN ExprAt(p, b, i).args, ExprAt(p, b, i).args[j].val = v PROVE j = k
  <2>1. << <<b, i>>, j>> \in UsesOf(p, v)
    BY <1>3, UseIsOccurrence
  <2> QED
    BY <1>1, <2>1
<1>4. ASSUME v \in After(p, b)[i] PROVE FALSE
  <2> DEFINE T == {d \in Blocks(p) : v \in LeastLiveIn(p)[d]} \cup {b}
  <2>1. ASSUME NEW d \in Blocks(p), v \in Out(p, d) PROVE Successors(p, d) \cap T # {}
    <3>1. PICK s \in Successors(p, d) : v \in LeastLiveIn(p)[s]
      BY <2>1 DEF Out, OutOf
    <3>2. s \in Blocks(p)
      BY LiveTypes
    <3> QED
      BY <3>1, <3>2
  <2>2. v \in Out(p, b)
    <3>1. Sites(p, b) = 1 .. Last(p, b) /\ Last(p, b) \in Nat
      BY Shapes
    <3>2. \A j \in Sites(p, b) : j > i => v \notin Uses(p, b, j)
      BY <1>2, <3>1
    <3>3. i \in 0 .. Last(p, b)
      BY <3>1
    <3> QED
      BY <1>4, <3>2, <3>3, LiveToTheEnd
  <2>3. ASSUME NEW d \in Blocks(p), d # b, v \in LeastLiveIn(p)[d] PROVE v \in Out(p, d)
    <3>1. v \in After(p, d)[0]
      BY <2>3, EntryStep
    <3>2. 0 \in 0 .. Last(p, d)
      BY Shapes
    <3>3. \A j \in Sites(p, d) : j > 0 => v \notin Uses(p, d, j)
      BY <1>2, <2>3
    <3> QED
      BY <3>1, <3>2, <3>3, LiveToTheEnd
  <2>4. \A d \in T : Successors(p, d) \cap T # {}
    BY <2>1, <2>2, <2>3
  <2>5. T \in SUBSET Blocks(p) /\ T # {}
    OBVIOUS
  <2> HIDE DEF T
  <2> QED
    BY <2>4, <2>5 DEF Acyclic
<1> QED
  BY <1>3, <1>4

-----------------------------------------------------------------------------
(* Fresh values.                                                           *)

(* What a definition of a fresh value is, once the others are known.       *)
LetFresh(p, b, i, fresh) ==
    LET e == ExprAt(p, b, i)
    IN  /\ p.insts[b][i].kind = "let"
        /\ FreshExpr(p, e.kind, IF e.args = <<>> THEN 0 ELSE e.args[1].val, fresh)

EdgeFresh(p, b, d, v, fresh) ==
    LET t == p.term[b]
        k == CHOOSE j \in DOMAIN p.params[d] : p.params[d][j] = v
    IN  t.kind = "goto" /\ FreshExpr(p, ArgKind(t.expr, k), t.expr.args[k].val, fresh)

FreshBy(p, v, fresh) ==
    /\ \/ \E s \in Insts(p) : ResultOf(p, s[1], s[2]) = v
       \/ \E e \in Blocks(p) \X Blocks(p) : v \in Params(p, e[2]) /\ e[2] \in Successors(p, e[1])
    /\ \A s \in Insts(p) : ResultOf(p, s[1], s[2]) = v => LetFresh(p, s[1], s[2], fresh)
    /\ \A e \in Blocks(p) \X Blocks(p) :
          v \in Params(p, e[2]) /\ e[2] \in Successors(p, e[1]) => EdgeFresh(p, e[1], e[2], v, fresh)

(* The members of one pass of the fresh-value search.                      *)
LEMMA FreshMembers ==
    ASSUME NEW p, NEW S, NEW v
    PROVE  v \in FreshStep(p, S) <=> v \in S \/ (v \in Value /\ FreshBy(p, v, S))
BY DEF FreshStep, FreshBy, LetFresh, EdgeFresh

(* What is fresh from few values is fresh from more.                       *)
LEMMA FreshGrows ==
    ASSUME NEW p, NEW S, NEW T, S \subseteq T, NEW v, FreshBy(p, v, S)
    PROVE  FreshBy(p, v, T)
<1>1. \A kind, w : FreshExpr(p, kind, w, S) => FreshExpr(p, kind, w, T)
  BY DEF FreshExpr
<1>2. \A b, i : LetFresh(p, b, i, S) => LetFresh(p, b, i, T)
  BY <1>1 DEF LetFresh
<1>3. \A b, d : EdgeFresh(p, b, d, v, S) => EdgeFresh(p, b, d, v, T)
  BY <1>1 DEF EdgeFresh
<1> QED
  BY <1>2, <1>3 DEF FreshBy

(* A fresh value is managed, for what makes it so is.                      *)
LEMMA FreshIsManaged ==
    ASSUME NEW p, Shaped(p), NEW S \in SUBSET Classify(p), NEW v, FreshBy(p, v, S)
    PROVE  v \in Classify(p)
<1> DEFINE M == Classify(p)
<1>1. M \in SUBSET Value /\ ManagedStep(p, M) = M
  BY ManagedClosed
<1> HIDE DEF M
<1>2. SUFFICES v \in ManagedStep(p, M)
  BY <1>1 DEF M
<1>3. CASE \E s \in Insts(p) : ResultOf(p, s[1], s[2]) = v
  <2>1. PICK s \in Insts(p) : ResultOf(p, s[1], s[2]) = v
    BY <1>3
  <2> DEFINE e == ExprAt(p, s[1], s[2])
  <2>2. LetFresh(p, s[1], s[2], S)
    BY <2>1 DEF FreshBy
  <2>3. e.kind = "make" \/ (e.kind = "value" /\ (IF e.args = <<>> THEN 0 ELSE e.args[1].val) \in M)
    BY <2>2 DEF LetFresh, FreshExpr, M
  <2>4. s[1] \in Blocks(p) /\ s[2] \in Sites(p, s[1]) /\ s[2] # Last(p, s[1])
    <3>1. s \in AllSites(p) /\ s[2] < Last(p, s[1])
      BY <2>1 DEF Insts
    <3>2. s[1] \in Blocks(p) /\ s[2] \in Sites(p, s[1])
      BY <3>1, SitesFinite
    <3>3. Last(p, s[1]) \in Nat
      BY <3>2, Shapes
    <3> QED
      BY <3>1, <3>2, <3>3
  <2>5. e = p.insts[s[1]][s[2]].expr /\ InstShape(p.insts[s[1]][s[2]])
    BY <2>4, Shapes
  <2>6. e.kind = "value" => DOMAIN e.args = {1} /\ e.args # <<>>
    <3>1. e.kind = "value" => Len(e.args) = 1
      BY <2>5 DEF InstShape
    <3>2. DOMAIN e.args = 1 .. Len(e.args)
      BY <2>4, Occurring
    <3> HIDE DEF e
    <3>3. e.args = <<>> => Len(e.args) = 0
      OBVIOUS
    <3>4. SUFFICES ASSUME e.kind = "value" PROVE DOMAIN e.args = {1} /\ e.args # <<>>
      OBVIOUS
    <3>5. Len(e.args) = 1
      BY <3>1, <3>4
    <3>6. DOMAIN e.args = 1 .. 1
      BY <3>2, <3>5
    <3>7. e.args # <<>>
      BY <3>3, <3>5
    <3> QED
      BY <3>6, <3>7
  <2>7. ExprIsManaged(e.kind, Elems([k \in DOMAIN e.args |-> e.args[k].val]), M)
    <3>1. CASE e.kind = "make"
      BY <3>1 DEF ExprIsManaged
    <3>2. CASE e.kind = "value" /\ (IF e.args = <<>> THEN 0 ELSE e.args[1].val) \in M
      <4>1. Elems([k \in DOMAIN e.args |-> e.args[k].val]) = {e.args[1].val}
        BY <2>6, <3>2 DEF Elems
      <4> QED
        BY <2>6, <3>2, <4>1 DEF ExprIsManaged
    <3> QED
      BY <2>3, <3>1, <3>2
  <2> QED
    BY <2>1, <2>7, ManagedMembers
<1>4. CASE \E e \in Blocks(p) \X Blocks(p) : v \in Params(p, e[2]) /\ e[2] \in Successors(p, e[1])
  <2>1. PICK e \in Blocks(p) \X Blocks(p) : v \in Params(p, e[2]) /\ e[2] \in Successors(p, e[1])
    BY <1>4
  <2> DEFINE b == e[1]
             d == e[2]
             t == p.term[b]
             k == CHOOSE j \in DOMAIN p.params[d] : p.params[d][j] = v
  <2>2. b \in Blocks(p) /\ d \in Blocks(p)
    BY <2>1
  <2>3. EdgeFresh(p, b, d, v, S)
    BY <2>1 DEF FreshBy
  <2>4. k \in DOMAIN p.params[d] /\ p.params[d][k] = v
    BY <2>1, <2>2, ParamsShape
  <2>5. t.kind = "goto" /\ FreshExpr(p, ArgKind(t.expr, k), t.expr.args[k].val, S)
    BY <2>3 DEF EdgeFresh
  <2> HIDE DEF k
  <2>6. d = t.succ[1] /\ k \in DOMAIN t.expr.args
    <3>1. TermShape(p, t)
      BY <2>2, Shapes
    <3>2. Len(t.succ) = 1 /\ Len(t.expr.args) = Len(p.params[t.succ[1]]) /\ t.succ \in Seq(Blocks(p))
          /\ t.expr.args \in Seq(Occurrence)
      BY <2>5, <3>1 DEF TermShape
    <3>3. Successors(p, b) = {t.succ[1]}
      BY <3>2 DEF Successors, Elems
    <3>4. d = t.succ[1]
      BY <2>1, <3>3
    <3>5. DOMAIN p.params[d] = 1 .. Len(p.params[d])
      BY <2>2, ParamsShape
    <3> QED
      BY <2>4, <3>2, <3>4, <3>5
  <2>7. ExprIsManaged(ArgKind(t.expr, k), {t.expr.args[k].val}, M)
    BY <2>5 DEF FreshExpr, ExprIsManaged, M
  <2>8. \E j \in DOMAIN t.expr.args : /\ v = p.params[t.succ[1]][j]
                                      /\ ExprIsManaged(ArgKind(t.expr, j), {t.expr.args[j].val}, M)
    BY <2>4, <2>6, <2>7
  <2> QED
    BY <2>2, <2>5, <2>8, ManagedMembers
<1> QED
  BY <1>3, <1>4 DEF FreshBy

(* Every fresh value is defined freshly, from fresh values, wherever it is *)
(* defined.                                                                *)
LEMMA FreshRules ==
    ASSUME NEW p, Shaped(p)
    PROVE  \A v \in SolveOrigins(p) : v \in Classify(p) /\ FreshBy(p, v, SolveOrigins(p))
<1> DEFINE T == SUBSET Value
           step == [S \in T |-> FreshStep(p, S)]
           D(r) == r = [m \in Nat |-> IF m = 0 THEN {} ELSE FreshStep(p, r[m - 1])]
           f == CHOOSE r : D(r)
           N == Cardinality(Value)
           Good(S) == \A v \in S : v \in Classify(p) /\ FreshBy(p, v, S)
<1>1. SolveOrigins(p) = f[N]
  BY DEF SolveOrigins
<1>2. {} \in T /\ step \in [T -> T]
  BY FreshMembers
<1>3. PICK g \in [Nat -> T] : Iterates({}, step, g)
  <2> HIDE DEF step, T
  <2> QED
    BY <1>2, IteratesExist
<1>4. \A m \in Nat : g[m + 1] = FreshStep(p, g[m])
  BY <1>3 DEF Iterates
<1>5. D(g)
  <2>1. ASSUME NEW m \in Nat, m # 0 PROVE g[m] = FreshStep(p, g[m - 1])
    <3>1. m - 1 \in Nat /\ (m - 1) + 1 = m
      BY <2>1
    <3> QED
      BY <1>4, <3>1
  <2> HIDE DEF T
  <2> QED
    BY <1>3, <2>1 DEF Iterates
<1>6. D(f)
  <2> HIDE DEF D
  <2> QED
    BY <1>5
<1>7. f[0] = {} /\ \A m \in Nat : f[m + 1] = FreshStep(p, f[m])
  <2>1. \A m \in Nat : m + 1 \in Nat /\ m + 1 # 0 /\ (m + 1) - 1 = m
    OBVIOUS
  <2>2. \A m \in Nat : f[m] = IF m = 0 THEN {} ELSE FreshStep(p, f[m - 1])
    <3> HIDE DEF f
    <3> QED
      BY <1>6
  <2> HIDE DEF f, D
  <2> QED
    BY <2>1, <2>2
<1> HIDE DEF f, D, step, N
<1>8. ASSUME NEW S, Good(S) PROVE Good(FreshStep(p, S))
  <2>1. SUFFICES ASSUME NEW v \in FreshStep(p, S)
                 PROVE v \in Classify(p) /\ FreshBy(p, v, FreshStep(p, S))
    OBVIOUS
  <2>2. S \subseteq FreshStep(p, S)
    BY FreshMembers
  <2>3. FreshBy(p, v, S)
    BY <1>8, <2>1, FreshMembers
  <2>4. v \in Classify(p)
    <3>1. S \in SUBSET Classify(p)
      BY <1>8
    <3> QED
      BY <2>3, <3>1, FreshIsManaged
  <2>5. FreshBy(p, v, FreshStep(p, S))
    BY <2>2, <2>3, FreshGrows
  <2> QED
    BY <2>4, <2>5
<1> DEFINE R == {m \in Nat : Good(f[m])}
<1>9. 0 \in R /\ \A m \in Nat : m \in R => m + 1 \in R
  <2>1. Good({})
    OBVIOUS
  <2> HIDE DEF Good
  <2>2. 0 \in R
    BY <1>7, <2>1
  <2>3. ASSUME NEW m \in Nat, Good(f[m]) PROVE Good(f[m + 1])
    <3>1. Good(FreshStep(p, f[m]))
      BY <1>8, <2>3
    <3> QED
      BY <1>7, <3>1
  <2>4. \A m \in Nat : m + 1 \in Nat
    OBVIOUS
  <2> QED
    BY <2>2, <2>3, <2>4
<1> HIDE DEF R
<1>10. \A m \in Nat : m \in R
  BY <1>9, NatBySteps
<1>11. N \in Nat
  BY ValuesFinite DEF N
<1> QED
  BY <1>1, <1>10, <1>11 DEF R
=============================================================================
