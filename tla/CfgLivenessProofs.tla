-------------------------- MODULE CfgLivenessProofs --------------------------
(***************************************************************************)
(* For every program: the sweep's sets stay below every solution of the    *)
(* liveness equations, and when the loop ends they are one.  Together: the *)
(* loop computes the least solution.                                       *)
(***************************************************************************)
EXTENDS CfgLiveness, CfgPlanLemmas

(* What a state of the analysis looks like, with where each loop stands.   *)
LInv ==
    /\ prog \in Programs
    /\ TypeOK
    /\ phase = "sweep" => cursor \in 0 .. n
    /\ phase = "scan" => cursor \in 1 .. n + 1

(* The program does not change, and with it its number of blocks.          *)
LEMMA ProgramFixed ==
    ASSUME [Next]_vars
    PROVE  prog' = prog /\ uses' = uses /\ defs' = defs /\ n' = n
BY DEF Next, Visit, SweepAgain, SweepEnds, Scan, ScanEnds, vars, n

(* A program's blocks are numbered, and edges stay among them.             *)
LEMMA ProgramShape ==
    ASSUME LInv
    PROVE  /\ n \in Nat
           /\ Blocks(prog) = 1 .. n
           /\ \A b \in Blocks(prog) : Successors(prog, b) \subseteq Blocks(prog)
BY ValueAssumption DEF Numbered, LInv, n

(* What flows out of a block is a set of values when what is live into its *)
(* successors is.                                                          *)
LEMMA OutIsValues ==
    ASSUME LInv, NEW b \in Blocks(prog)
    PROVE  OutOf(prog, live_in, b) \subseteq Value
<1>1. \A s \in Successors(prog, b) : live_in[s] \subseteq Value
      BY ProgramShape DEF LInv, TypeOK
<1>   QED BY <1>1 DEF OutOf

(* Flow is monotone in what is live into the successors.                   *)
LEMMA OutMonotone ==
    ASSUME LInv, NEW S, NEW b \in Blocks(prog),
           \A s \in Blocks(prog) : live_in[s] \subseteq S[s]
    PROVE  OutOf(prog, live_in, b) \subseteq OutOf(prog, S, b)
<1>1. \A s \in Successors(prog, b) : live_in[s] \subseteq S[s]
      BY ProgramShape
<1>   QED BY <1>1 DEF OutOf

LEMMA LInvInit == ASSUME Init PROVE LInv
<1>1. prog \in Programs
      BY DEF Init
<1>2. n \in Nat /\ Blocks(prog) = 1 .. n
      BY <1>1, ValueAssumption DEF Numbered, n
<1>3. uses \in [Blocks(prog) -> SUBSET Value]
      BY DEF Init, Exposed
<1>4. cursor \in 0 .. n
      BY <1>2 DEF Init
<1>5. /\ live_in \in [Blocks(prog) -> SUBSET Value]
      /\ live_out \in [Blocks(prog) -> SUBSET Value]
      BY DEF Init
<1>6. cursor \in 0 .. n + 1
      BY <1>2, <1>4
<1>   QED BY <1>1, <1>3, <1>4, <1>5, <1>6 DEF Init, LInv, TypeOK

LEMMA LInvNext == ASSUME LInv, [Next]_vars PROVE LInv'
<1>1. prog' = prog /\ uses' = uses /\ n' = n
      BY ProgramFixed
<1>2. n \in Nat /\ Blocks(prog) = 1 .. n
      BY ProgramShape
<1>3. CASE Visit
  <2>1. cursor \in Blocks(prog)
        BY <1>2, <1>3 DEF Visit, LInv
  <2>2. OutOf(prog, live_in, cursor) \subseteq Value
        BY <2>1, OutIsValues
  <2>3. InAfter(cursor, OutOf(prog, live_in, cursor)) \subseteq Value
        BY <2>1, <2>2 DEF InAfter, InOf, LInv, TypeOK
  <2>4. live_out' \in [Blocks(prog) -> SUBSET Value]
        BY <1>3, <2>2 DEF Visit, LInv, TypeOK
  <2>5. live_in' \in [Blocks(prog) -> SUBSET Value]
        BY <1>3, <2>3 DEF Visit, LInv, TypeOK
  <2>6. cursor' \in 0 .. n /\ phase' = "sweep"
        BY <1>2, <1>3, <2>1 DEF Visit
  <2>7. cursor' \in 0 .. n + 1
        BY <1>2, <2>6
  <2>8. changed' \in BOOLEAN
        BY <1>3 DEF Visit, LInv, TypeOK, Differs
  <2>   QED BY <1>1, <2>4, <2>5, <2>6, <2>7, <2>8 DEF LInv, TypeOK
<1>4. CASE SweepAgain
  <2>1. cursor' \in 0 .. n /\ cursor' \in 0 .. n + 1 /\ phase' = "sweep"
        BY <1>2, <1>4 DEF SweepAgain
  <2>   QED BY <1>1, <1>4, <2>1 DEF SweepAgain, LInv, TypeOK
<1>5. CASE SweepEnds
  <2>1. cursor' \in 1 .. n + 1 /\ cursor' \in 0 .. n + 1 /\ phase' = "scan"
        BY <1>2, <1>5 DEF SweepEnds
  <2>   QED BY <1>1, <1>5, <2>1 DEF SweepEnds, LInv, TypeOK
<1>6. CASE Scan
  <2>1. cursor' \in 1 .. n + 1 /\ cursor' \in 0 .. n + 1 /\ phase' = "scan"
        BY <1>2, <1>6 DEF Scan, LInv
  <2>   QED BY <1>1, <1>6, <2>1 DEF Scan, LInv, TypeOK
<1>7. CASE ScanEnds
      BY <1>1, <1>7 DEF ScanEnds, LInv, TypeOK
<1>8. CASE UNCHANGED vars
      BY <1>1, <1>8 DEF vars, LInv, TypeOK
<1>   QED BY <1>3, <1>4, <1>5, <1>6, <1>7, <1>8 DEF Next

LEMMA LInvAlways == Spec => []LInv
BY LInvInit, LInvNext, PTL DEF Spec

(* The type invariant of the analysis: sets of values throughout, and a    *)
(* cursor that stays within one block of the program.                      *)
THEOREM LivenessTypes == Spec => []TypeOK
<1>1. LInv => TypeOK
      BY DEF LInv
<1>   QED BY <1>1, LInvAlways, PTL

-----------------------------------------------------------------------------
LEMMA NeverTooMuchInit == ASSUME Init PROVE NeverTooMuch
BY DEF Init, NeverTooMuch

LEMMA NeverTooMuchNext ==
    ASSUME LInv, NeverTooMuch, [Next]_vars
    PROVE  NeverTooMuch'
<1>1. prog' = prog /\ uses' = uses /\ defs' = defs
      BY ProgramFixed
<1>2. CASE Visit
  <2>1. cursor \in Blocks(prog)
        BY <1>2, ProgramShape DEF Visit, LInv
  <2>2. SUFFICES ASSUME NEW S \in [Blocks(prog) -> SUBSET Value], IsSolution(S),
                        NEW b \in Blocks(prog)
                 PROVE  /\ live_in'[b] \subseteq S[b]
                        /\ live_out'[b] \subseteq OutOf(prog, S, b)
        BY <1>1 DEF NeverTooMuch, IsSolution
  <2>3. \A s \in Blocks(prog) : /\ live_in[s] \subseteq S[s]
                                /\ live_out[s] \subseteq OutOf(prog, S, s)
        BY <2>2 DEF NeverTooMuch
  <2>4. OutOf(prog, live_in, cursor) \subseteq OutOf(prog, S, cursor)
        BY <2>1, <2>3, OutMonotone
  <2>5. InAfter(cursor, OutOf(prog, live_in, cursor)) \subseteq S[cursor]
    <3>1. S[cursor] = InOf(uses[cursor], defs[cursor], OutOf(prog, S, cursor))
          BY <2>1, <2>2 DEF IsSolution
    <3>   QED BY <2>4, <3>1 DEF InAfter, InOf
  <2>6. CASE b = cursor
        BY <1>2, <2>1, <2>4, <2>5, <2>6 DEF Visit, LInv, TypeOK
  <2>7. CASE b # cursor
        BY <1>2, <2>3, <2>7 DEF Visit, LInv, TypeOK
  <2>   QED BY <2>6, <2>7
<1>3. CASE live_in' = live_in /\ live_out' = live_out
      BY <1>1, <1>3 DEF NeverTooMuch, IsSolution, OutOf
<1>   QED BY <1>2, <1>3 DEF Next, SweepAgain, SweepEnds, Scan, ScanEnds, vars

(* At every moment of the analysis the sets are below every solution: what *)
(* the loop has put in, no correct answer can leave out.                   *)
THEOREM NothingTooLive == Spec => []NeverTooMuch
BY NeverTooMuchInit, NeverTooMuchNext, LInvAlways, PTL DEF Spec

-----------------------------------------------------------------------------
LEMMA VisitedSettledInit == ASSUME Init PROVE VisitedSettled
<1>1. LInv
      BY LInvInit
<1>2. \A b \in Blocks(prog) : ~(b > cursor)
      BY <1>1, ProgramShape DEF Init
<1>   QED BY <1>2 DEF Init, VisitedSettled

LEMMA VisitedSettledNext ==
    ASSUME LInv, VisitedSettled, [Next]_vars
    PROVE  VisitedSettled'
<1>1. prog' = prog /\ uses' = uses /\ defs' = defs /\ n' = n
      BY ProgramFixed
<1>2. n \in Nat /\ Blocks(prog) = 1 .. n
      BY ProgramShape
<1>3. CASE Visit
  <2>1. SUFFICES ASSUME ~changed', NEW b \in Blocks(prog), b > cursor'
                 PROVE  SettledAt(b)'
        BY <1>1, <1>3 DEF Visit, VisitedSettled
  <2>2. cursor \in Blocks(prog) /\ cursor' = cursor - 1
        BY <1>2, <1>3 DEF Visit, LInv
  <2>3. ~changed /\ ~Differs(cursor, OutOf(prog, live_in, cursor))
        BY <1>3, <2>1 DEF Visit
  <2>4. /\ live_out[cursor] = OutOf(prog, live_in, cursor)
        /\ live_in[cursor] = InAfter(cursor, OutOf(prog, live_in, cursor))
        BY <2>3 DEF Differs
  <2>5. live_out' = live_out /\ live_in' = live_in
        BY <1>3, <2>2, <2>4 DEF Visit, LInv, TypeOK
  <2>6. SettledAt(b)
    <3>1. CASE b = cursor
          BY <2>4, <3>1 DEF SettledAt
    <3>2. CASE b > cursor
          BY <1>3, <2>3, <3>2 DEF Visit, VisitedSettled
    <3>   QED BY <1>2, <2>1, <2>2, <3>1, <3>2
  <2>   QED BY <1>1, <2>5, <2>6 DEF SettledAt, InAfter
<1>4. CASE SweepAgain
  <2>1. \A b \in Blocks(prog) : ~(b > cursor')
        BY <1>2, <1>4 DEF SweepAgain
  <2>   QED BY <1>1, <1>4, <2>1 DEF SweepAgain, VisitedSettled
<1>5. CASE SweepEnds
  <2>1. \A b \in Blocks(prog) : b > cursor
        BY <1>2, <1>5 DEF SweepEnds
  <2>2. \A b \in Blocks(prog) : SettledAt(b)
        BY <1>5, <2>1 DEF SweepEnds, VisitedSettled
  <2>3. \A b \in Blocks(prog) : SettledAt(b)'
        BY <1>1, <1>5, <2>2 DEF SweepEnds, SettledAt, InAfter
  <2>   QED BY <1>1, <1>5, <2>3 DEF SweepEnds, VisitedSettled
<1>6. CASE Scan \/ ScanEnds
  <2>1. \A b \in Blocks(prog) : SettledAt(b)
        BY <1>6 DEF Scan, ScanEnds, VisitedSettled
  <2>2. \A b \in Blocks(prog) : SettledAt(b)'
        BY <1>1, <1>6, <2>1 DEF Scan, ScanEnds, SettledAt, InAfter
  <2>   QED BY <1>1, <1>6, <2>2 DEF Scan, ScanEnds, VisitedSettled
<1>7. CASE UNCHANGED vars
      BY <1>7 DEF vars, VisitedSettled, SettledAt, InAfter
<1>   QED BY <1>3, <1>4, <1>5, <1>6, <1>7 DEF Next

(* One sweep that changes nothing is enough: when the loop ends, the sets  *)
(* solve the equations of every block, the ones visited first included.    *)
THEOREM SweepSolves == Spec => []SolvedWhenSwept
<1>1. Spec => []VisitedSettled
      BY VisitedSettledInit, VisitedSettledNext, LInvAlways, PTL DEF Spec
<1>2. VisitedSettled => SolvedWhenSwept
      BY DEF VisitedSettled, SettledAt, SolvedWhenSwept, IsSolution, InAfter
<1>   QED BY <1>1, <1>2, PTL

-----------------------------------------------------------------------------
(* The sets uses and defs are those of the program throughout.             *)
UsesAndDefs ==
    /\ uses = [b \in Blocks(prog) |-> Exposed(prog, b)]
    /\ defs = [b \in Blocks(prog) |-> BlockDefs(prog, b)]

LEMMA UsesAndDefsNext ==
    ASSUME UsesAndDefs, [Next]_vars
    PROVE  UsesAndDefs'
BY ProgramFixed DEF UsesAndDefs

LEMMA UsesAndDefsAlways == Spec => []UsesAndDefs
<1>1. Init => UsesAndDefs
  BY DEF Init, UsesAndDefs
<1> QED
  BY <1>1, UsesAndDefsNext, PTL DEF Spec

LEMMA SolutionsAreRounds ==
    ASSUME LInv, UsesAndDefs, NEW S \in [Blocks(prog) -> SUBSET Value]
    PROVE  IsSolution(S) <=> S = RoundOf(prog, S)
BY DEF IsSolution, UsesAndDefs, RoundOf

LEMMA SolvedIsLeast ==
    ASSUME LInv, UsesAndDefs, NeverTooMuch, SolvedWhenSwept
    PROVE  SweptIsLeast
<1>1. SUFFICES ASSUME phase # "sweep" PROVE live_in = LeastLiveIn(prog)
  BY DEF SweptIsLeast
<1> DEFINE L == LeastLiveIn(prog)
<1>2. /\ L \in [Blocks(prog) -> SUBSET Value]
      /\ L = RoundOf(prog, L)
      /\ \A S \in [Blocks(prog) -> SUBSET Value] :
            S = RoundOf(prog, S) => \A b \in Blocks(prog) : L[b] \subseteq S[b]
  BY LeastSolution, ValueAssumption DEF LInv
<1> HIDE DEF L
<1>3. live_in \in [Blocks(prog) -> SUBSET Value] /\ live_in = RoundOf(prog, live_in)
  BY <1>1, SolutionsAreRounds DEF LInv, TypeOK, SolvedWhenSwept
<1>4. IsSolution(L)
  BY <1>2, SolutionsAreRounds
<1>5. \A b \in Blocks(prog) : live_in[b] \subseteq L[b] /\ L[b] \subseteq live_in[b]
  BY <1>2, <1>3, <1>4 DEF NeverTooMuch
<1>6. \A b \in Blocks(prog) : live_in[b] = L[b]
  BY <1>5
<1>7. live_in = L
  BY <1>2, <1>3, <1>6
<1> QED
  BY <1>7 DEF L

(* The loop computes the least solution, the sets that CfgArc plans with,   *)
(* whatever the order of the blocks and however the program's paths run.    *)
THEOREM SweepIsLeast == Spec => []SweptIsLeast
BY SolvedIsLeast, LInvAlways, UsesAndDefsAlways, NothingTooLive, SweepSolves, PTL

-----------------------------------------------------------------------------
(* ReachedUndefined is the least set of places that has those after the    *)
(* start, and those after each of its places where x is not defined.       *)

Onward(S, x) == UNION {NextPlaces(pl) : pl \in {q \in S : ~Defines(q, x)}}

LEMMA AfterMembers ==
    \A S, x, pl : pl \in Onward(S, x) <=> \E q \in S : ~Defines(q, x) /\ pl \in NextPlaces(q)
BY DEF Onward

LEMMA PlacesShape ==
    ASSUME LInv
    PROVE  /\ IsFiniteSet(Places) /\ Cardinality(Places) \in Nat
           /\ \A b \in Blocks(prog) : \A i \in 0 .. Last(prog, b) : <<b, i>> \in Places
           /\ \A q \in Places : /\ q[1] \in Blocks(prog) /\ q[2] \in 0 .. Last(prog, q[1])
                                /\ q = <<q[1], q[2]>>
           /\ \A q \in Places : NextPlaces(q) \subseteq Places
<1> DEFINE P(b) == {b} \X (0 .. Last(prog, b))
           rows == {P(b) : b \in Blocks(prog)}
<1>1. /\ prog \in Programs
      /\ \A b \in Blocks(prog) : /\ Successors(prog, b) \subseteq Blocks(prog)
                                 /\ Last(prog, b) \in Nat \ {0}
  BY SiteNumbers, ProgramShape, ValueAssumption DEF LInv
<1>2. Places = UNION rows
  BY DEF Places
<1>3. IsFiniteSet(rows)
  <2>1. IsFiniteSet(Blocks(prog))
    BY ProgramShape, FS_Interval
  <2> DEFINE h == [b \in Blocks(prog) |-> P(b)]
  <2>2. h \in Surjection(Blocks(prog), rows)
    BY DEF Surjection
  <2> HIDE DEF h, rows
  <2> QED
    BY <2>1, <2>2, FS_Surjection
<1>4. \A b \in Blocks(prog) : IsFiniteSet(P(b))
  <2>1. SUFFICES ASSUME NEW b \in Blocks(prog) PROVE IsFiniteSet(P(b))
    OBVIOUS
  <2>2. IsFiniteSet({b})
    BY FS_Singleton
  <2>3. 0 \in Int /\ Last(prog, b) \in Int
    BY <1>1
  <2>4. IsFiniteSet(0 .. Last(prog, b))
    BY <2>3, FS_Interval
  <2> QED
    BY <2>2, <2>4, FS_Product
<1>5. IsFiniteSet(Places) /\ Cardinality(Places) \in Nat
  <2>1. \A T \in rows : IsFiniteSet(T)
    BY <1>4
  <2> HIDE DEF rows
  <2> QED
    BY <1>2, <1>3, <2>1, FS_UNION, FS_CardinalityType
<1>6. \A b \in Blocks(prog) : \A i \in 0 .. Last(prog, b) : <<b, i>> \in Places
  BY DEF Places
<1>7. ASSUME NEW q \in Places
      PROVE  /\ q[1] \in Blocks(prog) /\ q[2] \in 0 .. Last(prog, q[1])
             /\ q = <<q[1], q[2]>>
  BY DEF Places
<1>8. ASSUME NEW q \in Places, NEW r \in NextPlaces(q) PROVE r \in Places
  <2>1. CASE q[2] = Last(prog, q[1])
    <3>1. PICK s \in Successors(prog, q[1]) : r = <<s, 0>>
      BY <1>8, <2>1 DEF NextPlaces
    <3>2. s \in Blocks(prog) /\ 0 \in 0 .. Last(prog, s)
      BY <1>1, <1>7
    <3> QED
      BY <1>6, <3>1, <3>2
  <2>2. CASE q[2] # Last(prog, q[1])
    <3>1. r = <<q[1], q[2] + 1>>
      BY <1>8, <2>2 DEF NextPlaces
    <3>2. q[2] + 1 \in 0 .. Last(prog, q[1])
      BY <1>1, <1>7, <2>2
    <3> QED
      BY <1>6, <1>7, <3>1, <3>2
  <2> QED
    BY <2>1, <2>2
<1> QED
  BY <1>5, <1>6, <1>7, <1>8

LEMMA ReachedRounds ==
    ASSUME LInv, NEW from \in Places, NEW x
    PROVE  \E g \in [Nat -> SUBSET Places] :
              /\ g[0] = NextPlaces(from)
              /\ \A k \in Nat : g[k + 1] = g[k] \cup Onward(g[k], x)
              /\ ReachedUndefined(from, x) = g[Cardinality(Places)]
<1> DEFINE T == SUBSET Places
           step == [S \in T |-> S \cup Onward(S, x)]
           f == CHOOSE g : g = [k \in Nat |->
                    IF k = 0 THEN NextPlaces(from)
                    ELSE g[k - 1] \cup UNION {NextPlaces(pl) : pl \in {q \in g[k - 1] : ~Defines(q, x)}}]
           D(g) == g = [k \in Nat |-> IF k = 0 THEN NextPlaces(from)
                                      ELSE g[k - 1] \cup Onward(g[k - 1], x)]
<1>1. ReachedUndefined(from, x) = f[Cardinality(Places)]
  BY DEF ReachedUndefined
<1>2. NextPlaces(from) \in T
  BY PlacesShape
<1>3. \A S \in T : S \cup Onward(S, x) \in T
  <2>1. SUFFICES ASSUME NEW S \in T, NEW q \in Onward(S, x) PROVE q \in Places
    OBVIOUS
  <2>2. PICK r \in S : q \in NextPlaces(r)
    BY <2>1, AfterMembers
  <2> QED
    BY <2>2, PlacesShape
<1>4. step \in [T -> T]
  BY <1>3
<1>5. PICK g \in [Nat -> T] : Iterates(NextPlaces(from), step, g)
  <2> HIDE DEF step, T
  <2> QED
    BY <1>2, <1>4, IteratesExist
<1>6. D(g)
  <2>1. g[0] = NextPlaces(from) /\ \A k \in Nat : g[k + 1] = g[k] \cup Onward(g[k], x)
    BY <1>5 DEF Iterates
  <2>2. ASSUME NEW k \in Nat, k # 0 PROVE g[k] = g[k - 1] \cup Onward(g[k - 1], x)
    <3>1. k - 1 \in Nat /\ (k - 1) + 1 = k
      BY <2>2
    <3> QED
      BY <2>1, <3>1
  <2> QED
    BY <2>1, <2>2
<1>7. D(f)
  <2>1. f = CHOOSE h : D(h)
    BY DEF Onward
  <2> HIDE DEF D, f
  <2> QED
    BY <1>6, <2>1
<1>8. f[0] = NextPlaces(from) /\ \A k \in Nat : f[k + 1] = f[k] \cup Onward(f[k], x)
  <2>1. \A k \in Nat : k + 1 \in Nat /\ k + 1 # 0 /\ (k + 1) - 1 = k
    OBVIOUS
  <2>2. \A k \in Nat : f[k] = IF k = 0 THEN NextPlaces(from) ELSE f[k - 1] \cup Onward(f[k - 1], x)
    <3> HIDE DEF f
    <3> QED
      BY <1>7
  <2> HIDE DEF D, f
  <2> QED
    BY <2>1, <2>2
<1>9. f \in [Nat -> T]
  <2> DEFINE S == {k \in Nat : f[k] \in T}
  <2> HIDE DEF f, T
  <2>1. 0 \in S
    BY <1>2, <1>8
  <2>3. ASSUME NEW k \in Nat, k \in S PROVE k + 1 \in S
    <3>1. f[k] \in T /\ f[k + 1] = f[k] \cup Onward(f[k], x)
      BY <1>8, <2>3
    <3>2. f[k] \cup Onward(f[k], x) \in T
      BY <1>3, <3>1
    <3>3. f[k + 1] \in T
      BY <3>1, <3>2
    <3>4. k + 1 \in Nat
      OBVIOUS
    <3> HIDE DEF D
    <3> QED
      BY <3>3, <3>4
  <2> HIDE DEF S
  <2>2. \A k \in Nat : k \in S
    BY <2>1, <2>3, NatBySteps
  <2> QED
    BY <1>7, <2>2 DEF S
<1> HIDE DEF f
<1> QED
  BY <1>1, <1>8, <1>9

LEMMA ReachedClosed ==
    ASSUME LInv, NEW from \in Places, NEW x
    PROVE  LET R == ReachedUndefined(from, x)
           IN  /\ R \subseteq Places
               /\ NextPlaces(from) \subseteq R
               /\ \A q \in R : ~Defines(q, x) => NextPlaces(q) \subseteq R
<1> DEFINE c == Cardinality(Places)
<1>1. PICK g \in [Nat -> SUBSET Places] :
              /\ g[0] = NextPlaces(from)
              /\ \A k \in Nat : g[k + 1] = g[k] \cup Onward(g[k], x)
              /\ ReachedUndefined(from, x) = g[c]
  BY ReachedRounds
<1>2. c \in Nat /\ IsFiniteSet(Places)
  BY PlacesShape
<1>3. \A k \in Nat : g[k] \subseteq g[k + 1]
  BY <1>1
<1>4. ASSUME NEW k \in Nat, g[k + 1] = g[k] PROVE g[k + 2] = g[k + 1]
  <2>1. k + 1 \in Nat /\ (k + 1) + 1 = k + 2
    OBVIOUS
  <2> QED
    BY <1>1, <1>4, <2>1
<1>5. Cardinality(g[0]) \in Nat
  <2>1. g[0] \in SUBSET Places
    OBVIOUS
  <2> QED
    BY <1>2, <2>1, FS_Subset, FS_CardinalityType
<1>6. c <= c + Cardinality(g[0])
  <2> HIDE DEF c
  <2> QED
    BY <1>2, <1>5
<1>7. g[c + 1] = g[c]
  <2>1. \A k \in Nat : c <= k + Cardinality(g[0]) => g[k + 1] = g[k]
    BY <1>2, <1>3, <1>4, GrowthStops
  <2> HIDE DEF c
  <2> QED
    BY <1>2, <1>6, <2>1
<1>8. NextPlaces(from) \subseteq g[c]
  <2> DEFINE S == {k \in Nat : NextPlaces(from) \subseteq g[k]}
  <2> HIDE DEF c
  <2>1. 0 \in S /\ \A k \in Nat : k \in S => k + 1 \in S
    BY <1>1, <1>3
  <2> HIDE DEF S
  <2>2. \A k \in Nat : k \in S
    BY <2>1, NatBySteps
  <2> QED
    BY <1>2, <2>2 DEF S
<1> HIDE DEF c
<1>9. Onward(g[c], x) \subseteq g[c]
  BY <1>1, <1>2, <1>7
<1> QED
  BY <1>1, <1>2, <1>8, <1>9, AfterMembers

LEMMA ReachedLeast ==
    ASSUME LInv, NEW from \in Places, NEW x, NEW C, NextPlaces(from) \subseteq C,
           \A q \in C : ~Defines(q, x) => NextPlaces(q) \subseteq C
    PROVE  ReachedUndefined(from, x) \subseteq C
<1>1. PICK g \in [Nat -> SUBSET Places] :
              /\ g[0] = NextPlaces(from)
              /\ \A k \in Nat : g[k + 1] = g[k] \cup Onward(g[k], x)
              /\ ReachedUndefined(from, x) = g[Cardinality(Places)]
  BY ReachedRounds
<1> DEFINE S == {k \in Nat : g[k] \subseteq C}
<1>2. 0 \in S
  BY <1>1
<1>3. ASSUME NEW k \in Nat, k \in S PROVE k + 1 \in S
  <2>1. Onward(g[k], x) \subseteq C
    BY <1>3, AfterMembers
  <2> QED
    BY <1>1, <1>3, <2>1
<1> HIDE DEF S
<1>4. \A k \in Nat : k \in S
  BY <1>2, <1>3, NatBySteps
<1>5. Cardinality(Places) \in Nat
  BY PlacesShape
<1> QED
  BY <1>1, <1>4, <1>5 DEF S

-----------------------------------------------------------------------------
(* Live is needed, and needed is live.                                     *)

(* Once the loop has ended.                                                *)
Swept ==
    /\ LInv /\ UsesAndDefs
    /\ live_in = LeastLiveIn(prog)
    /\ IsSolution(live_in)
    /\ \A b \in Blocks(prog) : live_out[b] = OutOf(prog, live_in, b)

(* Walking through sites that do not define x stays among the places that  *)
(* a closed set holds.                                                     *)
LEMMA Walk ==
    ASSUME LInv, NEW R, NEW x, \A q \in R : ~Defines(q, x) => NextPlaces(q) \subseteq R,
           NEW b \in Blocks(prog), NEW i \in 0 .. Last(prog, b), NextPlaces(<<b, i>>) \subseteq R,
           NEW j \in Sites(prog, b), i < j, Untouched(prog, b, i, j - 1, x)
    PROVE  <<b, j>> \in R
<1> DEFINE e == Last(prog, b)
           S == {m \in Nat : i < m /\ m <= j => <<b, m>> \in R}
<1>1. e \in Nat \ {0} /\ Sites(prog, b) = 1 .. e
  BY SiteNumbers, ValueAssumption DEF LInv
<1>2. 0 \in S
  BY <1>1
<1>3. ASSUME NEW m \in Nat, m \in S PROVE m + 1 \in S
  <2>1. SUFFICES ASSUME i < m + 1, m + 1 <= j PROVE <<b, m + 1>> \in R
    OBVIOUS
  <2>2. NextPlaces(<<b, m>>) = {<<b, m + 1>>}
    <3>1. m # e
      BY <1>1, <2>1
    <3> QED
      BY <3>1 DEF NextPlaces
  <2>3. CASE m = i
    BY <2>2, <2>3
  <2>4. CASE m # i
    <3>1. i < m /\ m <= j - 1 /\ m \in Sites(prog, b)
      BY <1>1, <2>1, <2>4
    <3>2. <<b, m>> \in R
      BY <1>1, <1>3, <3>1
    <3>3. ~Defines(<<b, m>>, x)
      BY <1>1, <3>1 DEF Untouched, Defines
    <3> QED
      BY <2>2, <3>2, <3>3
  <2> QED
    BY <2>3, <2>4
<1> HIDE DEF S
<1>4. \A m \in Nat : m \in S
  BY <1>2, <1>3, NatBySteps
<1> QED
  BY <1>1, <1>4 DEF S

(* The same to the end of the block and into its successors.               *)
LEMMA WalkOut ==
    ASSUME LInv, NEW R, NEW x, \A q \in R : ~Defines(q, x) => NextPlaces(q) \subseteq R,
           NEW b \in Blocks(prog), NEW i \in 0 .. Last(prog, b), NextPlaces(<<b, i>>) \subseteq R,
           Untouched(prog, b, i, Last(prog, b), x),
           NEW s \in Successors(prog, b)
    PROVE  <<s, 0>> \in R
<1> DEFINE e == Last(prog, b)
<1>1. e \in Nat \ {0} /\ Sites(prog, b) = 1 .. e
  BY SiteNumbers, ValueAssumption DEF LInv
<1>2. <<s, 0>> \in NextPlaces(<<b, e>>)
  BY DEF NextPlaces
<1>3. CASE i = e
  BY <1>2, <1>3
<1>4. CASE i # e
  <2>1. e \in Sites(prog, b) /\ i < e
    BY <1>1, <1>4
  <2>2. Untouched(prog, b, i, e - 1, x) /\ x \notin Defs(prog, b, e)
    BY <1>1, <2>1 DEF Untouched
  <2>3. <<b, e>> \in R
    BY <2>1, <2>2, Walk
  <2>4. ~Defines(<<b, e>>, x)
    BY <1>1, <2>2 DEF Defines
  <2> QED
    BY <1>2, <2>3, <2>4
<1> QED
  BY <1>3, <1>4

(* A value that no reached site reads is live into no block whose entry is *)
(* reached.                                                                *)
LEMMA UnreadNotLive ==
    ASSUME LInv, NEW R, NEW x, \A q \in R : ~Defines(q, x) => NextPlaces(q) \subseteq R,
           \A b \in Blocks(prog) : \A j \in Sites(prog, b) : <<b, j>> \in R => x \notin Uses(prog, b, j),
           NEW c \in Blocks(prog), <<c, 0>> \in R
    PROVE  x \notin LeastLiveIn(prog)[c]
<1>1. prog \in Programs /\ Len(prog.params) \in Nat
  BY ValueAssumption DEF LInv
<1>2. PICK g \in [Nat -> [Blocks(prog) -> SUBSET Value]] :
              /\ g[0] = [b \in Blocks(prog) |-> {}]
              /\ \A k \in Nat : g[k + 1] = RoundOf(prog, g[k])
              /\ LeastLiveIn(prog) = g[Len(prog.params)]
  BY <1>1, Rounds, ValueAssumption
<1> DEFINE S == {k \in Nat : \A b \in Blocks(prog) : <<b, 0>> \in R => x \notin g[k][b]}
<1>3. 0 \in S
  BY <1>2
<1>4. ASSUME NEW k \in Nat, k \in S PROVE k + 1 \in S
  <2>1. SUFFICES ASSUME NEW b \in Blocks(prog), <<b, 0>> \in R, x \in g[k + 1][b] PROVE FALSE
    OBVIOUS
  <2> DEFINE e == Last(prog, b)
  <2>2. e \in Nat \ {0} /\ Sites(prog, b) = 1 .. e /\ 0 \in 0 .. e
    BY <1>1, SiteNumbers, ValueAssumption
  <2>3. \/ x \in Exposed(prog, b)
        \/ x \notin BlockDefs(prog, b) /\ \E s \in Successors(prog, b) : x \in g[k][s]
    <3>1. x \in RoundOf(prog, g[k])[b]
      BY <1>2, <2>1
    <3> QED
      BY <1>1, <3>1, RoundMembers, ValueAssumption
  <2>4. x \notin Params(prog, b)
    BY <2>3 DEF Exposed, BlockDefs
  <2>5. NextPlaces(<<b, 0>>) \subseteq R
    BY <2>1, <2>4 DEF Defines
  <2>6. CASE x \in Exposed(prog, b)
    <3>1. PICK i \in Sites(prog, b) : /\ x \in Uses(prog, b, i)
                                     /\ \A j \in 1 .. i - 1 : x \notin Defs(prog, b, j)
      BY <2>6 DEF Exposed
    <3>2. 0 < i /\ Untouched(prog, b, 0, i - 1, x)
      BY <2>2, <3>1 DEF Untouched
    <3>3. <<b, i>> \in R
      BY <2>2, <2>5, <3>2, Walk
    <3> QED
      BY <3>1, <3>3
  <2>7. CASE x \notin BlockDefs(prog, b) /\ \E s \in Successors(prog, b) : x \in g[k][s]
    <3>1. PICK s \in Successors(prog, b) : x \in g[k][s]
      BY <2>7
    <3>2. Untouched(prog, b, 0, e, x)
      BY <2>2, <2>7 DEF Untouched, BlockDefs
    <3>3. <<s, 0>> \in R
      BY <2>2, <2>5, <3>2, WalkOut
    <3>4. s \in Blocks(prog)
      BY ProgramShape
    <3> QED
      BY <1>4, <3>1, <3>3, <3>4
  <2> QED
    BY <2>3, <2>6, <2>7
<1> HIDE DEF S
<1>5. \A k \in Nat : k \in S
  BY <1>3, <1>4, NatBySteps
<1> QED
  BY <1>1, <1>2, <1>5 DEF S

LEMMA OutTyped ==
    ASSUME Swept, NEW b \in Blocks(prog)
    PROVE  prog \in Programs /\ live_out[b] \in SUBSET Value /\ LiveAfter(prog, live_out[b], b) = Scanned(b)
BY DEF Swept, LInv, TypeOK, Scanned

(* What the scan calls live is read at some place that control reaches     *)
(* before it is defined again.                                             *)
LEMMA LiveIsNeeded ==
    ASSUME Swept, NEW b \in Blocks(prog), NEW i \in 0 .. Last(prog, b),
           NEW x \in Scanned(b)[i]
    PROVE  x \in NeededAfter(<<b, i>>)
<1>1. /\ LInv /\ prog \in Programs /\ live_out[b] \in SUBSET Value
      /\ LiveAfter(prog, live_out[b], b) = Scanned(b)
  BY OutTyped DEF Swept
<1> DEFINE R == ReachedUndefined(<<b, i>>, x)
<1>2. <<b, i>> \in Places
  BY <1>1, PlacesShape
<1>3. /\ R \subseteq Places /\ NextPlaces(<<b, i>>) \subseteq R
      /\ \A q \in R : ~Defines(q, x) => NextPlaces(q) \subseteq R
  BY <1>1, <1>2, ReachedClosed
<1>4. ReadLater(prog, b, i, x) \/ OutLater(prog, b, i, x, live_out[b])
  BY <1>1, ScanMembers, ValueAssumption
<1>5. x \in Value
  <2>1. ReadLater(prog, b, i, x) => x \in Value
    BY <1>1, ValueAssumption DEF Numbered, ReadLater
  <2> QED
    BY <1>1, <1>4, <2>1 DEF OutLater
<1>6. SUFFICES ASSUME \A pl \in R : ~(pl[2] > 0 /\ x \in Uses(prog, pl[1], pl[2])) PROVE FALSE
  BY <1>5 DEF NeededAfter
<1> HIDE DEF R
<1>7. \A c \in Blocks(prog) : \A j \in Sites(prog, c) : <<c, j>> \in R => x \notin Uses(prog, c, j)
  <2>1. \A c \in Blocks(prog) : \A j \in Sites(prog, c) : j > 0
    BY <1>1, SiteNumbers, ValueAssumption
  <2> QED
    BY <1>6, <2>1
<1>8. CASE ReadLater(prog, b, i, x)
  <2>1. PICK j \in Sites(prog, b) : i < j /\ x \in Uses(prog, b, j) /\ Untouched(prog, b, i, j - 1, x)
    BY <1>8 DEF ReadLater
  <2>2. <<b, j>> \in R
    BY <1>1, <1>3, <2>1, Walk
  <2> QED
    BY <1>7, <2>1, <2>2
<1>9. CASE OutLater(prog, b, i, x, live_out[b])
  <2>1. PICK s \in Successors(prog, b) : x \in live_in[s]
    BY <1>9 DEF OutLater, Swept, OutOf
  <2>2. <<s, 0>> \in R /\ s \in Blocks(prog)
    BY <1>1, <1>3, <1>9, WalkOut, ProgramShape DEF OutLater
  <2>3. x \notin LeastLiveIn(prog)[s]
    BY <1>1, <1>3, <1>7, <2>2, UnreadNotLive
  <2> QED
    BY <2>1, <2>3 DEF Swept
<1> QED
  BY <1>4, <1>8, <1>9

(* What the scan does not call live is read at no such place.              *)
LEMMA NeededIsLive ==
    ASSUME Swept, NEW b \in Blocks(prog), NEW i \in 0 .. Last(prog, b),
           NEW x \in NeededAfter(<<b, i>>)
    PROVE  x \in Scanned(b)[i]
<1> DEFINE live(q) == x \in Scanned(q[1])[q[2]]
           C == {q \in Places : /\ q[2] > 0 => x \notin Uses(prog, q[1], q[2])
                                /\ Defines(q, x) \/ ~live(q)}
<1>1. LInv /\ x \in Value
  BY DEF Swept, NeededAfter
<1>2. ASSUME NEW q \in Places, ~live(q) PROVE NextPlaces(q) \subseteq C
  <2> DEFINE c == q[1]
             k == q[2]
             e == Last(prog, c)
  <2>1. /\ c \in Blocks(prog) /\ k \in 0 .. e /\ e \in Nat \ {0} /\ Sites(prog, c) = 1 .. e
        /\ prog \in Programs /\ live_out[c] \in SUBSET Value
        /\ LiveAfter(prog, live_out[c], c) = Scanned(c)
    <3>1. c \in Blocks(prog) /\ k \in 0 .. e
      BY <1>1, PlacesShape
    <3> QED
      BY <3>1, SiteNumbers, OutTyped, ValueAssumption
  <2>2. ~(ReadLater(prog, c, k, x) \/ OutLater(prog, c, k, x, live_out[c]))
    BY <1>2, <2>1, ScanMembers, ValueAssumption
  <2>3. ~IF k = e THEN x \in live_out[c]
         ELSE \/ x \in Uses(prog, c, k + 1)
              \/ /\ x \notin Defs(prog, c, k + 1)
                 /\ ReadLater(prog, c, k + 1, x) \/ OutLater(prog, c, k + 1, x, live_out[c])
    BY <2>1, <2>2, LaterStep, ValueAssumption
  <2>4. NextPlaces(q) \subseteq Places
    BY <1>1, PlacesShape
  <2>5. CASE k # e
    <3> DEFINE r == <<c, k + 1>>
    <3>1. NextPlaces(q) = {r} /\ r \in Places /\ k + 1 \in 0 .. e /\ k + 1 # 0
      BY <2>1, <2>4, <2>5 DEF NextPlaces
    <3>2. x \notin Uses(prog, c, k + 1)
      BY <2>3, <2>5
    <3>3. CASE x \in Defs(prog, c, k + 1)
      <4>1. Defines(r, x)
        BY <3>1, <3>3 DEF Defines
      <4> QED
        BY <3>1, <3>2, <4>1
    <3>4. CASE x \notin Defs(prog, c, k + 1)
      <4>1. ~(ReadLater(prog, c, k + 1, x) \/ OutLater(prog, c, k + 1, x, live_out[c]))
        BY <2>3, <2>5, <3>4
      <4>2. x \notin Scanned(c)[k + 1]
        BY <2>1, <3>1, <4>1, ScanMembers, ValueAssumption
      <4> QED
        BY <3>1, <3>2, <4>2
    <3> QED
      BY <3>3, <3>4
  <2>6. CASE k = e
    <3>1. SUFFICES ASSUME NEW s \in Successors(prog, c)
                   PROVE  Defines(<<s, 0>>, x) \/ x \notin Scanned(s)[0]
      <4>1. NextPlaces(q) = {<<s, 0>> : s \in Successors(prog, c)}
        BY <2>6 DEF NextPlaces
      <4>2. \A s \in Successors(prog, c) : <<s, 0>>[1] = s /\ <<s, 0>>[2] = 0 /\ ~(0 > 0)
        OBVIOUS
      <4> QED
        BY <2>4, <3>1, <4>1, <4>2
    <3>2. x \notin live_in[s] /\ s \in Blocks(prog)
      BY <1>1, <2>1, <2>3, <2>6, ProgramShape DEF Swept, OutOf
    <3>3. /\ live_in[s] = InOf(Exposed(prog, s), BlockDefs(prog, s), live_out[s])
          /\ live_out[s] \in SUBSET Value /\ LiveAfter(prog, live_out[s], s) = Scanned(s)
      BY <3>2, OutTyped DEF Swept, IsSolution, UsesAndDefs
    <3>4. x \in Params(prog, s) \/ x \notin Scanned(s)[0]
      BY <1>1, <2>1, <3>2, <3>3, EntryLive, ValueAssumption
    <3> QED
      BY <3>4 DEF Defines
  <2> QED
    BY <2>5, <2>6
<1>3. SUFFICES ASSUME x \notin Scanned(b)[i] PROVE FALSE
  OBVIOUS
<1>4. <<b, i>> \in Places /\ ~live(<<b, i>>)
  BY <1>1, <1>3, PlacesShape
<1>5. NextPlaces(<<b, i>>) \subseteq C
  BY <1>2, <1>4
<1>6. \A q \in C : ~Defines(q, x) => NextPlaces(q) \subseteq C
  BY <1>2
<1> HIDE DEF C
<1>7. ReachedUndefined(<<b, i>>, x) \subseteq C
  BY <1>1, <1>4, <1>5, <1>6, ReachedLeast
<1> QED
  BY <1>7 DEF C, NeededAfter

(* How far the scan has come.                                              *)
ScanSoFar ==
    \E done \in 0 .. n :
       /\ live_after = [b \in 1 .. done |-> Scanned(b)]
       /\ phase = "sweep" => done = 0
       /\ phase = "scan" => done = cursor - 1

LEMMA ScanSoFarInit == ASSUME Init PROVE ScanSoFar
<1>1. LInv
  BY LInvInit
<1>2. <<>> = [b \in 1 .. 0 |-> Scanned(b)]
  BY DEF Init
<1>3. n \in Nat
  BY <1>1, ProgramShape
<1> QED
  BY <1>2, <1>3 DEF Init, ScanSoFar

LEMMA ScanSoFarNext == ASSUME LInv, ScanSoFar, [Next]_vars PROVE ScanSoFar'
<1>1. prog' = prog /\ n' = n /\ n \in Nat
  BY ProgramFixed, ProgramShape
<1>2. PICK done \in 0 .. n :
         /\ live_after = [b \in 1 .. done |-> Scanned(b)]
         /\ phase = "sweep" => done = 0
         /\ phase = "scan" => done = cursor - 1
  BY DEF ScanSoFar
<1>3. CASE Visit \/ SweepAgain
  BY <1>1, <1>2, <1>3 DEF Visit, SweepAgain, ScanSoFar
<1>4. CASE SweepEnds
  BY <1>1, <1>2, <1>4 DEF SweepEnds, ScanSoFar, Scanned
<1>5. CASE Scan
  <2> DEFINE S == {Scanned(b) : b \in 1 .. n}
             k == done + 1
  <2>1. cursor \in 1 .. n /\ done = cursor - 1 /\ k = cursor
    BY <1>1, <1>2, <1>5 DEF Scan, LInv
  <2>2. live_after \in Seq(S) /\ Len(live_after) = done /\ Scanned(cursor) \in S
    <3>1. done \in Nat /\ \A b \in 1 .. done : Scanned(b) \in S
      BY <1>1, <2>1
    <3>2. Scanned(cursor) \in S
      BY <2>1
    <3> HIDE DEF S
    <3>3. live_after \in [1 .. done -> S]
      BY <1>2, <3>1
    <3> QED
      BY <3>1, <3>2, <3>3
  <2>3. live_after' = Append(live_after, Scanned(cursor))
    BY <1>5 DEF Scan
  <2>4. live_after' = [b \in 1 .. k |-> Scanned(b)]
    BY <1>2, <2>1, <2>2, <2>3
  <2>5. \A b : Scanned(b)' = Scanned(b)
    BY <1>1, <1>5 DEF Scanned, Scan
  <2>6. live_after' = [b \in 1 .. k |-> Scanned(b)']
    BY <2>4, <2>5
  <2>7. k \in 0 .. n /\ k = cursor' - 1 /\ phase' = "scan"
    BY <2>1, <1>5 DEF Scan, LInv
  <2> QED
    BY <1>1, <2>6, <2>7 DEF ScanSoFar
<1>6. CASE ScanEnds
  BY <1>1, <1>2, <1>6 DEF ScanEnds, ScanSoFar, Scanned
<1>7. CASE UNCHANGED vars
  BY <1>1, <1>2, <1>7 DEF vars, ScanSoFar, Scanned
<1> QED
  BY <1>3, <1>4, <1>5, <1>6, <1>7 DEF Next

LEMMA ScannedIsNeeded ==
    ASSUME LInv, UsesAndDefs, SweptIsLeast, SolvedWhenSwept, ScanSoFar
    PROVE  LiveAfterIsNeeded
<1>1. PICK done \in 0 .. n :
         /\ live_after = [b \in 1 .. done |-> Scanned(b)]
         /\ phase = "sweep" => done = 0
  BY DEF ScanSoFar
<1>2. SUFFICES ASSUME NEW b \in DOMAIN live_after, NEW i \in 0 .. Last(prog, b)
               PROVE  live_after[b][i] = NeededAfter(<<b, i>>)
  BY DEF LiveAfterIsNeeded
<1>3. b \in 1 .. done /\ b \in Blocks(prog) /\ live_after[b] = Scanned(b) /\ phase # "sweep"
  BY <1>1, ProgramShape
<1>4. Swept
  BY <1>3 DEF Swept, SweptIsLeast, SolvedWhenSwept
<1>5. \A x : x \in Scanned(b)[i] <=> x \in NeededAfter(<<b, i>>)
  BY <1>3, <1>4, LiveIsNeeded, NeededIsLive
<1>6. Scanned(b)[i] \subseteq NeededAfter(<<b, i>>) /\ NeededAfter(<<b, i>>) \subseteq Scanned(b)[i]
  BY <1>5
<1> QED
  BY <1>3, <1>6

(* For every program, what the scan says is live after a site is exactly    *)
(* what some path from there still reads before it is defined again.        *)
THEOREM LiveIsWhatPathsRead == Spec => []LiveAfterIsNeeded
<1>1. Spec => []ScanSoFar
  BY ScanSoFarInit, ScanSoFarNext, LInvAlways, PTL DEF Spec
<1> QED
  BY <1>1, ScannedIsNeeded, LInvAlways, UsesAndDefsAlways, SweepIsLeast, SweepSolves, PTL
=============================================================================
