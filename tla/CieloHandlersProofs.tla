------------------------ MODULE CieloHandlersProofs ------------------------
(* Proofs about CieloHandlers: the global handler stack is the nesting of   *)
(* the open handles for every set of effects, every stack limit and every   *)
(* width of the capability ids; no address of closed evidence remains; and  *)
(* no effect of a program that type checks is lost.                         *)
EXTENDS CieloHandlers, SequenceTheorems, WellFoundedInduction, TLAPS

(* Some element of a bounded set of numbers is its greatest.                *)
LEMMA GreatestExists ==
    ASSUME NEW n \in Nat, NEW S, S \subseteq 1 .. n, S # {}
    PROVE  Greatest(S) \in S /\ \A y \in S : y <= Greatest(S)
<1> DEFINE less == {ss \in Nat \X Nat : ss[1] < ss[2]}
           T == {n - x : x \in S}
<1>1. IsWellFoundedOn(less, Nat)
  BY NatLessThanWellFounded DEF OpToRel
<1>2. \A a, b \in Nat : a < b => <<a, b>> \in less
  OBVIOUS
<1>3. \A x \in S : n - x \in Nat
  OBVIOUS
<1>4. T \subseteq Nat
  BY <1>3
<1>5. T # {}
  OBVIOUS
<1> HIDE DEF less
<1>6. PICK t \in T : \A u \in T : <<u, t>> \notin less
  BY <1>1, <1>4, <1>5, WFMin
<1>7. PICK x \in S : t = n - x
  BY <1>6
<1>8. \A y \in S : n - y \in T /\ n - y \in Nat /\ n - x \in Nat
  BY <1>3
<1>9. \A y \in S : ~(n - y < n - x)
  BY <1>2, <1>6, <1>7, <1>8
<1>10. \A y \in S : y <= x
  BY <1>9
<1> QED
  BY <1>5, <1>10 DEF Greatest

(* The element a scan from the top of the stack stops at first.             *)
LEMMA GreatestOfTop ==
    ASSUME NEW n \in Nat, NEW S, S \subseteq 1 .. n, n \in S
    PROVE  Greatest(S) = n
<1> DEFINE g == Greatest(S)
<1>1. g \in S /\ \A y \in S : y <= g
  BY GreatestExists
<1> HIDE DEF g
<1>2. g \in 1 .. n /\ n <= g
  BY <1>1
<1>3. g = n
  BY <1>2
<1> QED
  BY <1>3 DEF g

(* A sequence without its last element.                                     *)
LEMMA Front ==
    ASSUME NEW S, NEW s \in Seq(S), Len(s) > 0
    PROVE  /\ SubSeq(s, 1, Len(s) - 1) \in Seq(S)
           /\ Len(SubSeq(s, 1, Len(s) - 1)) = Len(s) - 1
           /\ \A i \in 1 .. Len(s) - 1 : SubSeq(s, 1, Len(s) - 1)[i] = s[i]
<1> DEFINE n == Len(s) - 1
<1>1. n \in Nat /\ \A i \in 1 .. n : s[i] \in S
  BY LenProperties
<1> HIDE DEF n
<1>2. /\ SubSeq(s, 1, n) \in Seq(S)
      /\ Len(SubSeq(s, 1, n)) = IF 1 <= n THEN n - 1 + 1 ELSE 0
      /\ \A i \in 1 .. n - 1 + 1 : SubSeq(s, 1, n)[i] = s[1 + i - 1]
  BY <1>1, SubSeqProperties
<1>3. n - 1 + 1 = n /\ (IF 1 <= n THEN n ELSE 0) = n /\ \A i \in 1 .. n : 1 + i - 1 = i
  BY <1>1
<1>4. /\ SubSeq(s, 1, n) \in Seq(S)
      /\ Len(SubSeq(s, 1, n)) = n
      /\ \A i \in 1 .. n : SubSeq(s, 1, n)[i] = s[i]
  BY <1>2, <1>3
<1> QED
  BY <1>4 DEF n

LEMMA Extended ==
    ASSUME NEW S, NEW s \in Seq(S), NEW x \in S
    PROVE  /\ Append(s, x) \in Seq(S)
           /\ Len(Append(s, x)) = Len(s) + 1
           /\ \A i \in 1 .. Len(s) : Append(s, x)[i] = s[i]
           /\ Append(s, x)[Len(s) + 1] = x
  BY AppendProperties

(* The counter is never 0, so an installation's id is the counter itself.   *)
LEMMA Ids ==
    ASSUME TypeOK
    PROVE  /\ FreshId = nextCap /\ FreshId \in 1 .. MaxId
           /\ NextAfter(FreshId) \in 1 .. MaxId
  BY HandlerAssumption DEF TypeOK, FreshId, NextAfter, Increment

LEMMA InitHandlerInv ==
    ASSUME Init
    PROVE  HandlerInv /\ RowsDischarged
<1>1. PICK row \in SUBSET Effect : calls = <<[row |-> row, bare |-> row, answers |-> Null]>>
  BY DEF Init
<1>2. /\ calls \in Seq(Call) /\ top = 1 /\ scopes \in Seq(Scope) /\ inner = 0
      /\ calls[1] = [row |-> row, bare |-> row, answers |-> Null]
  BY <1>1 DEF Init, Call, top, inner
<1>3. TypeOK
  <2>1. NoFrame \in Frame /\ NoTable \in Table /\ NoTrap \in Trap
    BY DEF NoFrame, Frame, NoTable, Table, NoTrap, Trap
  <2>2. frames \in [1 .. StackMax -> Frame] /\ clauses \in [Evid -> Table] /\ trap \in Trap
    BY <2>1 DEF Init
  <2> QED
    BY <1>2, <2>2, HandlerAssumption DEF Init, TypeOK
<1>4. ScopesNested /\ FramesAreScopes /\ EvidenceOwned
  BY <1>2 DEF Init, ScopesNested, FramesAreScopes, EvidenceOwned, Steady, Settled
<1>5. NoStaleEvidence
  BY DEF Init, NoStaleEvidence, NoFrame
<1>6. RowsDischarged
  BY <1>2 DEF RowsDischarged, BareUpTo
<1> QED
  BY <1>3, <1>4, <1>5, <1>6 DEF HandlerInv

(* The open handles as functions, whichever instruction the code is at.     *)
LEMMA Shape ==
    ASSUME HandlerInv
    PROVE  /\ top \in Nat /\ inner \in Nat /\ depth \in Nat
           /\ \A k \in 1 .. inner : scopes[k] \in Scope
           /\ \A d \in 1 .. top : calls[d] \in Call
           /\ Steady => depth = inner
           /\ ~Steady => inner > 0 /\ depth = inner - 1
<1>1. top \in Nat /\ inner \in Nat
  BY LenProperties DEF HandlerInv, TypeOK, top, inner
<1>2. /\ \A k \in 1 .. inner : scopes[k] \in Scope
      /\ \A d \in 1 .. top : calls[d] \in Call
  BY ElementOfSeq DEF HandlerInv, TypeOK, top, inner
<1>3. depth \in Nat
  BY HandlerAssumption DEF HandlerInv, TypeOK
<1> QED
  BY <1>1, <1>2, <1>3 DEF HandlerInv, FramesAreScopes, Settled, Steady

LEMMA RegionEnterInv ==
    ASSUME HandlerInv, NEW e \in Effect, NEW ev \in Evid, NEW table \in Table,
           RegionEnter(e, ev, table)
    PROVE  HandlerInv'
<1> DEFINE new == [owner |-> top, effect |-> e, hcap |-> 0, ev |-> ev, phase |-> "entered"]
<1>1. /\ top \in Nat /\ inner \in Nat /\ depth = inner /\ top > 0
      /\ \A k \in 1 .. inner : scopes[k].phase = "active" \/ k < inner
  BY Shape DEF RegionEnter, Steady, Running
<1>2. new \in Scope
  BY <1>1, HandlerAssumption DEF Scope, CapId
<1>3. /\ scopes' \in Seq(Scope) /\ inner' = inner + 1
      /\ \A k \in 1 .. inner : scopes'[k] = scopes[k]
      /\ scopes'[inner + 1] = new
  BY <1>2, Extended DEF RegionEnter, HandlerInv, TypeOK, inner
<1>4. /\ ev \notin live /\ live' = live \cup {ev} /\ top' = top
      /\ frames' = frames /\ depth' = depth
  BY DEF RegionEnter, top
<1>5. TypeOK'
  BY <1>3, HandlerAssumption DEF HandlerInv, TypeOK, RegionEnter
<1>6. ~Steady' /\ Settled' = inner
  BY <1>1, <1>3 DEF Steady, Settled
<1>7. ScopesNested'
  <2>1. \A k \in 1 .. inner : scopes[k].phase = "active"
    BY <1>1 DEF HandlerInv, ScopesNested
  <2>2. \A k \in 1 .. inner + 1 : scopes'[k].owner \in 1 .. top
    BY <1>1, <1>3 DEF HandlerInv, ScopesNested
  <2>3. \A j, k \in 1 .. inner + 1 : j < k =>
            scopes'[j].phase = "active" /\ scopes'[j].owner <= scopes'[k].owner
    <3> SUFFICES ASSUME NEW j \in 1 .. inner + 1, NEW k \in 1 .. inner + 1, j < k
                 PROVE  scopes'[j].phase = "active" /\ scopes'[j].owner <= scopes'[k].owner
      OBVIOUS
    <3>1. j \in 1 .. inner /\ scopes'[j] = scopes[j]
      BY <1>1, <1>3
    <3>2. CASE k = inner + 1
      <4>1. scopes'[k].owner = top /\ scopes[j].owner \in 1 .. top
        BY <1>3, <3>1, <3>2 DEF HandlerInv, ScopesNested
      <4> QED
        BY <1>1, <2>1, <3>1, <4>1
    <3>3. CASE k # inner + 1
      <4>1. k \in 1 .. inner /\ scopes'[k] = scopes[k]
        BY <1>1, <1>3, <3>3
      <4> QED
        BY <3>1, <4>1 DEF HandlerInv, ScopesNested
    <3> QED
      BY <3>2, <3>3
  <2> QED
    BY <1>3, <1>4, <2>2, <2>3 DEF ScopesNested
<1>8. FramesAreScopes'
  BY <1>1, <1>3, <1>4, <1>6 DEF HandlerInv, FramesAreScopes
<1>9. EvidenceOwned'
  <2>1. \A k \in 1 .. inner : scopes[k].ev \in live
    BY DEF HandlerInv, EvidenceOwned
  <2>2. \A k \in 1 .. inner : scopes'[k].ev \in live /\ scopes'[k].ev # ev
    BY <1>3, <1>4, <2>1
  <2>3. \A k \in 1 .. inner + 1 : k \in 1 .. inner \/ k = inner + 1
    BY <1>1
  <2>4. scopes'[inner + 1].ev = ev
    BY <1>3
  <2>5. \A k \in 1 .. inner + 1 : scopes'[k].ev \in live'
    BY <1>4, <2>2, <2>3, <2>4
  <2>6. \A j, k \in 1 .. inner : scopes'[j].ev = scopes'[k].ev => j = k
    BY <1>3 DEF HandlerInv, EvidenceOwned
  <2>7. \A j, k \in 1 .. inner + 1 : scopes'[j].ev = scopes'[k].ev => j = k
    BY <2>2, <2>3, <2>4, <2>6
  <2> QED
    BY <1>3, <2>5, <2>7 DEF EvidenceOwned
<1>10. NoStaleEvidence'
  BY <1>4 DEF HandlerInv, NoStaleEvidence
<1> QED
  BY <1>5, <1>7, <1>8, <1>9, <1>10 DEF HandlerInv

LEMMA Activated ==
    ASSUME NEW s \in Scope, NEW id \in CapId
    PROVE  LET t == [s EXCEPT !.hcap = id, !.phase = "active"]
           IN  /\ t \in Scope /\ t.phase = "active" /\ t.hcap = id
               /\ t.owner = s.owner /\ t.effect = s.effect /\ t.ev = s.ev
  BY DEF Scope

LEMMA HandlerEnterInv ==
    ASSUME HandlerInv, HandlerEnter
    PROVE  HandlerInv'
<1> ~Steady
  BY DEF HandlerEnter, Steady
<1>1. /\ inner \in Nat /\ inner > 0 /\ depth = inner - 1 /\ inner \in 1 .. inner
      /\ scopes[inner] \in Scope /\ scopes[inner].owner = top
  BY Shape DEF HandlerInv, ScopesNested
<1>2. CASE depth >= StackMax
  <2>1. UNCHANGED <<frames, depth, nextCap, scopes, pushes, calls, live, clauses>>
        /\ trap' = [what |-> "handler stack overflow", op |-> Null]
    BY <1>2 DEF HandlerEnter
  <2>2. UNCHANGED <<top, inner, Steady, Settled>>
    BY <2>1 DEF top, inner, Steady, Settled
  <2> QED
    BY <2>1, <2>2 DEF HandlerInv, TypeOK, Trap, ScopesNested, FramesAreScopes, EvidenceOwned,
                      NoStaleEvidence
<1>3. CASE ~(depth >= StackMax)
  <2> DEFINE frame == [effect |-> scopes[inner].effect, cap |-> FreshId,
                       evidence |-> scopes[inner].ev]
             entered == [scopes[inner] EXCEPT !.hcap = FreshId, !.phase = "active"]
  <2>1. /\ frames' = [frames EXCEPT ![depth + 1] = frame] /\ depth' = depth + 1
        /\ nextCap' = NextAfter(FreshId) /\ pushes' = pushes
        /\ scopes' = [scopes EXCEPT ![inner] = entered]
        /\ calls' = calls /\ live' = live /\ clauses' = clauses /\ trap' = trap
    BY <1>3 DEF HandlerEnter
  <2>2. FreshId \in 1 .. MaxId /\ NextAfter(FreshId) \in 1 .. MaxId
    BY Ids DEF HandlerInv
  <2>6. FreshId \in CapId
    BY <2>2, HandlerAssumption DEF CapId
  <2>3. /\ entered \in Scope /\ entered.phase = "active" /\ entered.hcap = FreshId
        /\ entered.owner = scopes[inner].owner /\ entered.effect = scopes[inner].effect
        /\ entered.ev = scopes[inner].ev
    BY <1>1, <2>6, Activated
  <2>4. /\ scopes' \in Seq(Scope) /\ inner' = inner
        /\ \A k \in 1 .. inner : scopes'[k] = IF k = inner THEN entered ELSE scopes[k]
    BY <1>1, <2>1, <2>3, ExceptSeq DEF HandlerInv, TypeOK, inner
  <2>5. depth + 1 = inner /\ depth + 1 \in 1 .. StackMax /\ frame \in Frame
    <3>1. depth \in 0 .. StackMax /\ ~(depth >= StackMax)
      BY <1>3 DEF HandlerInv, TypeOK
    <3>2. depth + 1 = inner /\ depth + 1 \in 1 .. StackMax
      BY <1>1, <3>1, HandlerAssumption
    <3>3. scopes[inner].effect \in Effect /\ scopes[inner].ev \in Evid
      BY <1>1 DEF Scope
    <3>4. frame \in Frame
      BY <2>6, <3>3 DEF Frame
    <3> QED
      BY <3>2, <3>4
  <2>7. TypeOK'
    BY <2>1, <2>2, <2>4, <2>5 DEF HandlerInv, TypeOK
  <2>8. Steady' /\ Settled' = inner /\ top' = top
    BY <1>1, <2>1, <2>3, <2>4 DEF Steady, Settled, top
  <2>9. ScopesNested'
    BY <1>1, <2>3, <2>4, <2>8 DEF HandlerInv, ScopesNested
  <2>10. FramesAreScopes'
    BY <1>1, <2>1, <2>3, <2>4, <2>5, <2>8 DEF HandlerInv, FramesAreScopes, TypeOK
  <2>11. EvidenceOwned'
    BY <1>1, <2>1, <2>3, <2>4 DEF HandlerInv, EvidenceOwned
  <2>12. NoStaleEvidence'
    <3>1. scopes[inner].ev \in live
      BY <1>1 DEF HandlerInv, EvidenceOwned
    <3> QED
      BY <1>1, <2>1, <2>5, <3>1 DEF HandlerInv, NoStaleEvidence, TypeOK
  <2> QED
    BY <2>7, <2>9, <2>10, <2>11, <2>12 DEF HandlerInv
<1> QED
  BY <1>2, <1>3

LEMMA Popped ==
    ASSUME NEW s \in Scope
    PROVE  LET t == [s EXCEPT !.phase = "popped"]
           IN  /\ t \in Scope /\ t.phase = "popped"
               /\ t.owner = s.owner /\ t.effect = s.effect /\ t.ev = s.ev
  BY DEF Scope

LEMMA HandlerExitInv ==
    ASSUME HandlerInv, HandlerExit
    PROVE  HandlerInv'
<1> DEFINE named == {i \in 1 .. depth : frames[i].cap = scopes[inner].hcap}
           popped == [scopes[inner] EXCEPT !.phase = "popped"]
<1> Steady /\ inner > 0 /\ scopes[inner].owner = top
  BY DEF HandlerExit
<1>1. /\ inner \in Nat /\ inner > 0 /\ depth = inner /\ inner \in 1 .. inner
      /\ scopes[inner] \in Scope /\ scopes[inner].owner = top
      /\ depth \in 1 .. StackMax
  <2>1. inner \in Nat /\ depth = inner /\ inner \in 1 .. inner /\ scopes[inner] \in Scope
    BY Shape
  <2>2. depth \in 0 .. StackMax
    BY DEF HandlerInv, TypeOK
  <2> QED
    BY <2>1, <2>2, HandlerAssumption
<1>2. inner \in named /\ named \subseteq 1 .. inner
  <2>1. frames[inner] = [effect |-> scopes[inner].effect, cap |-> scopes[inner].hcap,
                         evidence |-> scopes[inner].ev]
    BY <1>1 DEF HandlerInv, FramesAreScopes
  <2>2. frames[inner].cap = scopes[inner].hcap
    BY <2>1
  <2> QED
    BY <1>1, <2>2
<1>3. named # {} /\ Greatest(named) = depth
  BY <1>1, <1>2, GreatestOfTop
<1>4. /\ frames' = Unwound(depth) /\ depth' = depth - 1 /\ trap' = trap
      /\ scopes' = [scopes EXCEPT ![inner] = popped]
      /\ UNCHANGED <<nextCap, calls, live, clauses, pushes>>
  BY <1>3 DEF HandlerExit
<1>5. /\ popped \in Scope /\ popped.phase = "popped" /\ popped.owner = scopes[inner].owner
      /\ popped.ev = scopes[inner].ev
  BY <1>1, Popped
<1>6. /\ scopes' \in Seq(Scope) /\ inner' = inner
      /\ \A k \in 1 .. inner : scopes'[k] = IF k = inner THEN popped ELSE scopes[k]
  BY <1>1, <1>4, <1>5, ExceptSeq DEF HandlerInv, TypeOK, inner
<1> HIDE DEF popped, named
<1>7. \A i \in 1 .. StackMax :
          /\ i < depth => frames'[i] = frames[i]
          /\ i >= depth => /\ frames'[i].evidence = Null /\ frames'[i].cap = 0
                           /\ frames'[i].effect = frames[i].effect
          /\ frames'[i] \in Frame
  <2> SUFFICES ASSUME NEW i \in 1 .. StackMax
               PROVE  /\ i < depth => frames'[i] = frames[i]
                      /\ i >= depth => /\ frames'[i].evidence = Null /\ frames'[i].cap = 0
                                       /\ frames'[i].effect = frames[i].effect
                      /\ frames'[i] \in Frame
    OBVIOUS
  <2>1. frames[i] \in Frame
    BY DEF HandlerInv, TypeOK
  <2>4. frames'[i] = IF i \in depth .. depth THEN [frames[i] EXCEPT !.evidence = Null, !.cap = 0]
                     ELSE frames[i]
    BY <1>4 DEF Unwound
  <2>5. i \in depth .. depth <=> i = depth
    BY <1>1
  <2>2. CASE i = depth
    <3>1. frames'[i] = [frames[i] EXCEPT !.evidence = Null, !.cap = 0]
      BY <2>2, <2>4, <2>5
    <3>2. /\ frames'[i] = [effect |-> frames[i].effect, cap |-> 0, evidence |-> Null]
          /\ frames[i].effect \in Effect \cup {Null}
      BY <2>1, <3>1 DEF Frame
    <3> QED
      BY <1>1, <2>2, <3>2 DEF Frame
  <2>3. CASE i # depth
    <3>1. frames'[i] = frames[i]
      BY <2>3, <2>4, <2>5
    <3> QED
      BY <1>1, <2>1, <2>3, <3>1 DEF HandlerInv, NoStaleEvidence
  <2> QED
    BY <2>2, <2>3
<1>8. TypeOK'
  <2>1. frames' \in [1 .. StackMax -> Frame]
    BY <1>4, <1>7 DEF Unwound
  <2> QED
    BY <1>1, <1>4, <1>6, <2>1, HandlerAssumption DEF HandlerInv, TypeOK
<1>9. ~Steady' /\ Settled' = inner - 1 /\ top' = top
  BY <1>1, <1>4, <1>5, <1>6 DEF Steady, Settled, top
<1>10. ScopesNested'
  BY <1>1, <1>5, <1>6, <1>9 DEF HandlerInv, ScopesNested
<1>11. FramesAreScopes'
  <2>1. \A i \in 1 .. depth - 1 : i \in 1 .. depth /\ i \in 1 .. StackMax /\ i < depth
    BY <1>1, HandlerAssumption
  <2>2. \A i \in 1 .. depth - 1 : frames'[i] = frames[i] /\ scopes'[i] = scopes[i]
    BY <1>1, <1>6, <1>7, <2>1
  <2> QED
    BY <1>1, <1>4, <1>9, <2>1, <2>2 DEF HandlerInv, FramesAreScopes
<1>12. EvidenceOwned'
  BY <1>1, <1>4, <1>5, <1>6 DEF HandlerInv, EvidenceOwned
<1>13. NoStaleEvidence'
  BY <1>1, <1>4, <1>7 DEF HandlerInv, NoStaleEvidence
<1> QED
  BY <1>8, <1>10, <1>11, <1>12, <1>13 DEF HandlerInv

LEMMA RegionExitInv ==
    ASSUME HandlerInv, RegionExit
    PROVE  HandlerInv'
<1> ~Steady
  BY DEF RegionExit, Steady
<1>1. /\ inner \in Nat /\ inner > 0 /\ depth = inner - 1 /\ inner \in 1 .. inner
      /\ scopes[inner].owner = top
  BY Shape DEF HandlerInv, ScopesNested
<1>2. /\ scopes' = SubSeq(scopes, 1, inner - 1) /\ live' = live \ {scopes[inner].ev}
      /\ clauses' = [clauses EXCEPT ![scopes[inner].ev] = NoTable] /\ NoTable \in Table
      /\ UNCHANGED <<frames, depth, nextCap, calls, pushes, trap>>
  BY DEF RegionExit, NoTable, Table
<1>3. /\ scopes' \in Seq(Scope) /\ inner' = inner - 1
      /\ \A k \in 1 .. inner - 1 : scopes'[k] = scopes[k]
  BY <1>1, <1>2, Front DEF HandlerInv, TypeOK, inner
<1>4. TypeOK'
  BY <1>2, <1>3 DEF HandlerInv, TypeOK
<1>5. top' = top /\ Steady' /\ Settled' = inner - 1
  BY <1>1, <1>2, <1>3 DEF HandlerInv, ScopesNested, top, Steady, Settled
<1>6. ScopesNested'
  <2>1. \A k \in 1 .. inner - 1 : k \in 1 .. inner /\ scopes'[k] = scopes[k]
    BY <1>1, <1>3
  <2>2. \A k \in 1 .. inner' : scopes'[k].owner \in 1 .. top'
    BY <1>3, <1>5, <2>1 DEF HandlerInv, ScopesNested
  <2>3. \A j, k \in 1 .. inner' : j < k => /\ scopes'[j].phase = "active"
                                          /\ scopes'[j].owner <= scopes'[k].owner
    BY <1>3, <2>1 DEF HandlerInv, ScopesNested
  <2> QED
    BY <1>5, <2>2, <2>3 DEF ScopesNested
<1>7. FramesAreScopes'
  BY <1>1, <1>2, <1>3, <1>5 DEF HandlerInv, FramesAreScopes
<1>8. EvidenceOwned'
  BY <1>1, <1>2, <1>3 DEF HandlerInv, EvidenceOwned
<1>9. NoStaleEvidence'
  <2>1. \A i \in 1 .. depth : /\ frames[i].evidence = scopes[i].ev
                              /\ scopes[i].ev \in live /\ scopes[i].ev # scopes[inner].ev
    <3> TAKE i \in 1 .. depth
    <3>1. i \in 1 .. inner /\ i # inner
      BY <1>1
    <3>2. scopes[i].ev \in live /\ scopes[i].ev # scopes[inner].ev
      BY <1>1, <3>1 DEF HandlerInv, EvidenceOwned
    <3>3. frames[i] = [effect |-> scopes[i].effect, cap |-> scopes[i].hcap,
                       evidence |-> scopes[i].ev]
      BY DEF HandlerInv, FramesAreScopes
    <3> QED
      BY <3>2, <3>3
  <2>2. depth \in 0 .. StackMax
    BY DEF HandlerInv, TypeOK
  <2> QED
    BY <1>1, <1>2, <2>1, <2>2 DEF HandlerInv, NoStaleEvidence
<1> QED
  BY <1>4, <1>6, <1>7, <1>8, <1>9 DEF HandlerInv

(* A call or a dispatch: one more C call, and the handler stack is as it was. *)
LEMMA CallInv ==
    ASSUME HandlerInv, Steady, top > 0, NEW call \in Call, calls' = Append(calls, call),
           UNCHANGED <<frames, depth, nextCap, scopes, live, clauses, pushes, trap>>
    PROVE  HandlerInv'
<1>1. /\ calls' \in Seq(Call) /\ top' = top + 1 /\ top \in Nat
  BY Extended, Shape DEF HandlerInv, TypeOK, top
<1>2. TypeOK'
  BY <1>1 DEF HandlerInv, TypeOK
<1>3. inner' = inner /\ Steady' /\ Settled' = Settled
  BY DEF inner, Steady, Settled
<1>4. ScopesNested'
  BY <1>1, <1>3 DEF HandlerInv, ScopesNested
<1> QED
  BY <1>2, <1>3, <1>4 DEF HandlerInv, FramesAreScopes, EvidenceOwned, NoStaleEvidence

LEMMA ReturnInv ==
    ASSUME HandlerInv, Return
    PROVE  HandlerInv'
<1>1. /\ top \in Nat /\ top > 0 /\ inner \in Nat
  BY Shape DEF Return, Running
<1>2. /\ calls' = SubSeq(calls, 1, top - 1)
      /\ \A k \in 1 .. inner : scopes[k].owner # top
      /\ UNCHANGED <<frames, depth, nextCap, scopes, live, clauses, pushes, trap>>
  BY DEF Return
<1>3. /\ calls' \in Seq(Call) /\ top' = top - 1
  BY <1>1, <1>2, Front DEF HandlerInv, TypeOK, top
<1>4. TypeOK'
  BY <1>2, <1>3 DEF HandlerInv, TypeOK
<1>5. inner' = inner /\ Steady /\ Steady' /\ Settled' = Settled
  BY <1>1, <1>2, Shape DEF HandlerInv, ScopesNested, inner, Steady, Settled
<1>6. \A k \in 1 .. inner : scopes[k].owner \in 1 .. top - 1
  BY <1>1, <1>2 DEF HandlerInv, ScopesNested
<1>7. ScopesNested'
  BY <1>2, <1>3, <1>5, <1>6 DEF HandlerInv, ScopesNested
<1> QED
  BY <1>2, <1>4, <1>5, <1>7 DEF HandlerInv, FramesAreScopes, EvidenceOwned, NoStaleEvidence

(* The frame a lookup finds has evidence of an open handle, so its clauses. *)
LEMMA FoundEvidence ==
    ASSUME HandlerInv, NEW e, NEW cap, Matching(e, cap) # {}
    PROVE  \E k \in 1 .. inner : /\ k = Greatest(Matching(e, cap))
                                 /\ frames[k].evidence = scopes[k].ev
                                 /\ scopes[k] \in Scope /\ scopes[k].ev \in Evid
                                 /\ scopes[k].effect = e
<1> DEFINE k == Greatest(Matching(e, cap))
<1>1. depth \in Nat /\ inner \in Nat /\ depth <= inner /\ Matching(e, cap) \subseteq 1 .. depth
  BY Shape DEF Matching
<1>2. k \in Matching(e, cap)
  BY <1>1, GreatestExists
<1> HIDE DEF k
<1>3. k \in 1 .. inner /\ k \in 1 .. depth /\ frames[k].effect = e
  BY <1>1, <1>2 DEF Matching
<1>4. frames[k] = [effect |-> scopes[k].effect, cap |-> scopes[k].hcap, evidence |-> scopes[k].ev]
  BY <1>3 DEF HandlerInv, FramesAreScopes
<1>5. scopes[k] \in Scope /\ scopes[k].ev \in Evid
  BY <1>3, Shape DEF Scope
<1> QED
  BY <1>3, <1>4, <1>5 DEF k

(* The call that runs a clause of open handle k.                            *)
ClauseCall(k) ==
    [row |-> clauses[scopes[k].ev].row, bare |-> {}, answers |-> scopes[k].ev]

LEMMA ClauseCallTyped ==
    ASSUME HandlerInv, NEW k \in 1 .. inner
    PROVE  ClauseCall(k) \in Call
<1>1. scopes[k].ev \in Evid
  BY Shape DEF Scope
<1>2. clauses[scopes[k].ev] \in Table
  BY <1>1 DEF HandlerInv, TypeOK
<1> QED
  BY <1>1, <1>2 DEF ClauseCall, Call, Table

(* What a perform changes: nothing, the trap, or one more C call.           *)
LEMMA PerformCases ==
    ASSUME HandlerInv, NEW o \in Op, Perform(o)
    PROVE  LET e == EffectOf[o]
               found == Matching(e, PassedCap(e))
           IN  /\ Steady /\ top > 0 /\ trap = NoTrap /\ e \in Effect /\ e \in Performable
               /\ UNCHANGED <<frames, depth, nextCap, scopes, live, clauses, pushes>>
               /\ \/ UNCHANGED <<calls, trap>>
                  \/ /\ calls' = calls /\ found = {} /\ trap' \in Trap
                     /\ \/ PassedCap(e) # 0
                        \/ /\ o \notin Builtin
                           /\ trap' = [what |-> "effect performed with no handler in scope",
                                       op |-> o]
                  \/ /\ calls' = calls /\ found # {}
                     /\ trap' = [what |-> "handler has no clause for this operation", op |-> o]
                     /\ o \notin clauses[scopes[Greatest(found)].ev].ops
                  \/ /\ trap' = trap
                     /\ \E k \in 1 .. inner : calls' = Append(calls, ClauseCall(k))
<1> DEFINE e == EffectOf[o]
           found == Matching(e, PassedCap(e))
           evidence == frames[Greatest(found)].evidence
<1>1. /\ Steady /\ top > 0 /\ trap = NoTrap /\ e \in Performable
      /\ UNCHANGED <<frames, depth, nextCap, scopes, live, clauses, pushes>>
  BY DEF Perform, Running
<1>4. e \in Effect
  BY HandlerAssumption
<1>2. CASE found = {}
  <2>1. CASE PassedCap(e) # 0
    <3>1. trap' = [what |-> "scoped handler is no longer in scope", op |-> o] /\ calls' = calls
      BY <1>2, <2>1 DEF Perform
    <3> QED
      BY <1>1, <1>2, <1>4, <2>1, <3>1 DEF Trap
  <2>2. CASE PassedCap(e) = 0 /\ o \in Builtin
    BY <1>1, <1>2, <1>4, <2>2 DEF Perform
  <2>3. CASE PassedCap(e) = 0 /\ o \notin Builtin
    <3>1. /\ trap' = [what |-> "effect performed with no handler in scope", op |-> o]
          /\ calls' = calls
      BY <1>2, <2>3 DEF Perform
    <3> QED
      BY <1>1, <1>2, <1>4, <2>3, <3>1 DEF Trap
  <2> QED
    BY <2>1, <2>2, <2>3
<1>3. CASE found # {}
  <2>1. PICK k \in 1 .. inner : /\ k = Greatest(found)
                                /\ frames[k].evidence = scopes[k].ev /\ scopes[k].ev \in Evid
    BY <1>3, FoundEvidence
  <2>2. evidence = scopes[k].ev /\ evidence # Null
    BY <2>1, HandlerAssumption
  <2> HIDE DEF evidence
  <2>3. CASE o \notin clauses[evidence].ops
    <3>1. /\ trap' = [what |-> "handler has no clause for this operation", op |-> o]
          /\ calls' = calls
      BY <1>3, <2>2, <2>3 DEF Perform, evidence
    <3> QED
      BY <1>1, <1>3, <1>4, <2>1, <2>2, <2>3, <3>1
  <2>4. CASE o \in clauses[evidence].ops
    <3>1. /\ trap' = trap
          /\ calls' = Append(calls, [row |-> clauses[evidence].row, bare |-> {},
                                     answers |-> evidence])
      BY <1>3, <2>2, <2>4 DEF Perform, evidence
    <3>2. calls' = Append(calls, ClauseCall(k))
      BY <2>2, <3>1 DEF ClauseCall
    <3> QED
      BY <1>1, <1>4, <3>1, <3>2
  <2> QED
    BY <2>3, <2>4
<1> QED
  BY <1>2, <1>3

LEMMA PerformInv ==
    ASSUME HandlerInv, NEW o \in Op, Perform(o)
    PROVE  HandlerInv'
<1>1. /\ Steady /\ top > 0
      /\ UNCHANGED <<frames, depth, nextCap, scopes, live, clauses, pushes>>
  BY PerformCases
<1>2. CASE calls' = calls /\ trap' \in Trap
  <2>1. UNCHANGED <<top, inner, Steady, Settled>>
    BY <1>1, <1>2 DEF top, inner, Steady, Settled
  <2> QED
    BY <1>1, <1>2, <2>1 DEF HandlerInv, TypeOK, ScopesNested, FramesAreScopes, EvidenceOwned,
                            NoStaleEvidence
<1>3. CASE trap' = trap /\ \E k \in 1 .. inner : calls' = Append(calls, ClauseCall(k))
  <2>1. PICK k \in 1 .. inner : calls' = Append(calls, ClauseCall(k))
    BY <1>3
  <2> QED
    BY <1>1, <1>3, <2>1, ClauseCallTyped, CallInv
<1>4. trap \in Trap
  BY DEF HandlerInv, TypeOK
<1>5. [what |-> "handler has no clause for this operation", op |-> o] \in Trap
  BY DEF Trap
<1> QED
  BY <1>2, <1>3, <1>4, <1>5, PerformCases

LEMMA StutterInv ==
    ASSUME HandlerInv, UNCHANGED vars
    PROVE  HandlerInv'
<1>1. UNCHANGED <<top, inner, Steady, Settled>>
  BY DEF vars, top, inner, Steady, Settled
<1> QED
  BY <1>1 DEF vars, HandlerInv, TypeOK, ScopesNested, FramesAreScopes, EvidenceOwned,
              NoStaleEvidence

LEMMA NextInv ==
    ASSUME HandlerInv, [Next]_vars
    PROVE  HandlerInv'
<1>1. ASSUME NEW e \in Effect, NEW ev \in Evid, NEW table \in Table,
             RegionEnter(e, ev, table)
      PROVE  HandlerInv'
  BY <1>1, RegionEnterInv
<1>2. ASSUME NEW row \in SUBSET Effect, CallFunction(row)
      PROVE  HandlerInv'
  <2>1. [row |-> row, bare |-> row \ Performable, answers |-> Null] \in Call
    BY DEF Call
  <2> QED
    BY <1>2, <2>1, CallInv DEF CallFunction, Running
<1>3. ASSUME NEW o \in Op, Perform(o)
      PROVE  HandlerInv'
  BY <1>3, PerformInv
<1> QED
  BY <1>1, <1>2, <1>3, HandlerEnterInv, HandlerExitInv, RegionExitInv, ReturnInv, StutterInv DEF Next

(* At every step, whatever bodies, callees and dispatched clauses did, the  *)
(* runtime's stack is the nesting of the open handles of all C calls.       *)
THEOREM FramesFollowScopes == Spec => []FramesAreScopes
<1>1. Init => HandlerInv
  BY InitHandlerInv
<1>2. HandlerInv /\ [Next]_vars => HandlerInv'
  BY NextInv
<1>3. HandlerInv => FramesAreScopes
  BY DEF HandlerInv
<1> QED
  BY <1>1, <1>2, <1>3, PTL DEF Spec

(* The stack of handlers, the open C calls and their scopes keep their      *)
(* types, and the stack its bound.                                          *)
THEOREM HandlerTypes == Spec => []TypeOK
<1>1. Init => HandlerInv
  BY InitHandlerInv
<1>2. HandlerInv /\ [Next]_vars => HandlerInv'
  BY NextInv
<1>3. HandlerInv => TypeOK
  BY DEF HandlerInv
<1> QED
  BY <1>1, <1>2, <1>3, PTL DEF Spec

(* No entry of the handler array ever holds the address of evidence whose   *)
(* region was closed.                                                       *)
THEOREM EvidenceNeverStale == Spec => []NoStaleEvidence
<1>1. Init => HandlerInv
  BY InitHandlerInv
<1>2. HandlerInv /\ [Next]_vars => HandlerInv'
  BY NextInv
<1>3. HandlerInv => NoStaleEvidence
  BY DEF HandlerInv
<1> QED
  BY <1>1, <1>2, <1>3, PTL DEF Spec

(* The greatest element is the one that no other exceeds.                   *)
LEMMA GreatestIs ==
    ASSUME NEW n \in Nat, NEW S, S \subseteq 1 .. n, NEW k \in S, \A y \in S : y <= k
    PROVE  Greatest(S) = k
<1> DEFINE g == Greatest(S)
<1>1. g \in S /\ \A y \in S : y <= g
  BY GreatestExists
<1> HIDE DEF g
<1>2. g \in 1 .. n /\ k \in 1 .. n /\ g <= k /\ k <= g
  BY <1>1
<1>3. g = k
  BY <1>2
<1> QED
  BY <1>3 DEF g

(* What frames that are on the stack answer, or no frame has to.            *)
Answerable == BareUpTo(top) \cup {scopes[j].effect : j \in 1 .. inner}

LEMMA BareGrows ==
    ASSUME NEW c \in Nat, NEW d \in Nat, c <= d
    PROVE  BareUpTo(c) \subseteq BareUpTo(d)
<1>1. \A i \in 1 .. c : i \in 1 .. d
  OBVIOUS
<1> QED
  BY <1>1 DEF BareUpTo

(* What the running call may perform is what nothing has to answer, or is   *)
(* handled by a frame that is on the stack.                                 *)
LEMMA PerformableHandled ==
    ASSUME HandlerInv, RowsDischarged, Steady, top > 0, NEW e \in Performable
    PROVE  e \in Answerable
<1>1. top \in Nat /\ inner \in Nat /\ top \in 1 .. top
  BY Shape
<1>2. CASE e \in calls[top].row \ BareUpTo(top)
  <2>1. PICK k \in 1 .. inner : scopes[k].effect = e
    BY <1>1, <1>2 DEF RowsDischarged
  <2> QED
    BY <1>1, <2>1 DEF Answerable
<1>3. CASE e \in BareUpTo(top)
  BY <1>3 DEF Answerable
<1>4. CASE OwnActive(e) # {}
  <2>1. PICK k \in 1 .. inner : scopes[k].effect = e
    BY <1>4 DEF OwnActive
  <2> QED
    BY <1>1, <2>1 DEF Answerable
<1> QED
  BY <1>2, <1>3, <1>4 DEF Performable

LEMMA RegionEnterRows ==
    ASSUME HandlerInv, RowsDischarged, NEW e \in Effect, NEW ev \in Evid,
           NEW table \in Table, RegionEnter(e, ev, table)
    PROVE  RowsDischarged'
<1> DEFINE new == [owner |-> top, effect |-> e, hcap |-> 0, ev |-> ev, phase |-> "entered"]
<1>1. top \in Nat /\ inner \in Nat /\ top > 0 /\ Steady
  BY Shape DEF RegionEnter, Running
<1>2. new \in Scope
  BY <1>1, HandlerAssumption DEF Scope, CapId
<1>3. /\ inner' = inner + 1 /\ scopes'[inner + 1] = new
      /\ \A k \in 1 .. inner : scopes'[k] = scopes[k]
  BY <1>2, Extended DEF RegionEnter, HandlerInv, TypeOK, inner
<1>4. /\ calls' = calls /\ top' = top /\ table.row \subseteq Performable \ {e}
      /\ clauses' = [clauses EXCEPT ![ev] = table]
      /\ \A k \in 1 .. inner : scopes[k].ev # ev
  BY DEF RegionEnter, top, HandlerInv, EvidenceOwned
<1>8. \A d : BareUpTo(d)' = BareUpTo(d)
  BY <1>4 DEF BareUpTo
<1>5. \A d \in 1 .. top : \A f \in calls[d].row \ BareUpTo(d) :
         \E k \in 1 .. inner + 1 : scopes'[k].owner < d /\ scopes'[k].effect = f
  <2> SUFFICES ASSUME NEW d \in 1 .. top, NEW f \in calls[d].row \ BareUpTo(d)
               PROVE  \E k \in 1 .. inner + 1 : scopes'[k].owner < d /\ scopes'[k].effect = f
    OBVIOUS
  <2>1. PICK k \in 1 .. inner : scopes[k].owner < d /\ scopes[k].effect = f
    BY DEF RowsDischarged
  <2>2. k \in 1 .. inner + 1 /\ scopes'[k] = scopes[k]
    BY <1>1, <1>3
  <2> QED
    BY <2>1, <2>2
<1>6. \A k \in 1 .. inner : DischargedBelow(k)' = DischargedBelow(k)
  <2> TAKE k \in 1 .. inner
  <2>1. \A j \in 1 .. k - 1 : j \in 1 .. inner /\ scopes'[j] = scopes[j]
    BY <1>1, <1>3
  <2>2. scopes'[k] = scopes[k]
    BY <1>3
  <2> QED
    BY <1>4, <2>1, <2>2 DEF DischargedBelow, BareUpTo
<1>7. \A k \in 1 .. inner : clauses'[scopes'[k].ev].row \subseteq DischargedBelow(k)'
  <2> TAKE k \in 1 .. inner
  <2>1. clauses'[scopes'[k].ev] = clauses[scopes[k].ev]
    BY <1>3, <1>4 DEF HandlerInv, TypeOK
  <2>2. clauses[scopes[k].ev].row \subseteq DischargedBelow(k)
    BY DEF RowsDischarged
  <2> QED
    BY <1>6, <2>1, <2>2
<1>9. \A k : k = inner + 1 => clauses'[scopes'[k].ev].row \subseteq DischargedBelow(k)'
  <2> SUFFICES ASSUME NEW k, k = inner + 1
               PROVE  clauses'[scopes'[k].ev].row \subseteq DischargedBelow(k)'
    OBVIOUS
  <2>1. scopes'[k].owner = top /\ scopes'[k].ev = ev /\ k - 1 = inner
    BY <1>1, <1>3
  <2>2. clauses'[scopes'[k].ev] = table
    BY <1>4, <2>1 DEF HandlerInv, TypeOK
  <2>3. table.row \subseteq Answerable
    BY <1>1, <1>4, PerformableHandled
  <2>4. {scopes'[j].effect : j \in 1 .. inner} = {scopes[j].effect : j \in 1 .. inner}
    BY <1>3
  <2>5. DischargedBelow(k)' = Answerable
    BY <1>4, <2>1, <2>4 DEF DischargedBelow, BareUpTo, Answerable
  <2> QED
    BY <2>2, <2>3, <2>5
<1>10. \A k \in 1 .. inner + 1 : k \in 1 .. inner \/ k = inner + 1
  BY <1>1
<1> QED
  BY <1>3, <1>4, <1>5, <1>7, <1>8, <1>9, <1>10 DEF RowsDischarged

(* The instructions that change neither calls nor what handles discharge.   *)
LEMMA SameRows ==
    ASSUME HandlerInv, RowsDischarged, UNCHANGED <<calls, clauses, inner>>,
           \A k \in 1 .. inner : /\ scopes'[k].owner = scopes[k].owner
                                 /\ scopes'[k].effect = scopes[k].effect
                                 /\ scopes'[k].ev = scopes[k].ev
    PROVE  RowsDischarged'
<1>1. inner \in Nat /\ top' = top
  BY Shape DEF top
<1>2. \A k \in 1 .. inner : DischargedBelow(k)' = DischargedBelow(k)
  <2> TAKE k \in 1 .. inner
  <2>1. \A j \in 1 .. k - 1 : j \in 1 .. inner
    BY <1>1
  <2> QED
    BY <2>1 DEF DischargedBelow, BareUpTo
<1>3. \A d : BareUpTo(d)' = BareUpTo(d)
  BY DEF BareUpTo
<1> QED
  BY <1>1, <1>2, <1>3 DEF RowsDischarged

LEMMA RegionExitRows ==
    ASSUME HandlerInv, RowsDischarged, RegionExit
    PROVE  RowsDischarged'
<1> ~Steady
  BY DEF RegionExit, Steady
<1>1. /\ inner \in Nat /\ inner > 0 /\ inner \in 1 .. inner /\ scopes[inner].owner = top
      /\ top \in Nat
  BY Shape DEF HandlerInv, ScopesNested
<1>2. /\ scopes' = SubSeq(scopes, 1, inner - 1) /\ calls' = calls /\ top' = top
      /\ clauses' = [clauses EXCEPT ![scopes[inner].ev] = NoTable]
  BY DEF RegionExit, top
<1>3. /\ inner' = inner - 1 /\ \A k \in 1 .. inner - 1 : scopes'[k] = scopes[k]
  BY <1>1, <1>2, Front DEF HandlerInv, TypeOK, inner
<1>4. \A d \in 1 .. top : \A f \in calls[d].row \ BareUpTo(d) :
         \E k \in 1 .. inner - 1 : scopes'[k].owner < d /\ scopes'[k].effect = f
  <2> SUFFICES ASSUME NEW d \in 1 .. top, NEW f \in calls[d].row \ BareUpTo(d)
               PROVE  \E k \in 1 .. inner - 1 : scopes'[k].owner < d /\ scopes'[k].effect = f
    OBVIOUS
  <2>1. PICK k \in 1 .. inner : scopes[k].owner < d /\ scopes[k].effect = f
    BY DEF RowsDischarged
  <2>2. k # inner
    BY <1>1, <2>1
  <2>3. k \in 1 .. inner - 1
    BY <1>1, <2>2
  <2> QED
    BY <1>3, <2>1, <2>3
<1>5. \A k \in 1 .. inner - 1 : DischargedBelow(k)' = DischargedBelow(k)
  <2> TAKE k \in 1 .. inner - 1
  <2>1. \A j \in 1 .. k - 1 : j \in 1 .. inner - 1
    BY <1>1
  <2> QED
    BY <1>1, <1>2, <1>3, <2>1 DEF DischargedBelow, BareUpTo
<1>6. \A k \in 1 .. inner - 1 : clauses'[scopes'[k].ev].row \subseteq DischargedBelow(k)'
  <2> TAKE k \in 1 .. inner - 1
  <2>1. k \in 1 .. inner /\ k # inner
    BY <1>1
  <2>2. scopes[k].ev # scopes[inner].ev /\ scopes[k].ev \in Evid
    BY <1>1, <2>1, Shape DEF HandlerInv, EvidenceOwned, Scope
  <2>3. clauses'[scopes'[k].ev] = clauses[scopes[k].ev]
    BY <1>2, <1>3, <2>2 DEF HandlerInv, TypeOK
  <2>4. clauses[scopes[k].ev].row \subseteq DischargedBelow(k)
    BY <2>1 DEF RowsDischarged
  <2> QED
    BY <1>5, <2>3, <2>4
<1>7. \A d : BareUpTo(d)' = BareUpTo(d)
  BY <1>2 DEF BareUpTo
<1> QED
  BY <1>2, <1>3, <1>4, <1>6, <1>7 DEF RowsDischarged

(* A new call's row is answered below it, or by nothing.                    *)
LEMMA CallRows ==
    ASSUME HandlerInv, RowsDischarged, top > 0, NEW call \in Call,
           call.row \subseteq Answerable \cup call.bare,
           calls' = Append(calls, call), UNCHANGED <<scopes, clauses>>
    PROVE  RowsDischarged'
<1>1. /\ top \in Nat /\ inner \in Nat /\ inner' = inner /\ top' = top + 1
      /\ calls'[top + 1] = call /\ \A d \in 1 .. top : calls'[d] = calls[d]
  BY Shape, Extended DEF HandlerInv, TypeOK, top, inner
<1>2. \A d \in 1 .. top : BareUpTo(d)' = BareUpTo(d)
  <2> TAKE d \in 1 .. top
  <2>1. \A c \in 1 .. d : c \in 1 .. top
    BY <1>1
  <2> QED
    BY <1>1, <2>1 DEF BareUpTo
<1>3. \A k \in 1 .. inner : DischargedBelow(k)' = DischargedBelow(k)
  <2> TAKE k \in 1 .. inner
  <2>1. scopes[k].owner \in 1 .. top
    BY DEF HandlerInv, ScopesNested
  <2>2. \A c \in 1 .. scopes[k].owner : c \in 1 .. top
    BY <1>1, <2>1
  <2>3. {calls'[c].bare : c \in 1 .. scopes[k].owner} = {calls[c].bare : c \in 1 .. scopes[k].owner}
    BY <1>1, <2>2
  <2> QED
    BY <2>3 DEF DischargedBelow, BareUpTo
<1>4. \A d \in 1 .. top' : \A f \in calls'[d].row \ BareUpTo(d)' :
         \E k \in 1 .. inner : scopes[k].owner < d /\ scopes[k].effect = f
  <2> SUFFICES ASSUME NEW d \in 1 .. top', NEW f \in calls'[d].row \ BareUpTo(d)'
               PROVE  \E k \in 1 .. inner : scopes[k].owner < d /\ scopes[k].effect = f
    OBVIOUS
  <2>1. CASE d = top + 1
    <3>1. f \in call.row
      BY <1>1, <2>1
    <3>2. \A c \in 1 .. d : f \notin calls'[c].bare
      BY DEF BareUpTo
    <3>3. f \notin call.bare /\ f \notin BareUpTo(top)
      <4>1. d \in 1 .. d /\ \A c \in 1 .. top : c \in 1 .. d
        BY <1>1, <2>1
      <4> QED
        BY <1>1, <2>1, <3>2, <4>1 DEF BareUpTo
    <3>4. PICK k \in 1 .. inner : scopes[k].effect = f
      BY <3>1, <3>3 DEF Answerable
    <3>5. scopes[k].owner < d
      BY <1>1, <2>1 DEF HandlerInv, ScopesNested
    <3> QED
      BY <3>4, <3>5
  <2>2. CASE d # top + 1
    <3>1. d \in 1 .. top
      BY <1>1, <2>2
    <3>2. f \in calls[d].row \ BareUpTo(d)
      BY <1>1, <1>2, <3>1
    <3> QED
      BY <3>1, <3>2 DEF RowsDischarged
  <2> QED
    BY <2>1, <2>2
<1>5. \A k \in 1 .. inner : clauses'[scopes'[k].ev].row \subseteq DischargedBelow(k)'
  <2> TAKE k \in 1 .. inner
  <2>1. clauses[scopes[k].ev].row \subseteq DischargedBelow(k)
    BY DEF RowsDischarged
  <2> QED
    BY <1>3, <2>1
<1>6. \A d \in 1 .. top' : \A f \in calls'[d].row \ BareUpTo(d)' :
         \E k \in 1 .. inner' : scopes'[k].owner < d /\ scopes'[k].effect = f
  <2> SUFFICES ASSUME NEW d \in 1 .. top', NEW f \in calls'[d].row \ BareUpTo(d)'
               PROVE  \E k \in 1 .. inner' : scopes'[k].owner < d /\ scopes'[k].effect = f
    OBVIOUS
  <2>1. PICK k \in 1 .. inner : scopes[k].owner < d /\ scopes[k].effect = f
    BY <1>4
  <2>2. k \in 1 .. inner' /\ scopes' = scopes
    BY <1>1
  <2> QED
    BY <2>1, <2>2
<1>7. \A k \in 1 .. inner' : clauses'[scopes'[k].ev].row \subseteq DischargedBelow(k)'
  BY <1>1, <1>5
<1> QED
  BY <1>6, <1>7 DEF RowsDischarged

LEMMA PerformRows ==
    ASSUME HandlerInv, RowsDischarged, NEW o \in Op, Perform(o)
    PROVE  RowsDischarged'
<1>1. /\ Steady /\ top > 0 /\ top \in Nat /\ inner \in Nat
      /\ UNCHANGED <<frames, depth, nextCap, scopes, live, clauses, pushes>>
  BY PerformCases, Shape
<1>2. CASE calls' = calls
  BY <1>1, <1>2, SameRows DEF inner
<1>3. ASSUME NEW k \in 1 .. inner, calls' = Append(calls, ClauseCall(k))
      PROVE  RowsDischarged'
  <2>1. ClauseCall(k) \in Call
    BY ClauseCallTyped
  <2>2. ClauseCall(k).row \subseteq DischargedBelow(k)
    BY DEF RowsDischarged, ClauseCall
  <2>3. BareUpTo(scopes[k].owner) \subseteq BareUpTo(top)
    <3>1. scopes[k].owner \in 1 .. top
      BY DEF HandlerInv, ScopesNested
    <3>2. scopes[k].owner \in Nat /\ scopes[k].owner <= top
      BY <1>1, <3>1
    <3> QED
      BY <1>1, <3>2, BareGrows
  <2>4. \A j \in 1 .. k - 1 : j \in 1 .. inner
    BY <1>1
  <2>5. DischargedBelow(k) \subseteq Answerable
    BY <2>3, <2>4 DEF DischargedBelow, Answerable
  <2> QED
    BY <1>1, <1>3, <2>1, <2>2, <2>5, CallRows
<1> QED
  BY <1>2, <1>3, PerformCases

LEMMA ReturnRows ==
    ASSUME HandlerInv, RowsDischarged, Return
    PROVE  RowsDischarged'
<1>1. /\ top \in Nat /\ top > 0 /\ inner \in Nat
  BY Shape DEF Return, Running
<1>2. /\ calls' = SubSeq(calls, 1, top - 1)
      /\ \A k \in 1 .. inner : scopes[k].owner # top
      /\ UNCHANGED <<scopes, clauses>> /\ inner' = inner
  BY DEF Return, inner
<1>3. /\ top' = top - 1 /\ \A d \in 1 .. top - 1 : calls'[d] = calls[d]
  BY <1>1, <1>2, Front DEF HandlerInv, TypeOK, top
<1>4. \A d \in 1 .. top - 1 : d \in 1 .. top /\ BareUpTo(d)' = BareUpTo(d)
  <2> TAKE d \in 1 .. top - 1
  <2>1. \A c \in 1 .. d : c \in 1 .. top - 1
    BY <1>1
  <2> QED
    BY <1>1, <1>3, <2>1 DEF BareUpTo
<1>5. \A k \in 1 .. inner : DischargedBelow(k)' = DischargedBelow(k)
  <2> TAKE k \in 1 .. inner
  <2>1. scopes[k].owner \in 1 .. top /\ scopes[k].owner # top
    BY <1>2 DEF HandlerInv, ScopesNested
  <2>2. \A c \in 1 .. scopes[k].owner : c \in 1 .. top - 1
    BY <1>1, <2>1
  <2> QED
    BY <1>2, <1>3, <2>2 DEF DischargedBelow, BareUpTo
<1> QED
  BY <1>2, <1>3, <1>4, <1>5 DEF RowsDischarged

LEMMA NextRows ==
    ASSUME HandlerInv, RowsDischarged, [Next]_vars
    PROVE  RowsDischarged'
<1>1. CASE HandlerEnter
  <2>4. inner \in Nat /\ inner > 0
    BY <1>1, Shape DEF HandlerEnter
  <2>1. inner \in 1 .. inner
    BY <2>4
  <2>2. CASE depth >= StackMax
    BY <1>1, <2>2, SameRows DEF HandlerEnter, inner
  <2>3. CASE ~(depth >= StackMax)
    <3>1. scopes' = [scopes EXCEPT ![inner] = [scopes[inner] EXCEPT !.hcap = FreshId,
                                                                    !.phase = "active"]]
      BY <1>1, <2>3 DEF HandlerEnter
    <3>2. FreshId \in CapId /\ scopes[inner] \in Scope
      BY <2>1, Ids, Shape, HandlerAssumption DEF HandlerInv, CapId
    <3> DEFINE entered == [scopes[inner] EXCEPT !.hcap = FreshId, !.phase = "active"]
    <3>4. /\ entered \in Scope /\ entered.owner = scopes[inner].owner
          /\ entered.effect = scopes[inner].effect /\ entered.ev = scopes[inner].ev
      BY <3>2, Activated
    <3>5. scopes' = [scopes EXCEPT ![inner] = entered]
      BY <3>1
    <3> HIDE DEF entered
    <3>6. inner' = inner /\ \A k \in 1 .. inner : scopes'[k] = IF k = inner THEN entered ELSE scopes[k]
      BY <2>1, <3>4, <3>5, ExceptSeq DEF HandlerInv, TypeOK, inner
    <3>3. inner' = inner /\ \A k \in 1 .. inner : /\ scopes'[k].owner = scopes[k].owner
                                                  /\ scopes'[k].effect = scopes[k].effect
                                                  /\ scopes'[k].ev = scopes[k].ev
      BY <3>4, <3>6
    <3> QED
      BY <1>1, <3>3, SameRows DEF HandlerEnter
  <2> QED
    BY <2>2, <2>3
<1>2. CASE HandlerExit
  <2>4. inner \in Nat /\ inner > 0
    BY <1>2, Shape DEF HandlerExit
  <2>5. inner \in 1 .. inner
    BY <2>4
  <2>1. inner \in 1 .. inner /\ scopes[inner] \in Scope
    BY <2>5, Shape
  <2> DEFINE popped == [scopes[inner] EXCEPT !.phase = "popped"]
  <2>2. scopes' = [scopes EXCEPT ![inner] = popped]
    BY <1>2 DEF HandlerExit
  <2>6. /\ popped \in Scope /\ popped.owner = scopes[inner].owner
        /\ popped.effect = scopes[inner].effect /\ popped.ev = scopes[inner].ev
    BY <2>1, Popped
  <2> HIDE DEF popped
  <2>7. inner' = inner /\ \A k \in 1 .. inner : scopes'[k] = IF k = inner THEN popped ELSE scopes[k]
    BY <2>1, <2>2, <2>6, ExceptSeq DEF HandlerInv, TypeOK, inner
  <2>3. inner' = inner /\ \A k \in 1 .. inner : /\ scopes'[k].owner = scopes[k].owner
                                                /\ scopes'[k].effect = scopes[k].effect
                                                /\ scopes'[k].ev = scopes[k].ev
    BY <2>6, <2>7
  <2> QED
    BY <1>2, <2>3, SameRows DEF HandlerExit
<1>3. ASSUME NEW row \in SUBSET Effect, CallFunction(row)
      PROVE  RowsDischarged'
  <2> DEFINE call == [row |-> row, bare |-> row \ Performable, answers |-> Null]
  <2>1. call \in Call
    BY DEF Call
  <2>2. /\ Steady /\ top > 0 /\ calls' = Append(calls, call) /\ UNCHANGED <<scopes, clauses>>
    BY <1>3 DEF CallFunction, Running
  <2>3. \A e \in Performable : e \in Answerable
    BY <2>2, PerformableHandled
  <2>4. call.row \subseteq Answerable \cup call.bare
    BY <2>3
  <2> QED
    BY <2>1, <2>2, <2>4, CallRows
<1>4. CASE UNCHANGED vars
  BY <1>4, SameRows DEF vars, inner
<1>5. ASSUME NEW e \in Effect, NEW ev \in Evid, NEW table \in Table,
             RegionEnter(e, ev, table)
      PROVE  RowsDischarged'
  BY <1>5, RegionEnterRows
<1>6. ASSUME NEW o \in Op, Perform(o)
      PROVE  RowsDischarged'
  BY <1>6, PerformRows
<1> QED
  BY <1>1, <1>2, <1>3, <1>4, <1>5, <1>6, RegionExitRows, ReturnRows DEF Next

-----------------------------------------------------------------------------
(* A pop finds the frame of its own function.                               *)
LEMMA PopFindsFrame ==
    ASSUME HandlerInv, HandlerExit
    PROVE  trap' = trap
<1> Steady
  BY DEF HandlerExit
<1>1. inner \in Nat /\ inner > 0 /\ depth = inner
  BY Shape DEF HandlerExit
<1>2. inner \in 1 .. depth
  BY <1>1
<1>3. frames[inner].cap = scopes[inner].hcap
  <2>1. frames[inner] = [effect |-> scopes[inner].effect, cap |-> scopes[inner].hcap,
                         evidence |-> scopes[inner].ev]
    BY <1>2 DEF HandlerInv, FramesAreScopes
  <2> QED
    BY <2>1
<1>4. {i \in 1 .. depth : frames[i].cap = scopes[inner].hcap} # {}
  BY <1>2, <1>3
<1> QED
  BY <1>4 DEF HandlerExit

(* The frames are those of the open handles, field by field.               *)
LEMMA FrameOf ==
    ASSUME HandlerInv, NEW k \in 1 .. depth
    PROVE  /\ frames[k].effect = scopes[k].effect /\ frames[k].cap = scopes[k].hcap
           /\ frames[k].evidence = scopes[k].ev
<1>1. frames[k] = [effect |-> scopes[k].effect, cap |-> scopes[k].hcap, evidence |-> scopes[k].ev]
  BY DEF HandlerInv, FramesAreScopes
<1> QED
  BY <1>1

(* The lookup of a perform ends at the innermost handle of the effect: a    *)
(* handle of the function that performs is nested in all those of others.   *)
LEMMA ReachesInnermost ==
    ASSUME HandlerInv, Steady, NEW e \in Effect
    PROVE  LET found == Matching(e, PassedCap(e))
           IN  /\ found = {} <=> OpenOf(e) = {}
               /\ found # {} => /\ Greatest(found) = Greatest(OpenOf(e))
                               /\ Greatest(found) \in 1 .. depth
<1> DEFINE found == Matching(e, PassedCap(e))
<1>1. /\ inner \in Nat /\ top \in Nat /\ depth = inner /\ Settled = inner
      /\ \A k \in 1 .. inner : scopes[k] \in Scope
  BY Shape DEF Settled, Steady
<1>2. OpenOf(e) = {k \in 1 .. inner : scopes[k].effect = e}
  BY <1>1 DEF OpenOf
<1>3. found = {k \in OpenOf(e) : PassedCap(e) # 0 => scopes[k].hcap = PassedCap(e)}
  BY <1>1, <1>2, FrameOf DEF Matching
<1>4. CASE OwnActive(e) = {}
  <2>1. PassedCap(e) = 0
    BY <1>4 DEF PassedCap
  <2>2. found = OpenOf(e)
    BY <1>3, <2>1
  <2>3. found # {} => Greatest(found) \in 1 .. inner
    BY <1>1, <1>2, <2>2, GreatestExists
  <2> QED
    BY <1>1, <2>2, <2>3
<1>5. CASE OwnActive(e) # {}
  <2> DEFINE k == Greatest(OwnActive(e))
  <2>1. OwnActive(e) \subseteq 1 .. inner
    BY DEF OwnActive
  <2>2. k \in OwnActive(e) /\ \A j \in OwnActive(e) : j <= k
    BY <1>1, <1>5, <2>1, GreatestExists
  <2>3. PassedCap(e) = scopes[k].hcap
    BY <1>5 DEF PassedCap
  <2> HIDE DEF k
  <2>4. k \in 1 .. inner /\ scopes[k].owner = top /\ scopes[k].effect = e
    BY <2>2 DEF OwnActive
  <2>5. \A j \in OpenOf(e) : j <= k
    <3> SUFFICES ASSUME NEW j \in OpenOf(e), ~(j <= k)
                 PROVE  FALSE
      OBVIOUS
    <3>1. j \in 1 .. inner /\ scopes[j].effect = e /\ k < j
      BY <1>1, <1>2, <2>4
    <3>2. scopes[k].owner <= scopes[j].owner /\ scopes[j].owner \in 1 .. top
      BY <2>4, <3>1 DEF HandlerInv, ScopesNested
    <3>3. scopes[j].owner = top
      BY <1>1, <2>4, <3>2
    <3>4. scopes[j].phase = "active"
      BY <1>1, <3>1 DEF HandlerInv, ScopesNested, Steady
    <3>5. j \in OwnActive(e)
      BY <3>1, <3>3, <3>4 DEF OwnActive
    <3> QED
      BY <1>1, <2>2, <2>4, <3>1, <3>5
  <2>6. k \in OpenOf(e) /\ k \in found
    BY <1>2, <1>3, <2>3, <2>4
  <2>7. Greatest(OpenOf(e)) = k
    BY <1>1, <1>2, <2>5, <2>6, GreatestIs
  <2>8. found \subseteq 1 .. inner /\ \A j \in found : j <= k
    BY <1>2, <1>3, <2>5
  <2>9. Greatest(found) = k
    BY <1>1, <2>6, <2>8, GreatestIs
  <2> QED
    BY <1>1, <2>4, <2>6, <2>7, <2>9
<1> QED
  BY <1>4, <1>5

(* A perform finds no frame only for an effect that no frame has to answer. *)
LEMMA NothingMatches ==
    ASSUME HandlerInv, RowsDischarged, Steady, top > 0, NEW e \in Effect, e \in Performable,
           Matching(e, PassedCap(e)) = {}
    PROVE  e \in BareUpTo(top) /\ PassedCap(e) = 0 /\ OpenOf(e) = {}
<1>1. OpenOf(e) = {}
  BY ReachesInnermost
<1>2. Settled = inner /\ \A k \in 1 .. inner : scopes[k].effect # e
  BY <1>1, Shape DEF OpenOf, Settled, Steady
<1>3. OwnActive(e) = {}
  BY <1>2 DEF OwnActive
<1>4. PassedCap(e) = 0
  BY <1>3 DEF PassedCap
<1>5. e \in Answerable
  BY PerformableHandled
<1> QED
  BY <1>1, <1>2, <1>4, <1>5 DEF Answerable

LEMMA PerformLost ==
    ASSUME HandlerInv, RowsDischarged, LostOnlyWhereUnanswered, NEW o \in Op, Perform(o)
    PROVE  LostOnlyWhereUnanswered'
<1> DEFINE e == EffectOf[o]
           found == Matching(e, PassedCap(e))
<1>1. /\ Steady /\ top > 0 /\ trap = NoTrap /\ e \in Effect /\ e \in Performable
      /\ scopes' = scopes /\ clauses' = clauses
  BY PerformCases
<1>2. /\ Settled' = Settled /\ \A f : OpenOf(f)' = OpenOf(f)
  BY <1>1 DEF OpenOf, Settled, inner
<1>3. CASE trap' = trap
  BY <1>1, <1>3 DEF LostOnlyWhereUnanswered, NoTrap
<1>4. CASE /\ calls' = calls /\ found = {}
           /\ \/ PassedCap(e) # 0
              \/ /\ o \notin Builtin
                 /\ trap' = [what |-> "effect performed with no handler in scope", op |-> o]
  <2>1. e \in BareUpTo(top) /\ PassedCap(e) = 0 /\ OpenOf(e) = {}
    BY <1>1, <1>4, NothingMatches
  <2>2. BareUpTo(top)' = BareUpTo(top)
    BY <1>4 DEF BareUpTo, top
  <2>3. trap' = [what |-> "effect performed with no handler in scope", op |-> o]
        /\ o \notin Builtin
    BY <1>4, <2>1
  <2>4. trap'.what = "effect performed with no handler in scope" /\ trap'.op = o
    BY <2>3
  <2>5. OpenOf(EffectOf[trap.op])' = {}
    BY <1>2, <2>1, <2>4 DEF OpenOf
  <2> QED
    BY <2>1, <2>2, <2>3, <2>4, <2>5 DEF LostOnlyWhereUnanswered
<1>5. CASE /\ calls' = calls /\ found # {}
           /\ trap' = [what |-> "handler has no clause for this operation", op |-> o]
           /\ o \notin clauses[scopes[Greatest(found)].ev].ops
  <2>1. OpenOf(e) # {} /\ Greatest(found) = Greatest(OpenOf(e))
    BY <1>1, <1>5, ReachesInnermost
  <2>2. trap'.what = "handler has no clause for this operation" /\ trap'.op = o
    BY <1>5
  <2>3. OpenOf(EffectOf[trap.op])' = OpenOf(e)
    BY <1>2, <2>2 DEF OpenOf
  <2> QED
    BY <1>1, <1>5, <2>1, <2>2, <2>3 DEF LostOnlyWhereUnanswered
<1> QED
  BY <1>3, <1>4, <1>5, PerformCases

LEMMA NextLost ==
    ASSUME HandlerInv, RowsDischarged, LostOnlyWhereUnanswered, [Next]_vars
    PROVE  LostOnlyWhereUnanswered'
<1>1. CASE trap' = NoTrap \/ trap' = [what |-> "handler stack overflow", op |-> Null]
  <2>1. CASE trap' = NoTrap
    <3>1. trap'.what = "none"
      BY <2>1 DEF NoTrap
    <3> QED
      BY <3>1 DEF LostOnlyWhereUnanswered
  <2>2. CASE trap' = [what |-> "handler stack overflow", op |-> Null]
    <3>1. trap'.what = "handler stack overflow"
      BY <2>2
    <3> QED
      BY <3>1 DEF LostOnlyWhereUnanswered
  <2> QED
    BY <1>1, <2>1, <2>2
<1>2. CASE UNCHANGED vars
  <2>1. UNCHANGED <<trap, clauses, scopes, calls>>
    BY <1>2 DEF vars
  <2> QED
    BY <2>1 DEF LostOnlyWhereUnanswered, OpenOf, Settled, inner, BareUpTo, top
<1>3. ASSUME NEW o \in Op, Perform(o)
      PROVE  LostOnlyWhereUnanswered'
  BY <1>3, PerformLost
<1>4. CASE HandlerEnter
  BY <1>1, <1>4 DEF HandlerEnter, Running
<1>5. CASE HandlerExit
  BY <1>1, <1>5, PopFindsFrame DEF HandlerExit, Running
<1>6. CASE RegionExit
  BY <1>1, <1>6 DEF RegionExit, Running
<1>7. CASE Return
  BY <1>1, <1>7 DEF Return, Running
<1>8. ASSUME NEW e \in Effect, NEW ev \in Evid, NEW table \in Table,
             RegionEnter(e, ev, table)
      PROVE  LostOnlyWhereUnanswered'
  BY <1>1, <1>8 DEF RegionEnter, Running
<1>9. ASSUME NEW row \in SUBSET Effect, CallFunction(row)
      PROVE  LostOnlyWhereUnanswered'
  BY <1>1, <1>9 DEF CallFunction, Running
<1> QED
  BY <1>2, <1>3, <1>4, <1>5, <1>6, <1>7, <1>8, <1>9 DEF Next

(* Whatever calls, clauses and handlers a typed program nests, a pop finds  *)
(* its frame, and a perform stops the program only where no frame has to    *)
(* answer its effect, or the innermost one of it lacks the clause.          *)
THEOREM OnlyUnansweredEffectsAreLost == Spec => []LostOnlyWhereUnanswered
<1> DEFINE I == HandlerInv /\ RowsDischarged /\ LostOnlyWhereUnanswered
<1>1. Init => I
  <2>1. Init => trap.what = "none"
    BY DEF Init, NoTrap
  <2> QED
    BY <2>1, InitHandlerInv DEF LostOnlyWhereUnanswered
<1>2. I /\ [Next]_vars => I'
  BY NextInv, NextRows, NextLost
<1>3. I => LostOnlyWhereUnanswered
  OBVIOUS
<1> QED
  BY <1>1, <1>2, <1>3, PTL DEF Spec

-----------------------------------------------------------------------------
(* While no more handles are entered than there are ids, no id comes twice. *)

LEMMA SameIds ==
    ASSUME IdsFresh, inner \in Nat, UNCHANGED <<inner, Installed, nextCap>>,
           \A k \in 1 .. inner : /\ scopes'[k].phase # "entered" => scopes[k].phase # "entered"
                                 /\ scopes'[k].hcap = scopes[k].hcap
    PROVE  IdsFresh'
<1>1. Installed <= MaxId => \A k \in 1 .. inner :
        scopes'[k].phase # "entered" => scopes'[k].hcap \in 1 .. Installed
  BY DEF IdsFresh
<1>2. Installed <= MaxId => \A j, k \in 1 .. inner :
         /\ scopes'[j].phase # "entered" /\ scopes'[k].phase # "entered"
         /\ scopes'[j].hcap = scopes'[k].hcap
         => j = k
  BY DEF IdsFresh
<1>3. Installed' <= MaxId => nextCap' = Installed' + 1 \/ Installed' = MaxId
  BY DEF IdsFresh
<1> QED
  BY <1>1, <1>2, <1>3 DEF IdsFresh

LEMMA RegionEnterIds ==
    ASSUME HandlerInv, IdsFresh, NEW e \in Effect, NEW ev \in Evid,
           NEW table \in Table, RegionEnter(e, ev, table)
    PROVE  IdsFresh'
<1> DEFINE new == [owner |-> top, effect |-> e, hcap |-> 0, ev |-> ev, phase |-> "entered"]
<1>1. top \in Nat /\ inner \in Nat /\ top > 0 /\ Steady /\ pushes \in Nat
  BY Shape DEF RegionEnter, Running, HandlerInv, TypeOK
<1>2. new \in Scope
  BY <1>1, HandlerAssumption DEF Scope, CapId
<1>3. /\ inner' = inner + 1 /\ scopes'[inner + 1] = new
      /\ \A k \in 1 .. inner : scopes'[k] = scopes[k]
  BY <1>1, <1>2, Extended DEF RegionEnter, HandlerInv, TypeOK, inner
<1>4. Installed = pushes /\ nextCap' = nextCap /\ pushes' = pushes + 1
  BY <1>1 DEF RegionEnter, Installed, Steady
<1>5. Installed' = pushes
  BY <1>1, <1>3, <1>4 DEF Installed
<1>6. \A k \in 1 .. inner + 1 : scopes'[k].phase # "entered" =>
         k \in 1 .. inner /\ scopes'[k] = scopes[k]
  BY <1>1, <1>3
<1> QED
  BY <1>1, <1>3, <1>4, <1>5, <1>6 DEF IdsFresh

LEMMA HandlerEnterIds ==
    ASSUME HandlerInv, IdsFresh, HandlerEnter
    PROVE  IdsFresh'
<1>4. /\ inner \in Nat /\ inner > 0 /\ scopes[inner].phase = "entered" /\ pushes' = pushes
  BY Shape DEF HandlerEnter
<1>5. inner \in 1 .. inner
  BY <1>4
<1>6. pushes \in 0 .. MaxPushes
  BY DEF HandlerInv, TypeOK
<1>1. /\ inner \in Nat /\ inner > 0 /\ inner \in 1 .. inner /\ scopes[inner] \in Scope
      /\ scopes[inner].phase = "entered" /\ pushes \in 0 .. MaxPushes
      /\ pushes' = pushes
  BY <1>4, <1>5, <1>6, Shape
<1>2. CASE depth >= StackMax
  <2>1. UNCHANGED <<scopes, nextCap, pushes>>
    BY <1>2 DEF HandlerEnter
  <2> QED
    BY <1>1, <2>1, SameIds DEF Installed, inner
<1>3. CASE ~(depth >= StackMax)
  <2> DEFINE entered == [scopes[inner] EXCEPT !.hcap = FreshId, !.phase = "active"]
  <2>1. scopes' = [scopes EXCEPT ![inner] = entered] /\ nextCap' = NextAfter(FreshId)
    BY <1>3 DEF HandlerEnter
  <2>2. FreshId = nextCap /\ FreshId \in 1 .. MaxId /\ FreshId \in CapId
    BY Ids, HandlerAssumption DEF HandlerInv, CapId
  <2>3. entered \in Scope /\ entered.hcap = nextCap /\ entered.phase = "active"
    BY <1>1, <2>2, Activated
  <2> HIDE DEF entered
  <2>4. inner' = inner /\ \A k \in 1 .. inner : scopes'[k] = IF k = inner THEN entered ELSE scopes[k]
    BY <1>1, <2>1, <2>3, ExceptSeq DEF HandlerInv, TypeOK, inner
  <2>5. Installed' = pushes /\ Installed = pushes - 1 /\ MaxId \in Nat /\ pushes \in Nat
    BY <1>1, <2>3, <2>4, HandlerAssumption DEF Installed
  <2> SUFFICES ASSUME pushes <= MaxId
               PROVE  IdsFresh'
    BY <2>5 DEF IdsFresh
  <2>6. nextCap = pushes /\ nextCap \in 1 .. MaxId
    BY <2>2, <2>5 DEF IdsFresh
  <2>8. nextCap' = pushes + 1 \/ pushes = MaxId
    BY <2>1, <2>2, <2>5, <2>6 DEF NextAfter, Increment
  <2>9. \A k \in 1 .. inner : k # inner => /\ scopes[k].phase # "entered"
                                           /\ scopes[k].hcap \in 1 .. pushes - 1
    <3> SUFFICES ASSUME NEW k \in 1 .. inner, k # inner
                 PROVE  scopes[k].phase # "entered" /\ scopes[k].hcap \in 1 .. pushes - 1
      OBVIOUS
    <3>1. k < inner
      BY <1>1
    <3>2. scopes[k].phase = "active"
      BY <1>1, <3>1 DEF HandlerInv, ScopesNested
    <3> QED
      BY <2>5, <3>2 DEF IdsFresh
  <2>10. \A k \in 1 .. inner : scopes'[k].hcap \in 1 .. pushes
    BY <1>1, <2>3, <2>4, <2>5, <2>6, <2>9
  <2>11. \A j, k \in 1 .. inner : scopes'[j].hcap = scopes'[k].hcap => j = k
    <3> SUFFICES ASSUME NEW j \in 1 .. inner, NEW k \in 1 .. inner,
                        scopes'[j].hcap = scopes'[k].hcap
                 PROVE  j = k
      OBVIOUS
    <3>1. CASE j = inner \/ k = inner
      BY <1>1, <2>3, <2>4, <2>5, <2>6, <2>9, <3>1
    <3>2. CASE j # inner /\ k # inner
      BY <2>4, <2>5, <2>9, <3>2 DEF IdsFresh
    <3> QED
      BY <3>1, <3>2
  <2> QED
    BY <2>4, <2>5, <2>8, <2>10, <2>11 DEF IdsFresh
<1> QED
  BY <1>2, <1>3

LEMMA HandlerExitIds ==
    ASSUME HandlerInv, IdsFresh, HandlerExit
    PROVE  IdsFresh'
<1>4. inner \in Nat /\ inner > 0 /\ Steady
  BY Shape DEF HandlerExit
<1>5. inner \in 1 .. inner
  BY <1>4
<1>1. inner \in 1 .. inner /\ scopes[inner] \in Scope /\ scopes[inner].phase = "active"
  BY <1>4, <1>5, Shape DEF Steady
<1> DEFINE popped == [scopes[inner] EXCEPT !.phase = "popped"]
<1>2. scopes' = [scopes EXCEPT ![inner] = popped] /\ UNCHANGED <<nextCap, pushes>>
  BY DEF HandlerExit
<1>6. popped \in Scope /\ popped.hcap = scopes[inner].hcap /\ popped.phase = "popped"
  BY <1>1, Popped
<1> HIDE DEF popped
<1>7. inner' = inner /\ \A k \in 1 .. inner : scopes'[k] = IF k = inner THEN popped ELSE scopes[k]
  BY <1>1, <1>2, <1>6, ExceptSeq DEF HandlerInv, TypeOK, inner
<1>8. scopes'[inner].phase = "popped"
  BY <1>1, <1>6, <1>7
<1>9. Installed' = Installed
  BY <1>1, <1>2, <1>7, <1>8 DEF Installed
<1> QED
  BY <1>1, <1>2, <1>4, <1>6, <1>7, <1>9, SameIds

LEMMA RegionExitIds ==
    ASSUME HandlerInv, IdsFresh, RegionExit
    PROVE  IdsFresh'
<1>1. inner \in Nat /\ inner > 0 /\ scopes[inner].phase = "popped" /\ inner \in 1 .. inner
  BY Shape DEF RegionExit
<1>2. scopes' = SubSeq(scopes, 1, inner - 1) /\ UNCHANGED <<nextCap, pushes>>
  BY DEF RegionExit
<1>3. /\ inner' = inner - 1 /\ \A k \in 1 .. inner - 1 : scopes'[k] = scopes[k]
  BY <1>1, <1>2, Front DEF HandlerInv, TypeOK, inner
<1>4. \A k \in 1 .. inner - 1 : k \in 1 .. inner /\ scopes[k].phase = "active"
  BY <1>1 DEF HandlerInv, ScopesNested
<1>5. inner - 1 > 0 => inner - 1 \in 1 .. inner - 1
  BY <1>1
<1>6. Installed' = pushes /\ Installed = pushes
  BY <1>1, <1>2, <1>3, <1>4, <1>5 DEF Installed
<1> QED
  BY <1>1, <1>2, <1>3, <1>4, <1>6 DEF IdsFresh

LEMMA NextIds ==
    ASSUME HandlerInv, IdsFresh, [Next]_vars
    PROVE  IdsFresh'
<1> inner \in Nat
  BY Shape
<1>1. CASE UNCHANGED <<scopes, nextCap, pushes>>
  BY <1>1, SameIds DEF Installed, inner
<1>2. ASSUME NEW e \in Effect, NEW ev \in Evid, NEW table \in Table,
             RegionEnter(e, ev, table)
      PROVE  IdsFresh'
  BY <1>2, RegionEnterIds
<1>3. ASSUME NEW row \in SUBSET Effect, CallFunction(row)
      PROVE  IdsFresh'
  BY <1>1, <1>3 DEF CallFunction
<1>4. ASSUME NEW o \in Op, Perform(o)
      PROVE  IdsFresh'
  BY <1>1, <1>4 DEF Perform
<1>5. CASE Return
  BY <1>1, <1>5 DEF Return
<1>6. CASE UNCHANGED vars
  BY <1>1, <1>6 DEF vars
<1> QED
  BY <1>2, <1>3, <1>4, <1>5, <1>6, HandlerEnterIds, HandlerExitIds, RegionExitIds DEF Next

(* With distinct ids, the search for a handle's id ends at its own frame.   *)
LEMMA FreshReachesOwn ==
    ASSUME HandlerInv, IdsFresh, Installed <= MaxId,
           NEW k \in 1 .. inner, scopes[k].phase = "active"
    PROVE  LET found == Matching(scopes[k].effect, scopes[k].hcap)
           IN  found # {} /\ frames[Greatest(found)].evidence = scopes[k].ev
<1> DEFINE found == Matching(scopes[k].effect, scopes[k].hcap)
<1>1. inner \in Nat /\ depth \in Nat /\ depth <= inner /\ k \in 1 .. depth
  BY Shape DEF Steady
<1>3. k \in found
  BY <1>1, FrameOf DEF Matching
<1>4. \A i \in 1 .. depth : i \in 1 .. inner /\ scopes[i].phase # "entered"
  BY <1>1, Shape DEF HandlerInv, ScopesNested, Steady
<1>5. scopes[k].hcap # 0
  <2>1. scopes[k].hcap \in 1 .. Installed
    BY DEF IdsFresh
  <2> QED
    BY <2>1
<1>6. \A i \in found : i = k
  BY <1>1, <1>4, <1>5, FrameOf DEF Matching, IdsFresh
<1>7. Greatest(found) \in found
  BY <1>1, <1>3, GreatestExists DEF Matching
<1> QED
  BY <1>1, <1>3, <1>6, <1>7, FrameOf

LEMMA Reaches ==
    ASSUME HandlerInv, IdsFresh
    PROVE  PerformReachesInnermost
<1>1. ASSUME Steady, NEW e \in Effect
      PROVE  LET found == Matching(e, PassedCap(e))
             IN  /\ found = {} <=> OpenOf(e) = {}
                 /\ found # {} =>
                      frames[Greatest(found)].evidence = scopes[Greatest(OpenOf(e))].ev
  BY <1>1, ReachesInnermost, FrameOf
<1>2. ASSUME Installed <= MaxId, NEW k \in 1 .. inner, scopes[k].phase = "active"
      PROVE  LET found == Matching(scopes[k].effect, scopes[k].hcap)
             IN  found # {} /\ frames[Greatest(found)].evidence = scopes[k].ev
  BY <1>2, FreshReachesOwn
<1> QED
  BY <1>1, <1>2 DEF PerformReachesInnermost

(* The innermost handle of its effect answers a perform, however often the  *)
(* ids have wrapped; and up to 2^32 - 1 handles an id names one handle.     *)
THEOREM InnermostAnswers == Spec => []PerformReachesInnermost
<1> DEFINE I == HandlerInv /\ IdsFresh
<1>1. Init => I
  <2>1. Init => scopes = <<>> /\ nextCap = 1 /\ pushes = 0
    BY DEF Init
  <2>2. scopes = <<>> => inner = 0
    BY DEF inner
  <2> QED
    BY <2>1, <2>2, InitHandlerInv DEF IdsFresh, Installed
<1>2. I /\ [Next]_vars => I'
  BY NextInv, NextIds
<1>3. I => PerformReachesInnermost
  BY Reaches
<1> QED
  BY <1>1, <1>2, <1>3, PTL DEF Spec
====
