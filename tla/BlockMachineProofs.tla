-------------------------- MODULE BlockMachineProofs --------------------------
(***************************************************************************)
(* For every set of programs in blocks and all their runs: the handlers on *)
(* the runtime's stack and the open regions are those that the blocks      *)
(* where the frames stand are inside of.  So the evidence of a handler is  *)
(* alive while the handler can be found, and what the walk over the blocks *)
(* of a region allows is all that happens while its evidence is on the C   *)
(* stack.                                                                  *)
(***************************************************************************)
EXTENDS BlockMachine, RecursionLemmas

-----------------------------------------------------------------------------
(* The walk from the entries of a region, for any blocks.                  *)

LEMMA WiderMembers ==
    ASSUME NEW c, NEW r, NEW S, NEW t
    PROVE  t \in Wider(c, r, S) <=>
              \/ t \in S
              \/ \E b \in S : ~Closes(c.blocks[b], r) /\ t \in Elems(c.blocks[b].term.succ)
BY DEF Wider

(* Its rounds, as a function.                                              *)
LEMMA WalkRounds ==
    ASSUME NEW c, Wired(c), NEW r
    PROVE  \E g \in [Nat -> SUBSET DOMAIN c.blocks] :
              /\ g[0] = Entries(c, r)
              /\ \A n \in Nat : g[n + 1] = Wider(c, r, g[n])
              /\ Reached(c, r) = g[Len(c.blocks)]
<1> DEFINE T == SUBSET DOMAIN c.blocks
           step == [S \in T |-> Wider(c, r, S)]
           f == CHOOSE g : g = [n \in Nat |-> IF n = 0 THEN Entries(c, r)
                                              ELSE Wider(c, r, g[n - 1])]
           D(g) == g = [n \in Nat |-> IF n = 0 THEN Entries(c, r) ELSE Wider(c, r, g[n - 1])]
<1>1. Reached(c, r) = f[Len(c.blocks)]
  BY DEF Reached
<1>2. Entries(c, r) \in T
  BY DEF Entries
<1>3. \A S \in T : Wider(c, r, S) \in T
  <2>1. SUFFICES ASSUME NEW S \in T, NEW t \in Wider(c, r, S) PROVE t \in DOMAIN c.blocks
    OBVIOUS
  <2>2. \A b \in DOMAIN c.blocks : Elems(c.blocks[b].term.succ) \subseteq DOMAIN c.blocks
    BY DEF Wired
  <2> QED
    BY <2>1, <2>2, WiderMembers
<1>4. step \in [T -> T]
  BY <1>3
<1>5. PICK g \in [Nat -> T] : Iterates(Entries(c, r), step, g)
  <2> HIDE DEF step, T
  <2> QED
    BY <1>2, <1>4, IteratesExist
<1>6. D(g)
  <2>1. g[0] = Entries(c, r) /\ \A n \in Nat : g[n + 1] = Wider(c, r, g[n])
    BY <1>5 DEF Iterates
  <2>2. ASSUME NEW n \in Nat, n # 0 PROVE g[n] = Wider(c, r, g[n - 1])
    <3>1. n - 1 \in Nat /\ (n - 1) + 1 = n
      BY <2>2
    <3> QED
      BY <2>1, <3>1
  <2> QED
    BY <2>1, <2>2
<1>7. D(f)
  <2>1. f = CHOOSE h : D(h)
    OBVIOUS
  <2> HIDE DEF D, f
  <2> QED
    BY <1>6, <2>1
<1>8. f[0] = Entries(c, r) /\ \A n \in Nat : f[n + 1] = Wider(c, r, f[n])
  <2>1. \A n \in Nat : n + 1 \in Nat /\ n + 1 # 0 /\ (n + 1) - 1 = n
    OBVIOUS
  <2>2. \A n \in Nat : f[n] = IF n = 0 THEN Entries(c, r) ELSE Wider(c, r, f[n - 1])
    <3> HIDE DEF f
    <3> QED
      BY <1>7
  <2> HIDE DEF D, f
  <2> QED
    BY <2>1, <2>2
<1>9. f \in [Nat -> T]
  <2> DEFINE S == {n \in Nat : f[n] \in T}
  <2> HIDE DEF f, T
  <2>1. 0 \in S /\ \A n \in Nat : n \in S => n + 1 \in S
    BY <1>2, <1>3, <1>8
  <2> HIDE DEF S
  <2>2. \A n \in Nat : n \in S
    BY <2>1, NatBySteps
  <2> QED
    BY <1>7, <2>2 DEF S
<1> HIDE DEF f
<1> QED
  BY <1>1, <1>8, <1>9

(* It starts at the entries, and has stopped: what a block of the region   *)
(* leads to is reached.                                                    *)
LEMMA WalkIsClosed ==
    ASSUME NEW c, Wired(c), NEW r
    PROVE  /\ Reached(c, r) \subseteq DOMAIN c.blocks
           /\ Entries(c, r) \subseteq Reached(c, r)
           /\ \A b \in Extent(c, r) : Elems(c.blocks[b].term.succ) \subseteq Reached(c, r)
<1> DEFINE n == Len(c.blocks)
           B == DOMAIN c.blocks
<1>1. PICK g \in [Nat -> SUBSET B] :
              /\ g[0] = Entries(c, r)
              /\ \A k \in Nat : g[k + 1] = Wider(c, r, g[k])
              /\ Reached(c, r) = g[n]
  BY WalkRounds
<1>2. n \in Nat /\ B = 1 .. n
  BY DEF Wired, IsSeq
<1>3. IsFiniteSet(B) /\ Cardinality(B) = n
  <2> HIDE DEF n
  <2>1. IsFiniteSet(1 .. n) /\ Cardinality(1 .. n) = n
    BY <1>2, FS_Interval
  <2> QED
    BY <1>2, <2>1
<1> HIDE DEF n, B
<1>4. \A k \in Nat : g[k] \subseteq g[k + 1]
  BY <1>1, WiderMembers
<1>5. ASSUME NEW k \in Nat, g[k + 1] = g[k] PROVE g[k + 2] = g[k + 1]
  <2>1. k + 1 \in Nat /\ (k + 1) + 1 = k + 2
    OBVIOUS
  <2> QED
    BY <1>1, <1>5, <2>1
<1>6. Cardinality(g[0]) \in Nat
  <2>1. g[0] \in SUBSET B
    OBVIOUS
  <2> QED
    BY <1>3, <2>1, FS_Subset, FS_CardinalityType
<1>7. g[n + 1] = g[n]
  <2>1. \A k \in Nat : Cardinality(B) <= k + Cardinality(g[0]) => g[k + 1] = g[k]
    BY <1>3, <1>4, <1>5, GrowthStops
  <2>2. Cardinality(B) <= n + Cardinality(g[0])
    BY <1>2, <1>3, <1>6
  <2> QED
    BY <1>2, <2>1, <2>2
<1>8. Entries(c, r) \subseteq g[n]
  <2> DEFINE S == {k \in Nat : Entries(c, r) \subseteq g[k]}
  <2>1. 0 \in S /\ \A k \in Nat : k \in S => k + 1 \in S
    BY <1>1, <1>4
  <2> HIDE DEF S
  <2>2. \A k \in Nat : k \in S
    BY <2>1, NatBySteps
  <2> QED
    BY <1>2, <2>2 DEF S
<1>9. Wider(c, r, g[n]) = g[n]
  BY <1>1, <1>2, <1>7
<1>10. ASSUME NEW b \in Extent(c, r), NEW t \in Elems(c.blocks[b].term.succ)
       PROVE  t \in Reached(c, r)
  <2>1. b \in g[n] /\ ~Closes(c.blocks[b], r)
    BY <1>1, <1>10 DEF Extent
  <2>2. t \in Wider(c, r, g[n])
    BY <1>10, <2>1, WiderMembers
  <2> QED
    BY <1>1, <1>9, <2>2
<1>11. g[n] \subseteq DOMAIN c.blocks
  BY <1>2 DEF B
<1> QED
  BY <1>1, <1>8, <1>10, <1>11

-----------------------------------------------------------------------------
(* Where a frame stands.                                                   *)

Shaped(c) == Wired(c) /\ WellNested(c)

RegionEnterOf(r) == [k |-> "RegionEnter", region |-> r]
RegionExitOf(r) == [k |-> "RegionExit", region |-> r]
HandlerEnterOf(r) == [k |-> "HandlerEnter", handler |-> r]
HandlerExitOf(r) == [k |-> "HandlerExit", handler |-> r]

InstsAt(c, f) == c.blocks[f.at].insts

(* Frame f has the instruction behind it, in its block.                    *)
Done(c, f, in) == \E i \in DOMAIN InstsAt(c, f) : i < f.pc /\ InstsAt(c, f)[i] = in

(* It has opened the region of r, or its handler, and has not closed it.   *)
HasRegion(c, f, r) ==
    \/ f.at \in Inside(c, r) /\ ~Done(c, f, RegionExitOf(r))
    \/ Done(c, f, RegionEnterOf(r))

HasHandler(c, f, r) ==
    \/ f.at \in Inside(c, r) /\ ~Done(c, f, HandlerExitOf(r))
    \/ Done(c, f, HandlerEnterOf(r))

Stands(c, f) == f.at \in DOMAIN c.blocks /\ f.pc \in Nat \ {0}

(* A frame that has called waits at the terminator.                        *)
Waits(c, f) ==
    /\ f.pc > Len(InstsAt(c, f))
    /\ c.blocks[f.at].term.k \in {"Call", "Perform"}

(* Two of the same region agree on all that is asked here.                 *)
Alike(c, f, g) ==
    \A r \in DOMAIN c.regions : /\ HasRegion(c, f, r) <=> HasRegion(c, g, r)
                                /\ HasHandler(c, f, r) <=> HasHandler(c, g, r)

(* A block opens one handler, closes one, or has no such instruction.      *)
LEMMA BlockShapes ==
    ASSUME NEW c, Shaped(c), NEW b \in DOMAIN c.blocks
    PROVE  /\ c.blocks[b].insts \in Seq(Elems(c.blocks[b].insts))
           /\ \/ \E r \in DOMAIN c.regions : c.blocks[b].insts \in {Opening(r), Closing(r)}
              \/ \A i \in DOMAIN c.blocks[b].insts : c.blocks[b].insts[i].k \notin Brackets
BY DEF Shaped, Wired, IsSeq, WellNested, BlockBrackets

LEMMA OpeningBlock ==
    ASSUME NEW c, NEW f, Stands(c, f), NEW r, InstsAt(c, f) = Opening(r), NEW s
    PROVE  /\ Done(c, f, RegionEnterOf(s)) <=> s = r /\ f.pc > 1
           /\ Done(c, f, HandlerEnterOf(s)) <=> s = r /\ f.pc > 2
           /\ ~Done(c, f, RegionExitOf(s)) /\ ~Done(c, f, HandlerExitOf(s))
           /\ Opens(c.blocks[f.at], s) <=> s = r
           /\ ~Closes(c.blocks[f.at], s)
<1> DEFINE is == InstsAt(c, f)
<1>1. /\ DOMAIN is = {1, 2} /\ f.pc \in Nat
      /\ is[1] = [k |-> "RegionEnter", region |-> r]
      /\ is[2] = [k |-> "HandlerEnter", handler |-> r]
  BY DEF Opening, Stands
<1>2. /\ is[1].k = "RegionEnter" /\ is[1].region = r
      /\ is[2].k = "HandlerEnter" /\ is[2].handler = r
  BY <1>1
<1>3. /\ \A i \in {1, 2} : is[i] = RegionEnterOf(s) <=> i = 1 /\ s = r
      /\ \A i \in {1, 2} : is[i] = HandlerEnterOf(s) <=> i = 2 /\ s = r
      /\ \A i \in {1, 2} : is[i] # RegionExitOf(s) /\ is[i] # HandlerExitOf(s)
  BY <1>1, <1>2 DEF RegionEnterOf, HandlerEnterOf, RegionExitOf, HandlerExitOf
<1>4. /\ Opens(c.blocks[f.at], s) <=> \E i \in DOMAIN is : is[i] = RegionEnterOf(s)
      /\ Closes(c.blocks[f.at], s) <=> \E i \in DOMAIN is : is[i] = RegionExitOf(s)
  BY DEF Opens, Closes, InstsAt, RegionEnterOf, RegionExitOf
<1>5. \A in : Done(c, f, in) <=> \E i \in DOMAIN is : i < f.pc /\ is[i] = in
  BY DEF Done
<1> HIDE DEF is
<1> QED
  BY <1>1, <1>3, <1>4, <1>5

LEMMA ClosingBlock ==
    ASSUME NEW c, NEW f, Stands(c, f), NEW r, InstsAt(c, f) = Closing(r), NEW s
    PROVE  /\ Done(c, f, HandlerExitOf(s)) <=> s = r /\ f.pc > 1
           /\ Done(c, f, RegionExitOf(s)) <=> s = r /\ f.pc > 2
           /\ ~Done(c, f, RegionEnterOf(s)) /\ ~Done(c, f, HandlerEnterOf(s))
           /\ Closes(c.blocks[f.at], s) <=> s = r
           /\ ~Opens(c.blocks[f.at], s)
<1> DEFINE is == InstsAt(c, f)
<1>1. /\ DOMAIN is = {1, 2} /\ f.pc \in Nat
      /\ is[1] = [k |-> "HandlerExit", handler |-> r]
      /\ is[2] = [k |-> "RegionExit", region |-> r]
  BY DEF Closing, Stands
<1>2. /\ is[1].k = "HandlerExit" /\ is[1].handler = r
      /\ is[2].k = "RegionExit" /\ is[2].region = r
  BY <1>1
<1>3. /\ \A i \in {1, 2} : is[i] = HandlerExitOf(s) <=> i = 1 /\ s = r
      /\ \A i \in {1, 2} : is[i] = RegionExitOf(s) <=> i = 2 /\ s = r
      /\ \A i \in {1, 2} : is[i] # RegionEnterOf(s) /\ is[i] # HandlerEnterOf(s)
  BY <1>1, <1>2 DEF RegionEnterOf, HandlerEnterOf, RegionExitOf, HandlerExitOf
<1>4. /\ Opens(c.blocks[f.at], s) <=> \E i \in DOMAIN is : is[i] = RegionEnterOf(s)
      /\ Closes(c.blocks[f.at], s) <=> \E i \in DOMAIN is : is[i] = RegionExitOf(s)
  BY DEF Opens, Closes, InstsAt, RegionEnterOf, RegionExitOf
<1>5. \A in : Done(c, f, in) <=> \E i \in DOMAIN is : i < f.pc /\ is[i] = in
  BY DEF Done
<1> HIDE DEF is
<1> QED
  BY <1>1, <1>3, <1>4, <1>5

LEMMA PlainBlock ==
    ASSUME NEW c, NEW f, Stands(c, f),
           \A i \in DOMAIN InstsAt(c, f) : InstsAt(c, f)[i].k \notin Brackets, NEW s
    PROVE  /\ ~Done(c, f, RegionEnterOf(s)) /\ ~Done(c, f, HandlerEnterOf(s))
           /\ ~Done(c, f, RegionExitOf(s)) /\ ~Done(c, f, HandlerExitOf(s))
           /\ ~Opens(c.blocks[f.at], s) /\ ~Closes(c.blocks[f.at], s)
<1>1. /\ RegionEnterOf(s).k = "RegionEnter" /\ HandlerEnterOf(s).k = "HandlerEnter"
      /\ RegionExitOf(s).k = "RegionExit" /\ HandlerExitOf(s).k = "HandlerExit"
  BY DEF RegionEnterOf, HandlerEnterOf, RegionExitOf, HandlerExitOf
<1>2. \A i \in DOMAIN InstsAt(c, f) :
        /\ InstsAt(c, f)[i] # RegionEnterOf(s) /\ InstsAt(c, f)[i] # HandlerEnterOf(s)
        /\ InstsAt(c, f)[i] # RegionExitOf(s) /\ InstsAt(c, f)[i] # HandlerExitOf(s)
  BY <1>1 DEF Brackets
<1> QED
  BY <1>2 DEF Done, Opens, Closes, InstsAt, RegionEnterOf, RegionExitOf

(* Before the first instruction of a block, a frame has what the block is  *)
(* inside of; behind the last, what it is in the extent of.                *)
LEMMA AtStart ==
    ASSUME NEW c, Shaped(c), NEW f, Stands(c, f), f.pc = 1, NEW r
    PROVE  /\ HasRegion(c, f, r) <=> f.at \in Inside(c, r)
           /\ HasHandler(c, f, r) <=> f.at \in Inside(c, r)
<1>1. \A in : ~Done(c, f, in)
  <2>1. InstsAt(c, f) \in Seq(Elems(InstsAt(c, f)))
    BY BlockShapes DEF Stands, InstsAt
  <2>2. \A i \in DOMAIN InstsAt(c, f) : i \in Nat /\ i >= 1
    BY <2>1
  <2> QED
    BY <2>2 DEF Done
<1> QED
  BY <1>1 DEF HasRegion, HasHandler

LEMMA AtEnd ==
    ASSUME NEW c, Shaped(c), NEW f, Stands(c, f), f.pc > Len(InstsAt(c, f)), NEW r
    PROVE  /\ HasRegion(c, f, r) <=> f.at \in Extent(c, r)
           /\ HasHandler(c, f, r) <=> f.at \in Extent(c, r)
<1>1. f.at \in DOMAIN c.blocks /\ f.pc \in Nat
  BY DEF Stands
<1>2. /\ f.at \in Entries(c, r) <=> Opens(c.blocks[f.at], r)
      /\ Entries(c, r) \subseteq Reached(c, r)
  BY <1>1, WalkIsClosed DEF Entries, Shaped
<1>3. CASE \E s \in DOMAIN c.regions : InstsAt(c, f) \in {Opening(s), Closing(s)}
  <2>1. PICK s \in DOMAIN c.regions : InstsAt(c, f) \in {Opening(s), Closing(s)}
    BY <1>3
  <2>2. f.pc > 2 /\ f.pc > 1
    <3>1. Len(Opening(s)) = 2 /\ Len(Closing(s)) = 2
      BY DEF Opening, Closing
    <3>2. Len(InstsAt(c, f)) = 2
      BY <2>1, <3>1
    <3> QED
      BY <1>1, <3>2
  <2>3. CASE InstsAt(c, f) = Opening(s)
    BY <1>2, <2>2, <2>3, OpeningBlock DEF HasRegion, HasHandler, Inside, Extent
  <2>4. CASE InstsAt(c, f) = Closing(s)
    BY <1>2, <2>2, <2>4, ClosingBlock DEF HasRegion, HasHandler, Inside, Extent
  <2> QED
    BY <2>1, <2>3, <2>4
<1>4. CASE \A i \in DOMAIN InstsAt(c, f) : InstsAt(c, f)[i].k \notin Brackets
  BY <1>2, <1>4, PlainBlock DEF HasRegion, HasHandler, Inside, Extent
<1> QED
  BY <1>1, <1>3, <1>4, BlockShapes DEF InstsAt

(* An edge leaves a block with what its target is inside of.               *)
LEMMA AlongEdge ==
    ASSUME NEW c, Shaped(c), NEW b \in DOMAIN c.blocks,
           NEW t \in Elems(c.blocks[b].term.succ), NEW r \in DOMAIN c.regions
    PROVE  t \in DOMAIN c.blocks /\ (t \in Inside(c, r) <=> b \in Extent(c, r))
<1>1. /\ t \in Inside(c, r) => b \in Extent(c, r)
      /\ b \in Extent(c, r) => t \notin Entries(c, r)
  BY DEF Shaped, WellNested, IsNested
<1>2. b \in Extent(c, r) => t \in Reached(c, r)
  BY WalkIsClosed DEF Shaped
<1>3. t \in DOMAIN c.blocks
  BY DEF Shaped, Wired
<1> QED
  BY <1>1, <1>2, <1>3 DEF Inside

(* From the end of a block to the start of another.                        *)
LEMMA Crossing ==
    ASSUME NEW c, Shaped(c), NEW f, Stands(c, f), f.pc > Len(InstsAt(c, f)),
           NEW g, g.pc = 1, g.at \in Elems(c.blocks[f.at].term.succ)
    PROVE  Stands(c, g) /\ Alike(c, f, g)
<1>1. f.at \in DOMAIN c.blocks
  BY DEF Stands
<1>2. Stands(c, g)
  BY <1>1 DEF Stands, Shaped, Wired
<1>3. \A r \in DOMAIN c.regions : g.at \in Inside(c, r) <=> f.at \in Extent(c, r)
  BY <1>1, AlongEdge
<1> QED
  BY <1>2, <1>3, AtStart, AtEnd DEF Alike

(* A frame behind an instruction that brackets nothing.                    *)
LEMMA StepPlain ==
    ASSUME NEW c, Shaped(c), NEW f, Stands(c, f), f.pc <= Len(InstsAt(c, f)),
           InstsAt(c, f)[f.pc].k \notin Brackets,
           NEW g, g.at = f.at, g.pc = f.pc + 1
    PROVE  Stands(c, g) /\ Alike(c, f, g)
<1>1. InstsAt(c, f) \in Seq(Elems(InstsAt(c, f))) /\ f.pc \in DOMAIN InstsAt(c, f)
  BY BlockShapes DEF Stands, InstsAt
<1>2. Stands(c, g) /\ InstsAt(c, g) = InstsAt(c, f)
  BY DEF Stands, InstsAt
<1>3. \A i \in DOMAIN InstsAt(c, f) : InstsAt(c, f)[i].k \notin Brackets
  <2>1. ASSUME NEW r, InstsAt(c, f) \in {Opening(r), Closing(r)} PROVE FALSE
    <3>1. \A i \in {1, 2} : /\ Opening(r)[i].k \in Brackets /\ Closing(r)[i].k \in Brackets
      BY DEF Opening, Closing, Brackets
    <3>2. DOMAIN InstsAt(c, f) = {1, 2}
      BY <2>1 DEF Opening, Closing
    <3> QED
      BY <1>1, <2>1, <3>1, <3>2
  <2> QED
    BY <2>1, BlockShapes DEF Stands, InstsAt
<1> QED
  BY <1>2, <1>3, PlainBlock DEF Alike, HasRegion, HasHandler

(* What stands at an instruction that opens or closes something.           *)
LEMMA BracketAt ==
    ASSUME NEW c, Shaped(c), NEW f, Stands(c, f), f.pc <= Len(InstsAt(c, f)),
           InstsAt(c, f)[f.pc].k \in Brackets
    PROVE  LET in == InstsAt(c, f)[f.pc]
           IN  /\ in.k = "RegionEnter" =>
                    /\ in.region \in DOMAIN c.regions /\ f.pc = 1
                    /\ InstsAt(c, f) = Opening(in.region)
               /\ in.k = "HandlerEnter" =>
                    /\ in.handler \in DOMAIN c.regions /\ f.pc = 2
                    /\ InstsAt(c, f) = Opening(in.handler)
               /\ in.k = "HandlerExit" =>
                    /\ in.handler \in DOMAIN c.regions /\ f.pc = 1
                    /\ InstsAt(c, f) = Closing(in.handler)
               /\ in.k = "RegionExit" =>
                    /\ in.region \in DOMAIN c.regions /\ f.pc = 2
                    /\ InstsAt(c, f) = Closing(in.region)
<1>1. InstsAt(c, f) \in Seq(Elems(InstsAt(c, f))) /\ f.pc \in DOMAIN InstsAt(c, f)
  BY BlockShapes DEF Stands, InstsAt
<1>2. PICK r \in DOMAIN c.regions : InstsAt(c, f) \in {Opening(r), Closing(r)}
  BY <1>1, BlockShapes DEF Stands, InstsAt
<1>3. CASE InstsAt(c, f) = Opening(r)
  <2>1. /\ Opening(r)[1].k = "RegionEnter" /\ Opening(r)[1].region = r
        /\ Opening(r)[2].k = "HandlerEnter" /\ Opening(r)[2].handler = r
        /\ DOMAIN Opening(r) = {1, 2}
    BY DEF Opening
  <2> QED
    BY <1>1, <1>3, <2>1
<1>4. CASE InstsAt(c, f) = Closing(r)
  <2>1. /\ Closing(r)[1].k = "HandlerExit" /\ Closing(r)[1].handler = r
        /\ Closing(r)[2].k = "RegionExit" /\ Closing(r)[2].region = r
        /\ DOMAIN Closing(r) = {1, 2}
    BY DEF Closing
  <2> QED
    BY <1>1, <1>4, <2>1
<1> QED
  BY <1>2, <1>3, <1>4

(* What the four instructions do to what the frame has; a handler that is  *)
(* entered is numbered above the others of its frame, and one that is left *)
(* is the highest.                                                         *)
LEMMA StepOpening ==
    ASSUME NEW c, Shaped(c), NEW f, Stands(c, f), NEW r \in DOMAIN c.regions,
           InstsAt(c, f) = Opening(r),
           NEW g, g.at = f.at, g.pc = f.pc + 1, NEW s \in DOMAIN c.regions
    PROVE  /\ Stands(c, g)
           /\ f.pc = 1 => /\ HasRegion(c, g, s) <=> HasRegion(c, f, s) \/ s = r
                          /\ HasHandler(c, g, s) <=> HasHandler(c, f, s)
           /\ f.pc = 2 => /\ HasRegion(c, g, s) <=> HasRegion(c, f, s)
                          /\ HasHandler(c, g, s) <=> HasHandler(c, f, s) \/ s = r
                          /\ HasHandler(c, f, s) => s < r
<1>1. Stands(c, g) /\ InstsAt(c, g) = InstsAt(c, f) /\ f.pc \in Nat
  BY DEF Stands, InstsAt
<1>2. f.at \in Inside(c, s) => s < r
  <2>1. Opens(c.blocks[f.at], r)
    BY OpeningBlock
  <2> QED
    BY <2>1 DEF Shaped, WellNested, IsNested, Stands
<1>3. /\ Done(c, f, RegionEnterOf(s)) <=> s = r /\ f.pc > 1
      /\ Done(c, f, HandlerEnterOf(s)) <=> s = r /\ f.pc > 2
      /\ ~Done(c, f, RegionExitOf(s)) /\ ~Done(c, f, HandlerExitOf(s))
  BY OpeningBlock
<1>4. /\ Done(c, g, RegionEnterOf(s)) <=> s = r /\ g.pc > 1
      /\ Done(c, g, HandlerEnterOf(s)) <=> s = r /\ g.pc > 2
      /\ ~Done(c, g, RegionExitOf(s)) /\ ~Done(c, g, HandlerExitOf(s))
  BY <1>1, OpeningBlock
<1> QED
  BY <1>1, <1>2, <1>3, <1>4 DEF HasRegion, HasHandler

LEMMA StepClosing ==
    ASSUME NEW c, Shaped(c), NEW f, Stands(c, f), NEW r \in DOMAIN c.regions,
           InstsAt(c, f) = Closing(r),
           NEW g, g.at = f.at, g.pc = f.pc + 1, NEW s \in DOMAIN c.regions
    PROVE  /\ Stands(c, g)
           /\ f.pc = 1 => /\ HasHandler(c, g, s) <=> HasHandler(c, f, s) /\ s # r
                          /\ HasRegion(c, g, s) <=> HasRegion(c, f, s)
                          /\ HasHandler(c, f, r)
                          /\ HasHandler(c, f, s) => s <= r
           /\ f.pc = 2 => /\ HasHandler(c, g, s) <=> HasHandler(c, f, s)
                          /\ HasRegion(c, g, s) <=> HasRegion(c, f, s) /\ s # r
<1>1. Stands(c, g) /\ InstsAt(c, g) = InstsAt(c, f) /\ f.pc \in Nat
  BY DEF Stands, InstsAt
<1>2. f.at \in Inside(c, r) /\ (f.at \in Inside(c, s) => s <= r)
  <2>1. Closes(c.blocks[f.at], r)
    BY ClosingBlock
  <2> QED
    BY <2>1 DEF Shaped, WellNested, IsNested, Stands
<1>3. \A u : /\ Done(c, f, HandlerExitOf(u)) <=> u = r /\ f.pc > 1
             /\ Done(c, f, RegionExitOf(u)) <=> u = r /\ f.pc > 2
             /\ ~Done(c, f, RegionEnterOf(u)) /\ ~Done(c, f, HandlerEnterOf(u))
  BY ClosingBlock
<1>4. /\ Done(c, g, HandlerExitOf(s)) <=> s = r /\ g.pc > 1
      /\ Done(c, g, RegionExitOf(s)) <=> s = r /\ g.pc > 2
      /\ ~Done(c, g, RegionEnterOf(s)) /\ ~Done(c, g, HandlerEnterOf(s))
  BY <1>1, ClosingBlock
<1> QED
  BY <1>1, <1>2, <1>3, <1>4 DEF HasRegion, HasHandler

-----------------------------------------------------------------------------
(* The stack of handlers and the open regions, beside the frames.          *)

FrameOf(c, envs) == [at : DOMAIN c.blocks, pc : Nat \ {0}, env : envs]
Envs(fs) == {fs[d].env : d \in DOMAIN fs}

(* A frame but the last one waits.                                         *)
Stacked(c, fs) ==
    /\ fs \in Seq(FrameOf(c, Envs(fs)))
    /\ \A d \in DOMAIN fs : d < Len(fs) => Waits(c, fs[d])

Entry(c) == [handler : DOMAIN c.regions, depth : Nat \ {0}]
Slot(c) == [region : DOMAIN c.regions, depth : Nat \ {0}]

Below(h, g) == h.depth < g.depth \/ (h.depth = g.depth /\ h.handler < g.handler)

(* The open regions are those that the frames have.                        *)
SlotsInStep(c, fs, ss) ==
    /\ ss \subseteq Slot(c)
    /\ \A d \in Nat \ {0}, r \in DOMAIN c.regions :
         [region |-> r, depth |-> d] \in ss <=> d \in DOMAIN fs /\ HasRegion(c, fs[d], r)

(* The handlers too, and they lie in the order in which they nest.         *)
HandlersInStep(c, fs, hs) ==
    /\ hs \in Seq(Entry(c))
    /\ \A d \in Nat \ {0}, r \in DOMAIN c.regions :
         [handler |-> r, depth |-> d] \in Elems(hs) <=> d \in DOMAIN fs /\ HasHandler(c, fs[d], r)
    /\ \A i, j \in DOMAIN hs : i < j => Below(hs[i], hs[j])

InStep(c, fs, hs, ss) ==
    Stacked(c, fs) /\ SlotsInStep(c, fs, ss) /\ HandlersInStep(c, fs, hs)

LEMMA FramesStand ==
    ASSUME NEW c, NEW fs, Stacked(c, fs)
    PROVE  /\ Len(fs) \in Nat /\ DOMAIN fs = 1 .. Len(fs)
           /\ \A d \in DOMAIN fs : Stands(c, fs[d]) /\ fs[d] \in FrameOf(c, Envs(fs))
<1>1. fs \in Seq(FrameOf(c, Envs(fs)))
  BY DEF Stacked
<1>2. /\ Len(fs) \in Nat /\ DOMAIN fs = 1 .. Len(fs)
      /\ \A d \in DOMAIN fs : fs[d] \in FrameOf(c, Envs(fs))
  BY <1>1
<1>3. \A f \in FrameOf(c, Envs(fs)) : Stands(c, f)
  BY DEF FrameOf, Stands
<1> QED
  BY <1>2, <1>3

(* Environments are whatever the frames hold.                              *)
LEMMA Retyped ==
    ASSUME NEW c, NEW envs, NEW fs \in Seq(FrameOf(c, envs))
    PROVE  fs \in Seq(FrameOf(c, Envs(fs)))
<1>1. fs \in [1 .. Len(fs) -> FrameOf(c, envs)] /\ Len(fs) \in Nat
  OBVIOUS
<1>2. \A d \in 1 .. Len(fs) : fs[d] \in FrameOf(c, Envs(fs))
  BY <1>1 DEF FrameOf, Envs
<1>3. fs \in [1 .. Len(fs) -> FrameOf(c, Envs(fs))]
  BY <1>1, <1>2
<1> QED
  BY <1>1, <1>3

LEMMA Widened ==
    ASSUME NEW c, NEW A, NEW B, A \subseteq B, NEW fs \in Seq(FrameOf(c, A))
    PROVE  fs \in Seq(FrameOf(c, B))
<1>1. fs \in [1 .. Len(fs) -> FrameOf(c, A)] /\ Len(fs) \in Nat
  OBVIOUS
<1>2. \A f \in FrameOf(c, A) : f \in FrameOf(c, B)
  BY DEF FrameOf
<1>3. fs \in [1 .. Len(fs) -> FrameOf(c, B)]
  BY <1>1, <1>2
<1> QED
  BY <1>1, <1>3

(* The last frame replaced by another of the same function.                *)
LEMMA LastReplaced ==
    ASSUME NEW c, NEW fs, Stacked(c, fs), Len(fs) # 0,
           NEW g, NEW env, g \in FrameOf(c, {env}), NEW gs, gs = [fs EXCEPT ![Len(fs)] = g]
    PROVE  /\ Stacked(c, gs) /\ Len(gs) = Len(fs) /\ DOMAIN gs = DOMAIN fs
           /\ gs[Len(fs)] = g
           /\ \A d \in DOMAIN fs : d # Len(fs) => gs[d] = fs[d]
<1> DEFINE envs == Envs(fs) \cup {env}
<1>1. fs \in Seq(FrameOf(c, envs)) /\ g \in FrameOf(c, envs)
  <2>1. fs \in Seq(FrameOf(c, envs))
    BY Widened DEF Stacked
  <2>2. g \in FrameOf(c, envs)
    BY DEF FrameOf
  <2> QED
    BY <2>1, <2>2
<1>2. gs \in Seq(FrameOf(c, envs)) /\ Len(gs) = Len(fs) /\ DOMAIN gs = DOMAIN fs
  <2> HIDE DEF envs
  <2> QED
    BY <1>1
<1>3. Len(fs) \in DOMAIN fs
  BY FramesStand
<1>4. gs[Len(fs)] = g /\ \A d \in DOMAIN fs : d # Len(fs) => gs[d] = fs[d]
  BY <1>3
<1>5. gs \in Seq(FrameOf(c, Envs(gs)))
  BY <1>2, Retyped
<1>6. \A d \in DOMAIN gs : d < Len(gs) => Waits(c, gs[d])
  BY <1>2, <1>4, FramesStand DEF Stacked
<1> QED
  BY <1>2, <1>4, <1>5, <1>6 DEF Stacked

(* A frame on top of one that waits.                                       *)
LEMMA FramePushed ==
    ASSUME NEW c, NEW fs, Stacked(c, fs), Len(fs) # 0 => Waits(c, fs[Len(fs)]),
           NEW g, NEW env, g \in FrameOf(c, {env}), NEW gs, gs = Append(fs, g)
    PROVE  /\ Stacked(c, gs) /\ Len(gs) = Len(fs) + 1 /\ DOMAIN gs = 1 .. Len(fs) + 1
           /\ gs[Len(fs) + 1] = g
           /\ \A d \in DOMAIN fs : gs[d] = fs[d]
<1> DEFINE envs == Envs(fs) \cup {env}
<1>1. fs \in Seq(FrameOf(c, envs)) /\ g \in FrameOf(c, envs)
  <2>1. fs \in Seq(FrameOf(c, envs))
    BY Widened DEF Stacked
  <2>2. g \in FrameOf(c, envs)
    BY DEF FrameOf
  <2> QED
    BY <2>1, <2>2
<1>2. gs \in Seq(FrameOf(c, envs)) /\ Len(gs) = Len(fs) + 1 /\ DOMAIN gs = 1 .. Len(fs) + 1
  <2> HIDE DEF envs
  <2> QED
    BY <1>1
<1>3. gs[Len(fs) + 1] = g /\ \A d \in DOMAIN fs : gs[d] = fs[d]
  <2> HIDE DEF envs
  <2> QED
    BY <1>1
<1>4. gs \in Seq(FrameOf(c, Envs(gs)))
  BY <1>2, Retyped
<1>5. \A d \in DOMAIN gs : d < Len(gs) => Waits(c, gs[d])
  BY <1>2, <1>3, FramesStand DEF Stacked
<1> QED
  BY <1>2, <1>3, <1>4, <1>5 DEF Stacked

LEMMA FramePopped ==
    ASSUME NEW c, NEW fs, Stacked(c, fs), Len(fs) # 0,
           NEW gs, gs = SubSeq(fs, 1, Len(fs) - 1)
    PROVE  /\ Stacked(c, gs) /\ Len(gs) = Len(fs) - 1 /\ DOMAIN gs = 1 .. Len(fs) - 1
           /\ \A d \in DOMAIN gs : gs[d] = fs[d]
<1> DEFINE F == FrameOf(c, Envs(fs))
<1>1. fs \in Seq(F)
  BY DEF Stacked
<1>2. /\ gs \in Seq(F) /\ Len(gs) = Len(fs) - 1 /\ DOMAIN gs = 1 .. Len(fs) - 1
      /\ \A d \in DOMAIN gs : gs[d] = fs[d]
  <2> DEFINE n == Len(fs) - 1
  <2>1. n \in Nat /\ n <= Len(fs) /\ Len(fs) \in Nat
    BY FramesStand
  <2>2. gs = SubSeq(fs, 1, n)
    OBVIOUS
  <2> HIDE DEF F, n
  <2>3. gs \in Seq(F) /\ Len(gs) = n /\ DOMAIN gs = 1 .. n
    BY <1>1, <2>1, <2>2
  <2>4. \A d \in 1 .. n : gs[d] = fs[d]
    BY <1>1, <2>1, <2>2
  <2> QED
    BY <2>3, <2>4 DEF n
<1>3. gs \in Seq(FrameOf(c, Envs(gs)))
  BY <1>2, Retyped
<1>4. \A d \in DOMAIN gs : d < Len(gs) => Waits(c, gs[d])
  BY <1>2, FramesStand DEF Stacked
<1> QED
  BY <1>2, <1>3, <1>4 DEF Stacked

(* Nothing changes hands when the last frame goes on within its region.    *)
LEMMA StaysInStep ==
    ASSUME NEW c, NEW fs, NEW hs, NEW ss, InStep(c, fs, hs, ss),
           NEW gs, Stacked(c, gs), DOMAIN gs = DOMAIN fs,
           \A d \in DOMAIN fs : gs[d] = fs[d] \/ Alike(c, fs[d], gs[d])
    PROVE  InStep(c, gs, hs, ss)
<1>1. \A d \in DOMAIN fs, r \in DOMAIN c.regions :
        /\ HasRegion(c, fs[d], r) <=> HasRegion(c, gs[d], r)
        /\ HasHandler(c, fs[d], r) <=> HasHandler(c, gs[d], r)
  BY DEF Alike
<1>2. SlotsInStep(c, gs, ss)
  BY <1>1 DEF InStep, SlotsInStep
<1>3. HandlersInStep(c, gs, hs)
  BY <1>1 DEF InStep, HandlersInStep
<1> QED
  BY <1>2, <1>3 DEF InStep

(* A region is opened, or closed, by the last frame.                       *)
LEMMA SlotsFollow ==
    ASSUME NEW c, NEW fs, NEW ss, Stacked(c, fs), SlotsInStep(c, fs, ss), Len(fs) # 0,
           NEW gs, DOMAIN gs = DOMAIN fs, \A d \in DOMAIN fs : d # Len(fs) => gs[d] = fs[d],
           NEW r \in DOMAIN c.regions, NEW tt,
           \/ /\ tt = ss \cup {[region |-> r, depth |-> Len(fs)]}
              /\ \A s \in DOMAIN c.regions :
                   HasRegion(c, gs[Len(fs)], s) <=> HasRegion(c, fs[Len(fs)], s) \/ s = r
           \/ /\ tt = ss \ {[region |-> r, depth |-> Len(fs)]}
              /\ \A s \in DOMAIN c.regions :
                   HasRegion(c, gs[Len(fs)], s) <=> HasRegion(c, fs[Len(fs)], s) /\ s # r
    PROVE  SlotsInStep(c, gs, tt)
<1> DEFINE n == Len(fs)
           slot(s, d) == [region |-> s, depth |-> d]
<1>1. n \in Nat \ {0} /\ n \in DOMAIN fs /\ DOMAIN fs \subseteq Nat \ {0}
  BY FramesStand
<1>2. slot(r, n) \in Slot(c)
  BY <1>1 DEF Slot
<1>3. tt \subseteq Slot(c)
  BY <1>2 DEF SlotsInStep
<1>4. \A s, d : slot(s, d) = slot(r, n) <=> s = r /\ d = n
  <2>1. \A s, d : slot(s, d).region = s /\ slot(s, d).depth = d
    OBVIOUS
  <2> HIDE DEF slot, n
  <2> QED
    BY <2>1
<1>5. \A d \in Nat \ {0}, s \in DOMAIN c.regions :
        slot(s, d) \in ss <=> d \in DOMAIN fs /\ HasRegion(c, fs[d], s)
  BY DEF SlotsInStep
<1>6. ASSUME NEW d \in Nat \ {0}, NEW s \in DOMAIN c.regions
      PROVE  slot(s, d) \in tt <=> d \in DOMAIN gs /\ HasRegion(c, gs[d], s)
  <2>1. CASE tt = ss \cup {slot(r, n)} /\ \A u \in DOMAIN c.regions :
                HasRegion(c, gs[n], u) <=> HasRegion(c, fs[n], u) \/ u = r
    <3> HIDE DEF slot
    <3> QED
      BY <1>1, <1>4, <1>5, <2>1
  <2>2. CASE tt = ss \ {slot(r, n)} /\ \A u \in DOMAIN c.regions :
                HasRegion(c, gs[n], u) <=> HasRegion(c, fs[n], u) /\ u # r
    <3> HIDE DEF slot
    <3> QED
      BY <1>1, <1>4, <1>5, <2>2
  <2> QED
    BY <2>1, <2>2
<1> QED
  BY <1>3, <1>6 DEF SlotsInStep

(* Every entry is of a frame that has not returned.                        *)
LEMMA EntriesAre ==
    ASSUME NEW c, NEW fs, NEW hs, HandlersInStep(c, fs, hs), NEW i \in DOMAIN hs
    PROVE  /\ hs[i] \in Entry(c)
           /\ hs[i] = [handler |-> hs[i].handler, depth |-> hs[i].depth]
           /\ hs[i].handler \in DOMAIN c.regions /\ hs[i].depth \in DOMAIN fs
           /\ HasHandler(c, fs[hs[i].depth], hs[i].handler)
<1>1. hs[i] \in Entry(c)
  BY DEF HandlersInStep
<1>2. /\ hs[i] = [handler |-> hs[i].handler, depth |-> hs[i].depth]
      /\ hs[i].handler \in DOMAIN c.regions /\ hs[i].depth \in Nat \ {0}
  BY <1>1 DEF Entry
<1>3. hs[i] \in Elems(hs)
  BY DEF Elems
<1> QED
  BY <1>1, <1>2, <1>3 DEF HandlersInStep

LEMMA HandlerPushed ==
    ASSUME NEW c, Shaped(c), NEW fs, NEW hs, Stacked(c, fs), HandlersInStep(c, fs, hs), Len(fs) # 0,
           NEW gs, DOMAIN gs = DOMAIN fs, \A d \in DOMAIN fs : d # Len(fs) => gs[d] = fs[d],
           NEW r \in DOMAIN c.regions,
           \A s \in DOMAIN c.regions :
             /\ HasHandler(c, gs[Len(fs)], s) <=> HasHandler(c, fs[Len(fs)], s) \/ s = r
             /\ HasHandler(c, fs[Len(fs)], s) => s < r
    PROVE  HandlersInStep(c, gs, Append(hs, [handler |-> r, depth |-> Len(fs)]))
<1> DEFINE n == Len(fs)
           entry(s, d) == [handler |-> s, depth |-> d]
           ks == Append(hs, entry(r, n))
<1>1. /\ n \in Nat \ {0} /\ n \in DOMAIN fs /\ DOMAIN fs = 1 .. n
      /\ DOMAIN c.regions \subseteq Nat
  BY FramesStand DEF Shaped, Wired, IsSeq
<1>2. entry(r, n) \in Entry(c)
  BY <1>1 DEF Entry
<1>3. hs \in Seq(Entry(c))
  BY DEF HandlersInStep
<1>4. /\ ks \in Seq(Entry(c)) /\ Len(ks) = Len(hs) + 1 /\ Len(hs) \in Nat
      /\ DOMAIN ks = 1 .. Len(hs) + 1 /\ DOMAIN hs = 1 .. Len(hs)
      /\ ks[Len(hs) + 1] = entry(r, n)
      /\ \A i \in DOMAIN hs : ks[i] = hs[i]
  <2> HIDE DEF n, entry
  <2> QED
    BY <1>2, <1>3
<1>5. \A s, d : entry(s, d) = entry(r, n) <=> s = r /\ d = n
  <2>1. \A s, d : entry(s, d).handler = s /\ entry(s, d).depth = d
    OBVIOUS
  <2> HIDE DEF entry, n
  <2> QED
    BY <2>1
<1>6. Elems(ks) = Elems(hs) \cup {entry(r, n)}
  <2> HIDE DEF ks, entry, n
  <2> QED
    BY <1>4 DEF Elems
<1>7. \A d \in Nat \ {0}, s \in DOMAIN c.regions :
        entry(s, d) \in Elems(hs) <=> d \in DOMAIN fs /\ HasHandler(c, fs[d], s)
  BY DEF HandlersInStep
<1>8. ASSUME NEW d \in Nat \ {0}, NEW s \in DOMAIN c.regions
      PROVE  entry(s, d) \in Elems(ks) <=> d \in DOMAIN gs /\ HasHandler(c, gs[d], s)
  <2> HIDE DEF ks, entry
  <2> QED
    BY <1>1, <1>5, <1>6, <1>7
<1>9. ASSUME NEW i \in DOMAIN ks, NEW j \in DOMAIN ks, i < j PROVE Below(ks[i], ks[j])
  <2>1. CASE j \in DOMAIN hs
    <3>1. i \in DOMAIN hs
      BY <1>4, <1>9, <2>1
    <3> QED
      BY <1>4, <1>9, <2>1, <3>1 DEF HandlersInStep
  <2>2. CASE j = Len(hs) + 1
    <3>1. i \in DOMAIN hs
      BY <1>4, <1>9, <2>2
    <3>2. /\ hs[i].handler \in DOMAIN c.regions /\ hs[i].depth \in DOMAIN fs
          /\ HasHandler(c, fs[hs[i].depth], hs[i].handler)
      BY <3>1, EntriesAre
    <3>3. ks[j].handler = r /\ ks[j].depth = n /\ ks[i] = hs[i]
      BY <1>4, <2>2, <3>1
    <3> HIDE DEF ks
    <3>4. hs[i].depth < n \/ (hs[i].depth = n /\ hs[i].handler < r)
      BY <1>1, <3>2
    <3> QED
      BY <3>3, <3>4 DEF Below
  <2> QED
    BY <1>4, <2>1, <2>2
<1> QED
  BY <1>4, <1>8, <1>9 DEF HandlersInStep

(* The entry of the highest handler of the last frame is on top.           *)
LEMMA EntryOnTop ==
    ASSUME NEW c, Shaped(c), NEW fs, NEW hs, Stacked(c, fs), HandlersInStep(c, fs, hs), Len(fs) # 0,
           NEW r \in DOMAIN c.regions, HasHandler(c, fs[Len(fs)], r),
           \A s \in DOMAIN c.regions : HasHandler(c, fs[Len(fs)], s) => s <= r
    PROVE  /\ Len(hs) \in Nat \ {0} /\ Len(hs) \in DOMAIN hs
           /\ \A i \in DOMAIN hs : hs[i].handler = r /\ hs[i].depth = Len(fs) <=> i = Len(hs)
<1> DEFINE n == Len(fs)
<1>1. /\ n \in Nat \ {0} /\ n \in DOMAIN fs /\ DOMAIN fs = 1 .. n
      /\ DOMAIN c.regions \subseteq Nat
  BY FramesStand DEF Shaped, Wired, IsSeq
<1>2. [handler |-> r, depth |-> n] \in Elems(hs)
  BY <1>1 DEF HandlersInStep
<1>3. PICK i \in DOMAIN hs : hs[i] = [handler |-> r, depth |-> n]
  BY <1>2 DEF Elems
<1>4. hs[i].handler = r /\ hs[i].depth = n
  BY <1>3
<1>5. hs \in Seq(Entry(c)) /\ DOMAIN hs = 1 .. Len(hs) /\ Len(hs) \in Nat
  BY DEF HandlersInStep
<1>6. \A j \in DOMAIN hs : /\ hs[j].handler \in DOMAIN c.regions /\ hs[j].depth \in DOMAIN fs
                           /\ HasHandler(c, fs[hs[j].depth], hs[j].handler)
  BY EntriesAre
<1>7. \A j, k \in DOMAIN hs : j < k => Below(hs[j], hs[k])
  BY DEF HandlersInStep
<1>8. \A j \in DOMAIN hs : ~(i < j)
  <2>1. SUFFICES ASSUME NEW j \in DOMAIN hs, i < j PROVE FALSE
    OBVIOUS
  <2>2. Below(hs[i], hs[j])
    BY <1>7, <2>1
  <2>3. hs[j].depth <= n /\ (hs[j].depth = n => hs[j].handler <= r)
    BY <1>1, <1>6
  <2>4. hs[j].depth \in Nat /\ hs[j].handler \in Nat /\ r \in Nat
    BY <1>1, <1>6
  <2> QED
    BY <1>1, <1>4, <2>2, <2>3, <2>4 DEF Below
<1>9. i = Len(hs)
  BY <1>5, <1>8
<1>10. ASSUME NEW j \in DOMAIN hs, hs[j].handler = r, hs[j].depth = n PROVE j = Len(hs)
  <2>1. SUFFICES ASSUME j < i PROVE FALSE
    BY <1>5, <1>9
  <2>2. Below(hs[j], hs[i])
    BY <1>7, <2>1
  <2> QED
    BY <1>1, <1>4, <1>10, <2>2 DEF Below
<1> QED
  BY <1>4, <1>5, <1>9, <1>10

LEMMA HandlerPopped ==
    ASSUME NEW c, Shaped(c), NEW fs, NEW hs, Stacked(c, fs), HandlersInStep(c, fs, hs), Len(fs) # 0,
           NEW gs, DOMAIN gs = DOMAIN fs, \A d \in DOMAIN fs : d # Len(fs) => gs[d] = fs[d],
           NEW r \in DOMAIN c.regions, HasHandler(c, fs[Len(fs)], r),
           \A s \in DOMAIN c.regions :
             /\ HasHandler(c, gs[Len(fs)], s) <=> HasHandler(c, fs[Len(fs)], s) /\ s # r
             /\ HasHandler(c, fs[Len(fs)], s) => s <= r
    PROVE  HandlersInStep(c, gs, SubSeq(hs, 1, Len(hs) - 1))
<1> DEFINE n == Len(fs)
           m == Len(hs)
           entry(s, d) == [handler |-> s, depth |-> d]
           ks == SubSeq(hs, 1, m - 1)
<1>1. n \in Nat \ {0} /\ n \in DOMAIN fs
  BY FramesStand
<1>2. /\ m \in Nat \ {0} /\ m \in DOMAIN hs
      /\ \A i \in DOMAIN hs : hs[i].handler = r /\ hs[i].depth = n <=> i = m
  BY EntryOnTop
<1>3. hs \in Seq(Entry(c)) /\ DOMAIN hs = 1 .. m
  BY DEF HandlersInStep
<1>4. /\ ks \in Seq(Entry(c)) /\ DOMAIN ks = 1 .. m - 1
      /\ \A i \in DOMAIN ks : ks[i] = hs[i]
  BY <1>2, <1>3
<1>5. \A i \in DOMAIN hs : hs[i] = entry(r, n) <=> i = m
  <2>1. \A i \in DOMAIN hs : hs[i] = entry(hs[i].handler, hs[i].depth)
    BY EntriesAre
  <2>2. entry(r, n).handler = r /\ entry(r, n).depth = n
    OBVIOUS
  <2> HIDE DEF entry, m, n
  <2> QED
    BY <1>2, <2>1, <2>2
<1>6. \A e : e \in Elems(ks) <=> e \in Elems(hs) /\ e # entry(r, n)
  <2> HIDE DEF ks, entry
  <2>1. \A i \in DOMAIN hs : i \in DOMAIN ks <=> i # m
    BY <1>2, <1>3, <1>4
  <2>2. DOMAIN ks \subseteq DOMAIN hs
    BY <1>2, <1>3, <1>4
  <2> HIDE DEF m
  <2> QED
    BY <1>4, <1>5, <2>1, <2>2 DEF Elems
<1>7. \A s, d : entry(s, d) = entry(r, n) <=> s = r /\ d = n
  <2>1. \A s, d : entry(s, d).handler = s /\ entry(s, d).depth = d
    OBVIOUS
  <2> HIDE DEF entry, n
  <2> QED
    BY <2>1
<1>8. \A d \in Nat \ {0}, s \in DOMAIN c.regions :
        entry(s, d) \in Elems(hs) <=> d \in DOMAIN fs /\ HasHandler(c, fs[d], s)
  BY DEF HandlersInStep
<1>9. ASSUME NEW d \in Nat \ {0}, NEW s \in DOMAIN c.regions
      PROVE  entry(s, d) \in Elems(ks) <=> d \in DOMAIN gs /\ HasHandler(c, gs[d], s)
  <2> HIDE DEF ks, entry
  <2> QED
    BY <1>1, <1>6, <1>7, <1>8
<1>10. \A i, j \in DOMAIN ks : i < j => Below(ks[i], ks[j])
  <2>1. DOMAIN ks \subseteq DOMAIN hs
    BY <1>2, <1>3, <1>4
  <2> HIDE DEF ks
  <2> QED
    BY <1>4, <2>1 DEF HandlersInStep
<1> QED
  BY <1>4, <1>9, <1>10 DEF HandlersInStep

(* Without frames nothing is open.                                         *)
LEMMA NothingOpen ==
    ASSUME NEW c, NEW hs, NEW ss
    PROVE  InStep(c, <<>>, hs, ss) <=> hs = <<>> /\ ss = {}
<1>1. /\ Stacked(c, <<>>) /\ DOMAIN <<>> = {}
      /\ <<>> \in Seq(Entry(c)) /\ Elems(<<>>) = {}
  BY DEF Stacked, Elems
<1>2. hs = <<>> /\ ss = {} => InStep(c, <<>>, hs, ss)
  BY <1>1 DEF InStep, SlotsInStep, HandlersInStep
<1>3. ASSUME InStep(c, <<>>, hs, ss) PROVE ss = {}
  <2>1. SUFFICES ASSUME NEW s \in ss PROVE FALSE
    OBVIOUS
  <2>2. s \in Slot(c)
    BY <1>3 DEF InStep, SlotsInStep
  <2>3. /\ s = [region |-> s.region, depth |-> s.depth]
        /\ s.region \in DOMAIN c.regions /\ s.depth \in Nat \ {0}
    BY <2>2 DEF Slot
  <2> QED
    BY <1>1, <1>3, <2>3 DEF InStep, SlotsInStep
<1>4. ASSUME InStep(c, <<>>, hs, ss) PROVE hs = <<>>
  <2>1. hs \in Seq(Entry(c)) /\ HandlersInStep(c, <<>>, hs)
    BY <1>4 DEF InStep, HandlersInStep
  <2>2. \A i \in DOMAIN hs : FALSE
    BY <1>1, <2>1, EntriesAre
  <2> QED
    BY <2>1, <2>2
<1> QED
  BY <1>2, <1>3, <1>4

(* A frame that starts at a block where nothing is open, on one that waits.*)
LEMMA Called ==
    ASSUME NEW c, Shaped(c), NEW fs, NEW hs, NEW ss, InStep(c, fs, hs, ss),
           Len(fs) # 0 => Waits(c, fs[Len(fs)]),
           NEW g, NEW env, g \in FrameOf(c, {env}), g.pc = 1,
           \A r \in DOMAIN c.regions : g.at \notin Inside(c, r),
           NEW gs, gs = Append(fs, g)
    PROVE  InStep(c, gs, hs, ss)
<1>1. /\ Stacked(c, gs) /\ DOMAIN gs = 1 .. Len(fs) + 1
      /\ gs[Len(fs) + 1] = g
      /\ \A d \in DOMAIN fs : gs[d] = fs[d]
  <2>1. Stacked(c, fs)
    BY DEF InStep
  <2>2. Stacked(c, gs)
    BY <2>1, FramePushed
  <2>3. DOMAIN gs = 1 .. Len(fs) + 1
    BY <2>1, FramePushed
  <2>4. gs[Len(fs) + 1] = g
    BY <2>1, FramePushed
  <2>5. \A d \in DOMAIN fs : gs[d] = fs[d]
    BY <2>1, FramePushed
  <2> QED
    BY <2>2, <2>3, <2>4, <2>5
<1>2. Len(fs) \in Nat /\ DOMAIN fs = 1 .. Len(fs)
  BY FramesStand DEF InStep
<1>3. \A r \in DOMAIN c.regions : ~HasRegion(c, g, r) /\ ~HasHandler(c, g, r)
  <2>1. Stands(c, g)
    BY DEF FrameOf, Stands
  <2> QED
    BY <2>1, AtStart
<1>4. \A d, r : r \in DOMAIN c.regions =>
        /\ d \in DOMAIN gs /\ HasRegion(c, gs[d], r) <=> d \in DOMAIN fs /\ HasRegion(c, fs[d], r)
        /\ d \in DOMAIN gs /\ HasHandler(c, gs[d], r) <=> d \in DOMAIN fs /\ HasHandler(c, fs[d], r)
  <2>1. \A d : d \in DOMAIN gs <=> d \in DOMAIN fs \/ d = Len(fs) + 1
    BY <1>1, <1>2
  <2>2. Len(fs) + 1 \notin DOMAIN fs
    BY <1>2
  <2> QED
    BY <1>1, <1>3, <2>1, <2>2
<1>5. SlotsInStep(c, gs, ss)
  BY <1>4 DEF InStep, SlotsInStep
<1>6. HandlersInStep(c, gs, hs)
  BY <1>4 DEF InStep, HandlersInStep
<1> QED
  BY <1>1, <1>5, <1>6 DEF InStep

(* A frame at a return has nothing open, and is left with nothing lost.    *)
LEMMA Returned ==
    ASSUME NEW c, Shaped(c), NEW fs, NEW hs, NEW ss, InStep(c, fs, hs, ss),
           Len(fs) # 0, fs[Len(fs)].pc > Len(InstsAt(c, fs[Len(fs)])),
           c.blocks[fs[Len(fs)].at].term.k = "Return",
           NEW gs, gs = SubSeq(fs, 1, Len(fs) - 1)
    PROVE  InStep(c, gs, hs, ss)
<1>1. /\ Stacked(c, gs) /\ DOMAIN gs = 1 .. Len(fs) - 1
      /\ \A d \in DOMAIN gs : gs[d] = fs[d]
  <2>1. Stacked(c, fs)
    BY DEF InStep
  <2>2. Stacked(c, gs)
    BY <2>1, FramePopped
  <2>3. DOMAIN gs = 1 .. Len(fs) - 1
    BY <2>1, FramePopped
  <2>4. \A d \in DOMAIN gs : gs[d] = fs[d]
    BY <2>1, FramePopped
  <2> QED
    BY <2>2, <2>3, <2>4
<1>2. Len(fs) \in Nat \ {0} /\ DOMAIN fs = 1 .. Len(fs) /\ Stands(c, fs[Len(fs)])
  BY FramesStand DEF InStep
<1>3. \A r \in DOMAIN c.regions : ~HasRegion(c, fs[Len(fs)], r) /\ ~HasHandler(c, fs[Len(fs)], r)
  <2>1. fs[Len(fs)].at \in DOMAIN c.blocks
    BY <1>2 DEF Stands
  <2>2. \A r \in DOMAIN c.regions : fs[Len(fs)].at \notin Extent(c, r)
    BY <2>1 DEF Shaped, WellNested, IsNested
  <2> QED
    BY <1>2, <2>2, AtEnd
<1>4. \A d, r : r \in DOMAIN c.regions =>
        /\ d \in DOMAIN gs /\ HasRegion(c, gs[d], r) <=> d \in DOMAIN fs /\ HasRegion(c, fs[d], r)
        /\ d \in DOMAIN gs /\ HasHandler(c, gs[d], r) <=> d \in DOMAIN fs /\ HasHandler(c, fs[d], r)
  <2>1. \A d : d \in DOMAIN fs <=> d \in DOMAIN gs \/ d = Len(fs)
    BY <1>1, <1>2
  <2>2. Len(fs) \notin DOMAIN gs
    BY <1>1, <1>2
  <2> QED
    BY <1>1, <1>3, <2>1, <2>2
<1>5. SlotsInStep(c, gs, ss)
  BY <1>4 DEF InStep, SlotsInStep
<1>6. HandlersInStep(c, gs, hs)
  BY <1>4 DEF InStep, HandlersInStep
<1> QED
  BY <1>1, <1>5, <1>6 DEF InStep

(* The last frame goes on along an edge of its block.                      *)
LEMMA WentOn ==
    ASSUME NEW c, Shaped(c), NEW fs, NEW hs, NEW ss, InStep(c, fs, hs, ss),
           Len(fs) # 0, fs[Len(fs)].pc > Len(InstsAt(c, fs[Len(fs)])),
           NEW g, NEW env, g = [at |-> g.at, pc |-> 1, env |-> env],
           g.at \in Elems(c.blocks[fs[Len(fs)].at].term.succ),
           NEW gs, gs = [fs EXCEPT ![Len(fs)] = g]
    PROVE  InStep(c, gs, hs, ss)
<1> DEFINE f == fs[Len(fs)]
<1>1. Stacked(c, fs) /\ Stands(c, f)
  BY FramesStand DEF InStep
<1>2. g.pc = 1 /\ g.env = env
  OBVIOUS
<1>3. Stands(c, g) /\ Alike(c, f, g)
  BY <1>1, <1>2, Crossing
<1>4. g \in FrameOf(c, {env})
  BY <1>2, <1>3 DEF FrameOf, Stands
<1>5. /\ Stacked(c, gs) /\ DOMAIN gs = DOMAIN fs /\ gs[Len(fs)] = g
      /\ \A d \in DOMAIN fs : d # Len(fs) => gs[d] = fs[d]
  <2>1. Stacked(c, gs)
    BY <1>1, <1>4, LastReplaced
  <2>2. DOMAIN gs = DOMAIN fs
    BY <1>1, <1>4, LastReplaced
  <2>3. gs[Len(fs)] = g
    BY <1>1, <1>4, LastReplaced
  <2>4. \A d \in DOMAIN fs : d # Len(fs) => gs[d] = fs[d]
    BY <1>1, <1>4, LastReplaced
  <2> QED
    BY <2>1, <2>2, <2>3, <2>4
<1>6. \A d \in DOMAIN fs : gs[d] = fs[d] \/ Alike(c, fs[d], gs[d])
  BY <1>3, <1>5
<1> QED
  BY <1>5, <1>6, StaysInStep

(* The last frame behind an instruction of its block.                      *)
Moved(fs, env) ==
    [fs EXCEPT ![Len(fs)] = [at |-> fs[Len(fs)].at, pc |-> fs[Len(fs)].pc + 1, env |-> env]]

LEMMA MovedFrame ==
    ASSUME NEW c, NEW fs, Stacked(c, fs), Len(fs) # 0, NEW env, NEW gs, gs = Moved(fs, env)
    PROVE  /\ Stacked(c, gs) /\ DOMAIN gs = DOMAIN fs
           /\ Stands(c, fs[Len(fs)])
           /\ gs[Len(fs)].at = fs[Len(fs)].at /\ gs[Len(fs)].pc = fs[Len(fs)].pc + 1
           /\ \A d \in DOMAIN fs : d # Len(fs) => gs[d] = fs[d]
<1> DEFINE f == fs[Len(fs)]
           g == [at |-> f.at, pc |-> f.pc + 1, env |-> env]
<1>1. Stands(c, f)
  BY FramesStand
<1>2. g \in FrameOf(c, {env})
  BY <1>1 DEF Stands, FrameOf
<1>3. gs = [fs EXCEPT ![Len(fs)] = g]
  BY DEF Moved
<1>4. g.at = f.at /\ g.pc = f.pc + 1
  OBVIOUS
<1> HIDE DEF g
<1>5. Stacked(c, gs)
  BY <1>2, <1>3, LastReplaced
<1>6. DOMAIN gs = DOMAIN fs
  BY <1>2, <1>3, LastReplaced
<1>7. gs[Len(fs)] = g
  BY <1>2, <1>3, LastReplaced
<1>8. \A d \in DOMAIN fs : d # Len(fs) => gs[d] = fs[d]
  BY <1>2, <1>3, LastReplaced
<1> QED
  BY <1>1, <1>4, <1>5, <1>6, <1>7, <1>8

LEMMA MovedPlain ==
    ASSUME NEW c, Shaped(c), NEW fs, NEW hs, NEW ss, InStep(c, fs, hs, ss), Len(fs) # 0,
           fs[Len(fs)].pc <= Len(InstsAt(c, fs[Len(fs)])),
           InstsAt(c, fs[Len(fs)])[fs[Len(fs)].pc].k \notin Brackets,
           NEW env, NEW gs, gs = Moved(fs, env)
    PROVE  InStep(c, gs, hs, ss)
<1>1. Stacked(c, fs)
  BY DEF InStep
<1>2. Stacked(c, gs) /\ DOMAIN gs = DOMAIN fs
  BY <1>1, MovedFrame
<1>3. Stands(c, fs[Len(fs)])
  BY <1>1, MovedFrame
<1>4. gs[Len(fs)].at = fs[Len(fs)].at /\ gs[Len(fs)].pc = fs[Len(fs)].pc + 1
  BY <1>1, MovedFrame
<1>5. \A d \in DOMAIN fs : d # Len(fs) => gs[d] = fs[d]
  BY <1>1, MovedFrame
<1>6. Alike(c, fs[Len(fs)], gs[Len(fs)])
  BY <1>3, <1>4, StepPlain
<1>7. \A d \in DOMAIN fs : gs[d] = fs[d] \/ Alike(c, fs[d], gs[d])
  BY <1>5, <1>6
<1> QED
  BY <1>2, <1>7, StaysInStep

(* The same behind the four instructions that bracket.                     *)
LEMMA MovedOpening ==
    ASSUME NEW c, Shaped(c), NEW fs, NEW hs, NEW ss, InStep(c, fs, hs, ss), Len(fs) # 0,
           NEW r \in DOMAIN c.regions, InstsAt(c, fs[Len(fs)]) = Opening(r),
           NEW env, NEW gs, gs = Moved(fs, env)
    PROVE  /\ fs[Len(fs)].pc = 1 => InStep(c, gs, hs, ss \cup {[region |-> r, depth |-> Len(fs)]})
           /\ fs[Len(fs)].pc = 2 => InStep(c, gs, Append(hs, [handler |-> r, depth |-> Len(fs)]), ss)
<1> DEFINE n == Len(fs)
<1>1. Stacked(c, fs) /\ SlotsInStep(c, fs, ss) /\ HandlersInStep(c, fs, hs)
  BY DEF InStep
<1>2. Stacked(c, gs) /\ DOMAIN gs = DOMAIN fs
  BY <1>1, MovedFrame
<1>3. Stands(c, fs[n])
  BY <1>1, MovedFrame
<1>4. gs[n].at = fs[n].at /\ gs[n].pc = fs[n].pc + 1
  BY <1>1, MovedFrame
<1>5. \A d \in DOMAIN fs : d # n => gs[d] = fs[d]
  BY <1>1, MovedFrame
<1>6. ASSUME fs[n].pc = 1
      PROVE  InStep(c, gs, hs, ss \cup {[region |-> r, depth |-> n]})
  <2>1. \A s \in DOMAIN c.regions :
          /\ HasRegion(c, gs[n], s) <=> HasRegion(c, fs[n], s) \/ s = r
          /\ HasHandler(c, gs[n], s) <=> HasHandler(c, fs[n], s)
    BY <1>3, <1>4, <1>6, StepOpening
  <2>2. SlotsInStep(c, gs, ss \cup {[region |-> r, depth |-> n]})
    BY <1>1, <1>2, <1>5, <2>1, SlotsFollow
  <2>3. HandlersInStep(c, gs, hs)
    <3>1. \A d \in DOMAIN fs, s \in DOMAIN c.regions :
            HasHandler(c, gs[d], s) <=> HasHandler(c, fs[d], s)
      BY <1>5, <2>1
    <3> QED
      BY <1>1, <1>2, <3>1 DEF HandlersInStep
  <2> QED
    BY <1>2, <2>2, <2>3 DEF InStep
<1>7. ASSUME fs[n].pc = 2
      PROVE  InStep(c, gs, Append(hs, [handler |-> r, depth |-> n]), ss)
  <2>1. \A s \in DOMAIN c.regions :
          /\ HasRegion(c, gs[n], s) <=> HasRegion(c, fs[n], s)
          /\ HasHandler(c, gs[n], s) <=> HasHandler(c, fs[n], s) \/ s = r
          /\ HasHandler(c, fs[n], s) => s < r
    BY <1>3, <1>4, <1>7, StepOpening
  <2>2. HandlersInStep(c, gs, Append(hs, [handler |-> r, depth |-> n]))
    BY <1>1, <1>2, <1>5, <2>1, HandlerPushed
  <2>3. SlotsInStep(c, gs, ss)
    <3>1. \A d \in DOMAIN fs, s \in DOMAIN c.regions :
            HasRegion(c, gs[d], s) <=> HasRegion(c, fs[d], s)
      BY <1>5, <2>1
    <3> QED
      BY <1>1, <1>2, <3>1 DEF SlotsInStep
  <2> QED
    BY <1>2, <2>2, <2>3 DEF InStep
<1> QED
  BY <1>6, <1>7

LEMMA MovedClosing ==
    ASSUME NEW c, Shaped(c), NEW fs, NEW hs, NEW ss, InStep(c, fs, hs, ss), Len(fs) # 0,
           NEW r \in DOMAIN c.regions, InstsAt(c, fs[Len(fs)]) = Closing(r),
           NEW env, NEW gs, gs = Moved(fs, env)
    PROVE  /\ fs[Len(fs)].pc = 1 => InStep(c, gs, SubSeq(hs, 1, Len(hs) - 1), ss)
           /\ fs[Len(fs)].pc = 2 => InStep(c, gs, hs, ss \ {[region |-> r, depth |-> Len(fs)]})
<1> DEFINE n == Len(fs)
<1>1. Stacked(c, fs) /\ SlotsInStep(c, fs, ss) /\ HandlersInStep(c, fs, hs)
  BY DEF InStep
<1>2. Stacked(c, gs) /\ DOMAIN gs = DOMAIN fs
  BY <1>1, MovedFrame
<1>3. Stands(c, fs[n])
  BY <1>1, MovedFrame
<1>4. gs[n].at = fs[n].at /\ gs[n].pc = fs[n].pc + 1
  BY <1>1, MovedFrame
<1>5. \A d \in DOMAIN fs : d # n => gs[d] = fs[d]
  BY <1>1, MovedFrame
<1>6. ASSUME fs[n].pc = 1
      PROVE  InStep(c, gs, SubSeq(hs, 1, Len(hs) - 1), ss)
  <2>1. \A s \in DOMAIN c.regions :
          /\ HasRegion(c, gs[n], s) <=> HasRegion(c, fs[n], s)
          /\ HasHandler(c, gs[n], s) <=> HasHandler(c, fs[n], s) /\ s # r
          /\ HasHandler(c, fs[n], s) => s <= r
    BY <1>3, <1>4, <1>6, StepClosing
  <2>2. HasHandler(c, fs[n], r)
    BY <1>3, <1>4, <1>6, StepClosing
  <2>3. HandlersInStep(c, gs, SubSeq(hs, 1, Len(hs) - 1))
    BY <1>1, <1>2, <1>5, <2>1, <2>2, HandlerPopped
  <2>4. SlotsInStep(c, gs, ss)
    <3>1. \A d \in DOMAIN fs, s \in DOMAIN c.regions :
            HasRegion(c, gs[d], s) <=> HasRegion(c, fs[d], s)
      BY <1>5, <2>1
    <3> QED
      BY <1>1, <1>2, <3>1 DEF SlotsInStep
  <2> QED
    BY <1>2, <2>3, <2>4 DEF InStep
<1>7. ASSUME fs[n].pc = 2
      PROVE  InStep(c, gs, hs, ss \ {[region |-> r, depth |-> n]})
  <2>1. \A s \in DOMAIN c.regions :
          /\ HasHandler(c, gs[n], s) <=> HasHandler(c, fs[n], s)
          /\ HasRegion(c, gs[n], s) <=> HasRegion(c, fs[n], s) /\ s # r
    BY <1>3, <1>4, <1>7, StepClosing
  <2>2. SlotsInStep(c, gs, ss \ {[region |-> r, depth |-> n]})
    BY <1>1, <1>2, <1>5, <2>1, SlotsFollow
  <2>3. HandlersInStep(c, gs, hs)
    <3>1. \A d \in DOMAIN fs, s \in DOMAIN c.regions :
            HasHandler(c, gs[d], s) <=> HasHandler(c, fs[d], s)
      BY <1>5, <2>1
    <3> QED
      BY <1>1, <1>2, <3>1 DEF HandlersInStep
  <2> QED
    BY <1>2, <2>2, <2>3 DEF InStep
<1> QED
  BY <1>6, <1>7

(* A frame that leaves a handler finds its own entry on top.               *)
LEMMA OwnEntryOnTop ==
    ASSUME NEW c, Shaped(c), NEW fs, NEW hs, NEW ss, InStep(c, fs, hs, ss), Len(fs) # 0,
           NEW r \in DOMAIN c.regions, InstsAt(c, fs[Len(fs)]) = Closing(r), fs[Len(fs)].pc = 1
    PROVE  /\ Len(hs) \in Nat \ {0} /\ Len(hs) \in DOMAIN hs
           /\ \A i \in DOMAIN hs : hs[i].handler = r /\ hs[i].depth = Len(fs) <=> i = Len(hs)
<1> DEFINE f == fs[Len(fs)]
           g == [at |-> f.at, pc |-> f.pc + 1]
<1>1. Stacked(c, fs) /\ HandlersInStep(c, fs, hs)
  BY DEF InStep
<1>2. Stands(c, f)
  BY <1>1, FramesStand
<1>3. g.at = f.at /\ g.pc = f.pc + 1
  OBVIOUS
<1> HIDE DEF g
<1>4. HasHandler(c, f, r) /\ \A s \in DOMAIN c.regions : HasHandler(c, f, s) => s <= r
  BY <1>2, <1>3, StepClosing
<1> QED
  BY <1>1, <1>4, EntryOnTop

-----------------------------------------------------------------------------
(* The machine keeps the three in step; what is refused never starts.      *)

Idle == frames = <<>> /\ handlers = <<>> /\ slots = {}

IInv ==
    /\ prog \in DOMAIN Cfgs /\ cfg = Cfgs[prog]
    /\ arg \in Inputs \cup {NoInput}
    /\ arg = NoInput \/ cfg.errors # {} => Idle
    /\ cfg.errors = {} => InStep(cfg, frames, handlers, slots)

LEMMA Initially == Init => IInv
<1> SUFFICES ASSUME Init PROVE IInv
  OBVIOUS
<1>1. frames = <<>> /\ handlers = <<>> /\ slots = {}
  BY DEF Init
<1>2. InStep(cfg, frames, handlers, slots)
  BY <1>1, NothingOpen
<1>3. prog \in DOMAIN Cfgs /\ cfg = Cfgs[prog] /\ arg = NoInput
  BY DEF Init
<1> QED
  BY <1>1, <1>2, <1>3 DEF IInv, Idle

(* What runs was compiled, and its last frame stands at a block.           *)
LEMMA InFrame ==
    ASSUME IInv, Running
    PROVE  /\ cfg.errors = {} /\ arg # NoInput
           /\ Shaped(cfg) /\ Place(cfg) = cfg
           /\ InStep(cfg, frames, handlers, slots) /\ Stacked(cfg, frames)
           /\ Depth \in Nat /\ Depth # 0 /\ Depth \in DOMAIN frames /\ Stands(cfg, frame)
           /\ frame = [at |-> frame.at, pc |-> frame.pc, env |-> frame.env]
           /\ InstsAt(cfg, frame) = block.insts
<1>1. frames # <<>> /\ cfg.errors = {} /\ arg # NoInput
  BY DEF IInv, Idle, Running
<1>2. Shaped(cfg) /\ Place(cfg) = cfg
  BY <1>1, CfgsAssumption DEF IInv, Shaped
<1>3. InStep(cfg, frames, handlers, slots) /\ Stacked(cfg, frames)
  BY <1>1 DEF IInv, InStep
<1>4. /\ Len(frames) \in Nat /\ DOMAIN frames = 1 .. Len(frames)
      /\ \A d \in DOMAIN frames : Stands(cfg, frames[d]) /\ frames[d] \in FrameOf(cfg, Envs(frames))
  BY <1>3, FramesStand
<1>5. Len(frames) # 0
  BY <1>1, <1>3 DEF Stacked
<1>6. Depth \in Nat /\ Depth # 0 /\ Depth \in DOMAIN frames
  BY <1>4, <1>5 DEF Depth
<1>7. Stands(cfg, frame) /\ frame = [at |-> frame.at, pc |-> frame.pc, env |-> frame.env]
  BY <1>4, <1>6 DEF frame, FrameOf
<1>8. InstsAt(cfg, frame) = block.insts
  BY DEF InstsAt, block
<1> QED
  BY <1>1, <1>2, <1>3, <1>6, <1>7, <1>8

LEMMA StillInStep ==
    ASSUME IInv, Running, UNCHANGED source, InStep(cfg, frames', handlers', slots')
    PROVE  IInv'
<1>1. cfg.errors = {} /\ arg # NoInput
  BY InFrame
<1>2. prog' = prog /\ arg' = arg /\ cfg' = cfg
  BY DEF source
<1> QED
  BY <1>1, <1>2 DEF IInv

(* The frames behind the instruction.                                      *)
LEMMA AdvancedIsMoved ==
    ASSUME IInv, Running
    PROVE  /\ Advanced = Moved(frames, frame.env)
           /\ \A x, v : [Advanced EXCEPT ![Depth].env[x] = v]
                          = Moved(frames, [frame.env EXCEPT ![x] = v])
<1>1. /\ Depth \in DOMAIN frames
      /\ frame = [at |-> frame.at, pc |-> frame.pc, env |-> frame.env]
  BY InFrame
<1>2. frames \in Seq(FrameOf(cfg, Envs(frames)))
  BY InFrame DEF Stacked
<1>3. [frame EXCEPT !.pc = @ + 1] = [at |-> frame.at, pc |-> frame.pc + 1, env |-> frame.env]
  BY <1>1
<1>4. Advanced = Moved(frames, frame.env)
  BY <1>3 DEF Advanced, Moved, Depth, frame
<1>5. ASSUME NEW x, NEW v
      PROVE  [Advanced EXCEPT ![Depth].env[x] = v] = Moved(frames, [frame.env EXCEPT ![x] = v])
  <2> DEFINE g == [at |-> frame.at, pc |-> frame.pc + 1, env |-> frame.env]
             h == [at |-> frame.at, pc |-> frame.pc + 1, env |-> [frame.env EXCEPT ![x] = v]]
  <2>1. Advanced = [frames EXCEPT ![Depth] = g]
    BY <1>4 DEF Moved, Depth, frame
  <2>2. Advanced[Depth] = g
    BY <1>1, <2>1
  <2>3. [g EXCEPT !.env[x] = v] = h
    OBVIOUS
  <2>4. [Advanced EXCEPT ![Depth].env[x] = v] = [Advanced EXCEPT ![Depth] = h]
    BY <2>2, <2>3
  <2>5. [Advanced EXCEPT ![Depth] = h] = [frames EXCEPT ![Depth] = h]
    <3> HIDE DEF g, h
    <3> QED
      BY <1>1, <2>1
  <2>6. Moved(frames, [frame.env EXCEPT ![x] = v]) = [frames EXCEPT ![Depth] = h]
    BY DEF Moved, Depth, frame
  <2> QED
    BY <2>4, <2>5, <2>6
<1> QED
  BY <1>4, <1>5

(* The instructions, one by one.                                           *)
LEMMA AssignKeeps == ASSUME IInv, Assign PROVE IInv'
<1>1. Running /\ frame.pc <= Len(block.insts) /\ inst.k = "Let"
  BY DEF Assign, AtInst
<1>2. UNCHANGED <<source, handlers, slots>>
  BY DEF Assign
<1>3. frames' = Moved(frames, [frame.env EXCEPT ![inst.result] = Holds(inst.expr)])
  BY <1>1, AdvancedIsMoved DEF Assign
<1>4. inst.k \notin Brackets
  BY <1>1 DEF Brackets
<1>5. InStep(cfg, frames', handlers, slots)
  <2>1. Shaped(cfg) /\ InStep(cfg, frames, handlers, slots) /\ Len(frames) # 0
    BY <1>1, InFrame DEF Depth
  <2>2. /\ frames[Len(frames)].pc <= Len(InstsAt(cfg, frames[Len(frames)]))
        /\ InstsAt(cfg, frames[Len(frames)])[frames[Len(frames)].pc].k \notin Brackets
    BY <1>1, <1>4, InFrame DEF Depth, frame, inst
  <2> QED
    BY <1>3, <2>1, <2>2, MovedPlain
<1> QED
  BY <1>1, <1>2, <1>5, StillInStep

LEMMA BracketKeeps ==
    ASSUME IInv, Running, frame.pc <= Len(block.insts), inst.k \in Brackets
    PROVE  /\ inst.k = "RegionEnter" =>
                InStep(cfg, Advanced, handlers, slots \cup {[region |-> inst.region, depth |-> Depth]})
           /\ inst.k = "HandlerEnter" =>
                InStep(cfg, Advanced, Append(handlers, [handler |-> inst.handler, depth |-> Depth]), slots)
           /\ inst.k = "HandlerExit" =>
                /\ Len(handlers) \in Nat \ {0} /\ Len(handlers) \in DOMAIN handlers
                /\ \A i \in DOMAIN handlers :
                     handlers[i].handler = inst.handler /\ handlers[i].depth = Depth <=> i = Len(handlers)
                /\ InStep(cfg, Advanced, SubSeq(handlers, 1, Len(handlers) - 1), slots)
           /\ inst.k = "RegionExit" =>
                InStep(cfg, Advanced, handlers, slots \ {[region |-> inst.region, depth |-> Depth]})
<1>1. Shaped(cfg) /\ InStep(cfg, frames, handlers, slots) /\ Len(frames) # 0
  BY InFrame DEF Depth
<1>2. Stands(cfg, frame) /\ InstsAt(cfg, frame) = block.insts /\ frame = frames[Len(frames)]
  BY InFrame DEF frame, Depth
<1>3. Advanced = Moved(frames, frame.env) /\ Depth = Len(frames)
  BY AdvancedIsMoved DEF Depth
<1>4. frame.pc <= Len(InstsAt(cfg, frame)) /\ InstsAt(cfg, frame)[frame.pc] = inst
  BY <1>2 DEF inst
<1>5. /\ inst.k = "RegionEnter" => /\ inst.region \in DOMAIN cfg.regions /\ frame.pc = 1
                                   /\ InstsAt(cfg, frame) = Opening(inst.region)
      /\ inst.k = "HandlerEnter" => /\ inst.handler \in DOMAIN cfg.regions /\ frame.pc = 2
                                    /\ InstsAt(cfg, frame) = Opening(inst.handler)
      /\ inst.k = "HandlerExit" => /\ inst.handler \in DOMAIN cfg.regions /\ frame.pc = 1
                                   /\ InstsAt(cfg, frame) = Closing(inst.handler)
      /\ inst.k = "RegionExit" => /\ inst.region \in DOMAIN cfg.regions /\ frame.pc = 2
                                  /\ InstsAt(cfg, frame) = Closing(inst.region)
  BY <1>1, <1>2, <1>4, BracketAt
<1>6. ASSUME inst.k = "RegionEnter"
      PROVE  InStep(cfg, Advanced, handlers, slots \cup {[region |-> inst.region, depth |-> Depth]})
  BY <1>1, <1>2, <1>3, <1>5, <1>6, MovedOpening
<1>7. ASSUME inst.k = "HandlerEnter"
      PROVE  InStep(cfg, Advanced, Append(handlers, [handler |-> inst.handler, depth |-> Depth]), slots)
  BY <1>1, <1>2, <1>3, <1>5, <1>7, MovedOpening
<1>8. ASSUME inst.k = "HandlerExit"
      PROVE  /\ Len(handlers) \in Nat \ {0} /\ Len(handlers) \in DOMAIN handlers
             /\ \A i \in DOMAIN handlers :
                  handlers[i].handler = inst.handler /\ handlers[i].depth = Depth <=> i = Len(handlers)
             /\ InStep(cfg, Advanced, SubSeq(handlers, 1, Len(handlers) - 1), slots)
  <2>1. inst.handler \in DOMAIN cfg.regions /\ InstsAt(cfg, frame) = Closing(inst.handler) /\ frame.pc = 1
    BY <1>5, <1>8
  <2>2. Len(handlers) \in Nat \ {0} /\ Len(handlers) \in DOMAIN handlers
    BY <1>1, <1>2, <2>1, OwnEntryOnTop
  <2>3. \A i \in DOMAIN handlers :
          handlers[i].handler = inst.handler /\ handlers[i].depth = Depth <=> i = Len(handlers)
    BY <1>1, <1>2, <1>3, <2>1, OwnEntryOnTop
  <2>4. InStep(cfg, Advanced, SubSeq(handlers, 1, Len(handlers) - 1), slots)
    BY <1>1, <1>2, <1>3, <2>1, MovedClosing
  <2> QED
    BY <2>2, <2>3, <2>4
<1>9. ASSUME inst.k = "RegionExit"
      PROVE  InStep(cfg, Advanced, handlers, slots \ {[region |-> inst.region, depth |-> Depth]})
  BY <1>1, <1>2, <1>3, <1>5, <1>9, MovedClosing
<1> QED
  BY <1>6, <1>7, <1>8, <1>9

LEMMA RegionEnterKeeps == ASSUME IInv, RegionEnter PROVE IInv'
<1>1. Running /\ frame.pc <= Len(block.insts) /\ inst.k = "RegionEnter"
  BY DEF RegionEnter, AtInst
<1>2. InStep(cfg, Advanced, handlers, slots \cup {[region |-> inst.region, depth |-> Depth]})
  BY <1>1, BracketKeeps DEF Brackets
<1>3. /\ frames' = Advanced /\ handlers' = handlers /\ UNCHANGED source
      /\ slots' = slots \cup {[region |-> inst.region, depth |-> Depth]}
  BY DEF RegionEnter
<1> QED
  BY <1>1, <1>2, <1>3, StillInStep

LEMMA HandlerEnterKeeps == ASSUME IInv, HandlerEnter PROVE IInv'
<1>1. Running /\ frame.pc <= Len(block.insts) /\ inst.k = "HandlerEnter"
  BY DEF HandlerEnter, AtInst
<1>2. InStep(cfg, Advanced, Append(handlers, [handler |-> inst.handler, depth |-> Depth]), slots)
  BY <1>1, BracketKeeps DEF Brackets
<1>3. /\ frames' = Advanced /\ slots' = slots /\ UNCHANGED source
      /\ handlers' = Append(handlers, [handler |-> inst.handler, depth |-> Depth])
  BY DEF HandlerEnter
<1> QED
  BY <1>1, <1>2, <1>3, StillInStep

(* The unwinding stops at the first entry it looks at: the frame's own is  *)
(* on top.                                                                 *)
LEMMA HandlerExitPops ==
    ASSUME IInv, HandlerExit
    PROVE  /\ Len(handlers) \in DOMAIN handlers
           /\ handlers[Len(handlers)].handler = inst.handler
           /\ handlers[Len(handlers)].depth = Depth
           /\ handlers' = SubSeq(handlers, 1, Len(handlers) - 1)
           /\ InStep(cfg, Advanced, handlers', slots)
<1> DEFINE m == Len(handlers)
           is == {i \in DOMAIN handlers : handlers[i].handler = inst.handler /\ handlers[i].depth = Depth}
           top == CHOOSE i \in is : \A j \in is : j <= i
<1>1. Running /\ frame.pc <= Len(block.insts) /\ inst.k = "HandlerExit"
  BY DEF HandlerExit, AtInst
<1>2. /\ m \in Nat \ {0} /\ m \in DOMAIN handlers
      /\ \A i \in DOMAIN handlers :
           handlers[i].handler = inst.handler /\ handlers[i].depth = Depth <=> i = m
      /\ InStep(cfg, Advanced, SubSeq(handlers, 1, m - 1), slots)
  BY <1>1, BracketKeeps DEF Brackets
<1>3. is = {m}
  BY <1>2
<1>4. top = m
  <2> HIDE DEF is
  <2> QED
    BY <1>2, <1>3
<1>5. Topmost(LAMBDA h : h.handler = inst.handler /\ h.depth = Depth) = m
  BY <1>3, <1>4 DEF Topmost
<1>6. handlers' = SubSeq(handlers, 1, m - 1)
  BY <1>2, <1>5 DEF HandlerExit
<1> QED
  BY <1>2, <1>6

LEMMA HandlerExitKeeps == ASSUME IInv, HandlerExit PROVE IInv'
<1>1. Running /\ frames' = Advanced /\ slots' = slots /\ UNCHANGED source
  BY DEF HandlerExit, AtInst
<1> QED
  BY <1>1, HandlerExitPops, StillInStep

LEMMA RegionExitKeeps == ASSUME IInv, RegionExit PROVE IInv'
<1>1. Running /\ frame.pc <= Len(block.insts) /\ inst.k = "RegionExit"
  BY DEF RegionExit, AtInst
<1>2. InStep(cfg, Advanced, handlers, slots \ {[region |-> inst.region, depth |-> Depth]})
  BY <1>1, BracketKeeps DEF Brackets
<1>3. /\ frames' = Advanced /\ handlers' = handlers /\ UNCHANGED source
      /\ slots' = slots \ {[region |-> inst.region, depth |-> Depth]}
  BY DEF RegionExit
<1> QED
  BY <1>1, <1>2, <1>3, StillInStep

(* The terminators.                                                        *)
LEMMA AtIsFrame ==
    ASSUME NEW f, f = [at |-> f.at, pc |-> f.pc, env |-> f.env], NEW b, NEW vals
    PROVE  /\ At(f, b, vals) = [at |-> b, pc |-> 1, env |-> At(f, b, vals).env]
           /\ At(f, b, vals).at = b /\ At(f, b, vals).pc = 1
<1> DEFINE e == Put(f.env, cfg.blocks[b].params, vals)
<1>1. At(f, b, vals) = [f EXCEPT !.at = b, !.pc = 1, !.env = e]
  BY DEF At
<1> HIDE DEF e
<1>2. At(f, b, vals) = [at |-> b, pc |-> 1, env |-> e]
  BY <1>1
<1> QED
  BY <1>2

LEMMA AtBranch ==
    ASSUME IInv, Running, frame.pc > Len(block.insts), UNCHANGED source,
           NEW b \in Elems(term.succ), NEW vals,
           frames' = [frames EXCEPT ![Depth] = At(frame, b, vals)],
           UNCHANGED <<handlers, slots>>
    PROVE  IInv'
<1>1. Shaped(cfg) /\ InStep(cfg, frames, handlers, slots) /\ Len(frames) # 0
  BY InFrame DEF Depth
<1>2. InstsAt(cfg, frame) = block.insts /\ frame = frames[Len(frames)] /\ Depth = Len(frames)
  BY InFrame DEF frame, Depth
<1> DEFINE g == At(frame, b, vals)
<1>3. g = [at |-> g.at, pc |-> 1, env |-> g.env] /\ g.at = b
  BY InFrame, AtIsFrame
<1>4. b \in Elems(cfg.blocks[frames[Len(frames)].at].term.succ)
  BY <1>2 DEF term, block
<1>5. frames[Len(frames)].pc > Len(InstsAt(cfg, frames[Len(frames)]))
  BY <1>2
<1> HIDE DEF g
<1>6. frames' = [frames EXCEPT ![Len(frames)] = g]
  BY <1>2 DEF g
<1>7. InStep(cfg, frames', handlers, slots)
  BY <1>1, <1>3, <1>4, <1>5, <1>6, WentOn
<1> QED
  BY <1>7, StillInStep

LEMMA GotoKeeps == ASSUME IInv, Goto PROVE IInv'
<1>1. Running /\ frame.pc > Len(block.insts) /\ term.k = "Goto"
  BY DEF Goto, AtTerm
<1>2. term.succ[1] \in Elems(term.succ)
  <2>1. Shaped(cfg) /\ frame.at \in DOMAIN cfg.blocks
    BY <1>1, InFrame DEF Stands
  <2>2. 1 \in DOMAIN term.succ
    BY <1>1, <2>1 DEF Shaped, Wired, term, block
  <2> QED
    BY <2>2 DEF Elems
<1>3. /\ frames' = [frames EXCEPT ![Depth] = At(frame, term.succ[1], Given)]
      /\ UNCHANGED <<handlers, slots>> /\ UNCHANGED source
  BY DEF Goto, frame
<1> QED
  BY <1>1, <1>2, <1>3, AtBranch

LEMMA SelectKeeps == ASSUME IInv, Select PROVE IInv'
<1>1. Running /\ frame.pc > Len(block.insts)
  BY DEF Select, AtTerm
<1>2. PICK arm : /\ arm \in DOMAIN term.succ
                 /\ frames' = [frames EXCEPT ![Depth] = At(@, term.succ[arm], <<>>)]
  BY DEF Select
<1>3. /\ frames' = [frames EXCEPT ![Depth] = At(frame, term.succ[arm], <<>>)]
      /\ UNCHANGED <<handlers, slots>> /\ UNCHANGED source
  BY <1>2 DEF Select, frame
<1>4. term.succ[arm] \in Elems(term.succ)
  BY <1>2 DEF Elems
<1> QED
  BY <1>1, <1>3, <1>4, AtBranch

(* A function starts where nothing is open.                                *)
LEMMA EnteredIsFrame ==
    ASSUME NEW c, Shaped(c), c = cfg, NEW f \in DOMAIN c.functions, NEW vals
    PROVE  /\ Entered(f, vals) \in FrameOf(c, {Entered(f, vals).env})
           /\ Entered(f, vals).pc = 1
           /\ \A r \in DOMAIN c.regions : Entered(f, vals).at \notin Inside(c, r)
<1> DEFINE f0 == [at |-> 0, pc |-> 1, env |-> [v \in 0 .. cfg.values |-> Garbage]]
           e == c.functions[f].entry
           g == Entered(f, vals)
<1>1. g = At(f0, e, vals) /\ f0 = [at |-> f0.at, pc |-> f0.pc, env |-> f0.env]
  BY DEF Entered
<1>2. g = [at |-> e, pc |-> 1, env |-> g.env] /\ g.at = e /\ g.pc = 1
  <2> HIDE DEF f0, g, e
  <2> QED
    BY <1>1, AtIsFrame
<1>3. c.functions[f] \in Elems(c.functions)
  BY DEF Elems
<1>4. e \in DOMAIN c.blocks /\ \A r \in DOMAIN c.regions : e \notin Inside(c, r)
  BY <1>3 DEF Shaped, Wired, WellNested, IsNested
<1> HIDE DEF g, e
<1>5. g \in FrameOf(c, {g.env})
  BY <1>2, <1>4 DEF FrameOf
<1> QED
  BY <1>2, <1>4, <1>5 DEF g

LEMMA EnterKeeps ==
    ASSUME IInv, Running, frame.pc > Len(block.insts), term.k \in {"Call", "Perform"},
           NEW f \in DOMAIN cfg.functions, Enter(f)
    PROVE  IInv'
<1> DEFINE g == Entered(f, Given)
<1>1. Shaped(cfg) /\ InStep(cfg, frames, handlers, slots)
  BY InFrame
<1>2. Waits(cfg, frames[Len(frames)])
  BY InFrame DEF Waits, InstsAt, frame, block, term, Depth
<1>3. /\ g \in FrameOf(cfg, {g.env}) /\ g.pc = 1
      /\ \A r \in DOMAIN cfg.regions : g.at \notin Inside(cfg, r)
  BY <1>1, EnteredIsFrame
<1>4. frames' = Append(frames, g) /\ UNCHANGED source /\ UNCHANGED <<handlers, slots>>
  BY DEF Enter
<1> HIDE DEF g
<1>5. InStep(cfg, frames', handlers, slots)
  BY <1>1, <1>2, <1>3, <1>4, Called
<1> QED
  BY <1>4, <1>5, StillInStep

LEMMA CallFunctionKeeps == ASSUME IInv, CallFunction PROVE IInv'
<1>1. Running /\ frame.pc > Len(block.insts) /\ term.k = "Call" /\ Enter(term.fn)
  BY DEF CallFunction, AtTerm
<1>2. term.fn \in DOMAIN cfg.functions
  <2>1. Shaped(cfg) /\ frame.at \in DOMAIN cfg.blocks
    BY <1>1, InFrame DEF Stands
  <2> QED
    BY <1>1, <2>1 DEF Shaped, Wired, term, block
<1> QED
  BY <1>1, <1>2, EnterKeeps

(* A scan from the top stops at the greatest place of those it looks for.  *)
LEMMA GreatestExists ==
    ASSUME NEW n \in Nat, NEW S, S \subseteq 1 .. n, S # {}
    PROVE  \E x \in S : \A y \in S : y <= x
<1> DEFINE HasGreatest(U) == \E x \in U : \A y \in U : y <= x
           T == {m \in Nat : \A U \in SUBSET (1 .. m) : U # {} => HasGreatest(U)}
<1>1. 0 \in T
  <2>1. 1 .. 0 = {}
    OBVIOUS
  <2> QED
    BY <2>1
<1>2. ASSUME NEW m \in Nat, m \in T PROVE m + 1 \in T
  <2>1. SUFFICES ASSUME NEW U \in SUBSET (1 .. m + 1), U # {} PROVE HasGreatest(U)
    OBVIOUS
  <2>2. \A y \in 1 .. m + 1 : y <= m + 1
    OBVIOUS
  <2>3. CASE m + 1 \in U
    BY <2>1, <2>2, <2>3
  <2>4. CASE m + 1 \notin U
    <3>1. U \in SUBSET (1 .. m)
      BY <2>1, <2>4
    <3> QED
      BY <1>2, <2>1, <3>1
  <2> QED
    BY <2>3, <2>4
<1> HIDE DEF T
<1>3. \A m \in Nat : m \in T
  BY <1>1, <1>2, NatBySteps
<1> QED
  BY <1>3 DEF T

(* What is found on the stack is a handler of the program.                 *)
LEMMA DispatcherIsEntry ==
    ASSUME IInv, Running, Dispatcher # 0
    PROVE  /\ Dispatcher \in DOMAIN handlers
           /\ cfg.regions[handlers[Dispatcher].handler].effect = term.eff
           /\ \A i \in DOMAIN handlers :
                cfg.regions[handlers[i].handler].effect = term.eff => i <= Dispatcher
<1> DEFINE is == {i \in DOMAIN handlers : cfg.regions[handlers[i].handler].effect = term.eff}
           top == CHOOSE i \in is : \A j \in is : j <= i
<1>1. Dispatcher = IF is = {} THEN 0 ELSE top
  BY DEF Dispatcher, Topmost
<1>2. is # {}
  BY <1>1
<1>3. is \subseteq DOMAIN handlers /\ DOMAIN handlers = 1 .. Len(handlers) /\ Len(handlers) \in Nat
  BY InFrame DEF InStep, HandlersInStep
<1>4. \E i \in is : \A j \in is : j <= i
  <2> HIDE DEF is
  <2> QED
    BY <1>2, <1>3, GreatestExists
<1>5. top \in is /\ \A j \in is : j <= top
  <2> HIDE DEF is
  <2> QED
    BY <1>4
<1> QED
  BY <1>1, <1>2, <1>5

LEMMA DispatchKeeps == ASSUME IInv, Dispatch PROVE IInv'
<1>1. Running /\ frame.pc > Len(block.insts) /\ term.k = "Perform"
  BY DEF Dispatch, AtTerm
<1>2. PICK f \in ClauseOf : Enter(f)
  BY DEF Dispatch
<1>3. Dispatcher # 0
  BY DEF ClauseOf
<1>4. handlers[Dispatcher].handler \in DOMAIN cfg.regions
  BY <1>1, <1>3, InFrame, DispatcherIsEntry, EntriesAre DEF InStep
<1>5. f \in DOMAIN cfg.functions
  <2>1. PICK t \in cfg.tables[handlers[Dispatcher].handler] : f = t[2]
    BY <1>2, <1>3 DEF ClauseOf
  <2> QED
    BY <1>1, <1>4, <2>1, InFrame DEF Shaped, Wired
<1> QED
  BY <1>1, <1>2, <1>5, EnterKeeps

LEMMA LeaveKeeps == ASSUME IInv, Leave PROVE IInv'
<1> DEFINE n == Depth - 1
           ms == SubSeq(frames, 1, n)
           caller == frames[n]
           site == cfg.blocks[caller.at].term
           vals == IF site.arity = 1 THEN Given ELSE <<>>
           g == At(caller, site.succ[1], vals)
<1>1. /\ Running /\ frame.pc > Len(block.insts) /\ term.k = "Return"
      /\ UNCHANGED source /\ UNCHANGED <<handlers, slots>>
  BY DEF Leave, AtTerm
<1>2. /\ Shaped(cfg) /\ InStep(cfg, frames, handlers, slots) /\ Stacked(cfg, frames)
      /\ Depth = Len(frames) /\ Depth \in Nat /\ Depth # 0
  BY <1>1, InFrame DEF Depth
<1>3. /\ frames[Len(frames)].pc > Len(InstsAt(cfg, frames[Len(frames)]))
      /\ cfg.blocks[frames[Len(frames)].at].term.k = "Return"
  BY <1>1, InFrame DEF frame, block, term, Depth
<1>4. InStep(cfg, ms, handlers, slots)
  BY <1>2, <1>3, Returned
<1>5. CASE Depth = 1
  <2>1. frames' = <<>>
    BY <1>5 DEF Leave
  <2>2. ms = <<>>
    BY <1>2, <1>5 DEF Stacked
  <2>3. InStep(cfg, frames', handlers, slots)
    BY <1>4, <2>1, <2>2
  <2> QED
    BY <1>1, <2>3, StillInStep
<1>6. CASE Depth # 1
  <2>1. Len(ms) = n /\ \A d \in 1 .. n : ms[d] = frames[d]
    BY <1>2, FramePopped
  <2>2. n \in 1 .. n /\ n \in DOMAIN frames /\ n < Len(frames) /\ n # 0
    BY <1>2, <1>6, FramesStand
  <2>3. Waits(cfg, caller) /\ Stands(cfg, caller) /\ caller \in FrameOf(cfg, Envs(frames))
    BY <1>2, <2>2, FramesStand DEF Stacked
  <2>4. caller.pc > Len(InstsAt(cfg, caller)) /\ site.k \in {"Call", "Perform"}
    BY <2>3 DEF Waits
  <2>5. site.succ[1] \in Elems(site.succ)
    <3>1. 1 \in DOMAIN site.succ
      BY <1>2, <2>3, <2>4 DEF Shaped, Wired, Stands
    <3> QED
      BY <3>1 DEF Elems
  <2>6. caller = [at |-> caller.at, pc |-> caller.pc, env |-> caller.env]
    BY <2>3 DEF FrameOf
  <2>7. g = [at |-> g.at, pc |-> 1, env |-> g.env] /\ g.at = site.succ[1]
    <3> HIDE DEF site, vals, caller
    <3> QED
      BY <2>6, AtIsFrame
  <2>8. frames' = [ms EXCEPT ![n] = g]
    BY <1>6 DEF Leave
  <2>9. ms[Len(ms)] = caller
    BY <2>1, <2>2
  <2>10. InStep(cfg, frames', handlers, slots)
    <3>1. site = cfg.blocks[ms[Len(ms)].at].term
      BY <2>9
    <3>2. frames' = [ms EXCEPT ![Len(ms)] = g] /\ Len(ms) # 0
      BY <2>1, <2>2, <2>8
    <3> HIDE DEF ms, g, site, caller, n
    <3>3. ms[Len(ms)].pc > Len(InstsAt(cfg, ms[Len(ms)]))
      BY <2>4, <2>9
    <3>4. g.at \in Elems(cfg.blocks[ms[Len(ms)].at].term.succ)
      BY <2>5, <2>7, <3>1
    <3> QED
      BY <1>2, <1>4, <2>7, <3>2, <3>3, <3>4, WentOn
  <2> QED
    BY <1>1, <2>10, StillInStep
<1> QED
  BY <1>5, <1>6

LEMMA StartKeeps == ASSUME IInv, Start PROVE IInv'
<1> DEFINE g == Entered(1, <<arg'>>)
<1>1. /\ cfg.errors = {} /\ arg' \in Inputs /\ frames' = <<g>>
      /\ prog' = prog /\ cfg' = cfg /\ handlers' = handlers /\ slots' = slots
      /\ frames = <<>> /\ handlers = <<>> /\ slots = {}
  BY DEF Start, IInv, Idle
<1>2. arg' # NoInput
  BY <1>1, InputsAssumption DEF NoInput
<1>3. Shaped(cfg)
  BY <1>1, CfgsAssumption DEF IInv, Shaped
<1>4. InStep(cfg, <<>>, handlers, slots)
  BY <1>1, NothingOpen
<1>5. /\ g \in FrameOf(cfg, {g.env}) /\ g.pc = 1
      /\ \A r \in DOMAIN cfg.regions : g.at \notin Inside(cfg, r)
  <2>1. 1 \in DOMAIN cfg.functions
    BY <1>3 DEF Shaped, Wired
  <2> QED
    BY <1>3, <2>1, EnteredIsFrame
<1>6. frames' = Append(<<>>, g) /\ Len(<<>>) = 0
  BY <1>1
<1> HIDE DEF g
<1>7. InStep(cfg, frames', handlers, slots)
  BY <1>3, <1>4, <1>5, <1>6, Called
<1> QED
  BY <1>1, <1>2, <1>7 DEF IInv

LEMMA Steps == IInv /\ [Next]_vars => IInv'
<1> SUFFICES ASSUME IInv, [Next]_vars PROVE IInv'
  OBVIOUS
<1>1. CASE Refuse
  BY <1>1 DEF Refuse, source, IInv, Idle
<1>2. CASE Start
  BY <1>2, StartKeeps
<1>3. CASE Assign
  BY <1>3, AssignKeeps
<1>4. CASE RegionEnter
  BY <1>4, RegionEnterKeeps
<1>5. CASE HandlerEnter
  BY <1>5, HandlerEnterKeeps
<1>6. CASE HandlerExit
  BY <1>6, HandlerExitKeeps
<1>7. CASE RegionExit
  BY <1>7, RegionExitKeeps
<1>8. CASE Goto
  BY <1>8, GotoKeeps
<1>9. CASE Select
  BY <1>9, SelectKeeps
<1>10. CASE CallFunction
  BY <1>10, CallFunctionKeeps
<1>11. CASE Dispatch
  BY <1>11, DispatchKeeps
<1>12. CASE Leave
  BY <1>12, LeaveKeeps
<1>13. CASE UNCHANGED vars
  BY <1>13 DEF vars, source, IInv, Idle
<1> QED
  BY <1>1, <1>2, <1>3, <1>4, <1>5, <1>6, <1>7, <1>8, <1>9, <1>10, <1>11, <1>12, <1>13 DEF Next

(* At every moment of every run the handlers on the stack, in the order in *)
(* which they nest, and the open regions are those that the blocks where   *)
(* the frames stand are inside of.                                         *)
THEOREM StacksMirrorBlocks == Spec => []IInv
<1>1. Init => IInv
  BY Initially
<1>2. IInv /\ [Next]_vars => IInv'
  BY Steps
<1> QED
  BY <1>1, <1>2, PTL DEF Spec

-----------------------------------------------------------------------------
(* What follows for the evidence.                                          *)

(* A handler that can be found has its region open: the region is entered  *)
(* before the handler and left behind it.                                  *)
LEMMA RegionAroundHandler ==
    ASSUME NEW c, Shaped(c), NEW f, Stands(c, f), NEW r, HasHandler(c, f, r)
    PROVE  HasRegion(c, f, r)
<1>1. f.pc \in Nat
  BY DEF Stands
<1>2. CASE \E s \in DOMAIN c.regions : InstsAt(c, f) \in {Opening(s), Closing(s)}
  <2>1. PICK s \in DOMAIN c.regions : InstsAt(c, f) \in {Opening(s), Closing(s)}
    BY <1>2
  <2>2. CASE InstsAt(c, f) = Opening(s)
    BY <1>1, <2>2, OpeningBlock DEF HasRegion, HasHandler
  <2>3. CASE InstsAt(c, f) = Closing(s)
    BY <1>1, <2>3, ClosingBlock DEF HasRegion, HasHandler
  <2> QED
    BY <2>1, <2>2, <2>3
<1>3. CASE \A i \in DOMAIN InstsAt(c, f) : InstsAt(c, f)[i].k \notin Brackets
  BY <1>3, PlainBlock DEF HasRegion, HasHandler
<1> QED
  BY <1>2, <1>3, BlockShapes DEF InstsAt, Stands

(* Whatever handler a perform finds on the stack, the frame that installed *)
(* it has not returned and the region with its evidence is open.           *)
THEOREM EvidenceStaysAlive == Spec => []EvidenceAlive
<1>1. IInv => EvidenceAlive
  <2> SUFFICES ASSUME IInv, NEW i \in DOMAIN handlers
               PROVE  /\ handlers[i].depth <= Depth
                      /\ [region |-> handlers[i].handler, depth |-> handlers[i].depth] \in slots
    BY DEF EvidenceAlive
  <2>1. cfg.errors = {}
    <3>1. handlers # <<>>
      OBVIOUS
    <3> QED
      BY <3>1 DEF IInv, Idle
  <2>2. InStep(cfg, frames, handlers, slots) /\ Shaped(cfg)
    BY <2>1, CfgsAssumption DEF IInv, Shaped
  <2> DEFINE d == handlers[i].depth
             r == handlers[i].handler
  <2>3. r \in DOMAIN cfg.regions /\ d \in DOMAIN frames /\ HasHandler(cfg, frames[d], r)
    BY <2>2, EntriesAre DEF InStep
  <2>4. Len(frames) \in Nat /\ DOMAIN frames = 1 .. Len(frames) /\ Stands(cfg, frames[d])
    BY <2>2, <2>3, FramesStand DEF InStep
  <2>5. HasRegion(cfg, frames[d], r)
    BY <2>2, <2>3, <2>4, RegionAroundHandler
  <2>6. d \in Nat \ {0} /\ d <= Depth
    BY <2>3, <2>4 DEF Depth
  <2>7. [region |-> r, depth |-> d] \in slots
    BY <2>2, <2>3, <2>5, <2>6 DEF InStep, SlotsInStep
  <2> QED
    BY <2>6, <2>7
<1> QED
  BY <1>1, StacksMirrorBlocks, PTL

(* While a region on the C stack is open, what its frame does at the end of*)
(* a block is what region.rs allowed when it placed the region there: no   *)
(* return, no call that may capture, no perform of another effect.         *)
THEOREM StackIsLeftInTime == Spec => []StackPlacement
<1>1. IInv => StackPlacement
  <2> SUFFICES ASSUME IInv, Running, frame.pc > Len(block.insts),
                      NEW s \in slots, s.depth = Depth, cfg.regions[s.region].placement = "Stack"
               PROVE  /\ term.k # "Return"
                      /\ term.k = "Call" => term.convention # "Control"
                      /\ term.k = "Perform" => term.eff = cfg.regions[s.region].effect
    BY DEF StackPlacement
  <2> DEFINE r == s.region
  <2>1. Shaped(cfg) /\ SlotsInStep(cfg, frames, slots) /\ Stands(cfg, frame)
    BY InFrame DEF InStep
  <2>2. s = [region |-> r, depth |-> s.depth] /\ r \in DOMAIN cfg.regions /\ s.depth \in Nat \ {0}
    <3>1. s \in Slot(cfg)
      BY <2>1 DEF SlotsInStep
    <3> QED
      BY <3>1 DEF Slot
  <2>3. HasRegion(cfg, frame, r)
    BY <2>1, <2>2 DEF SlotsInStep, frame
  <2>4. frame.at \in Extent(cfg, r)
    BY <2>1, <2>3, InFrame, AtEnd
  <2>5. ~Escapes(cfg, r)
    <3>1. Place(cfg) = cfg
      BY InFrame
    <3>2. Place(cfg).regions[r].placement = IF Escapes(cfg, r) THEN "Arena" ELSE "Stack"
      BY <2>2 DEF Place
    <3> QED
      BY <3>1, <3>2
  <2> QED
    BY <2>4, <2>5 DEF Escapes, term, block
<1> QED
  BY <1>1, StacksMirrorBlocks, PTL

(* A frame that leaves a handler finds its own entry on top of the stack:  *)
(* the unwinding of cielo_handler_pop never drops another's.               *)
OwnEntryPopped ==
    HandlerExit =>
      /\ handlers # <<>>
      /\ handlers[Len(handlers)] = [handler |-> inst.handler, depth |-> Depth]
      /\ handlers' = SubSeq(handlers, 1, Len(handlers) - 1)

THEOREM OnlyOwnIsPopped == Spec => [][OwnEntryPopped]_vars
<1>1. IInv /\ [Next]_vars => [OwnEntryPopped]_vars
  <2> SUFFICES ASSUME IInv, HandlerExit
               PROVE  /\ handlers # <<>>
                      /\ handlers[Len(handlers)] = [handler |-> inst.handler, depth |-> Depth]
                      /\ handlers' = SubSeq(handlers, 1, Len(handlers) - 1)
    BY DEF OwnEntryPopped
  <2>1. /\ Len(handlers) \in DOMAIN handlers
        /\ handlers[Len(handlers)].handler = inst.handler
        /\ handlers[Len(handlers)].depth = Depth
        /\ handlers' = SubSeq(handlers, 1, Len(handlers) - 1)
    BY HandlerExitPops
  <2>2. HandlersInStep(cfg, frames, handlers)
    BY InFrame DEF HandlerExit, AtInst, InStep
  <2>3. handlers[Len(handlers)] = [handler |-> inst.handler, depth |-> Depth]
    BY <2>1, <2>2, EntriesAre
  <2>4. handlers # <<>>
    BY <2>1
  <2> QED
    BY <2>1, <2>3, <2>4
<1> QED
  BY <1>1, StacksMirrorBlocks, PTL DEF Spec

(* When main has returned, and before it starts, no handler is installed   *)
(* and no region is open.                                                  *)
NothingLeftOpen == frames = <<>> => handlers = <<>> /\ slots = {}

THEOREM RunsEndClosed == Spec => []NothingLeftOpen
<1>1. IInv => NothingLeftOpen
  BY NothingOpen DEF IInv, Idle, NothingLeftOpen
<1> QED
  BY <1>1, StacksMirrorBlocks, PTL

(* A handler lies above those of the frames that called its own, and above *)
(* those that its own frame installed around it; none is there twice.      *)
HandlersNest ==
    \A i, j \in DOMAIN handlers : i < j =>
      \/ handlers[i].depth < handlers[j].depth
      \/ /\ handlers[i].depth = handlers[j].depth
         /\ handlers[i].handler < handlers[j].handler

THEOREM HandlersLieNested == Spec => []HandlersNest
<1>1. IInv => HandlersNest
  <2>1. CASE handlers = <<>>
    BY <2>1 DEF HandlersNest
  <2>2. ASSUME IInv, cfg.errors = {} PROVE HandlersNest
    BY <2>2 DEF IInv, InStep, HandlersInStep, Below, HandlersNest
  <2> QED
    BY <2>1, <2>2 DEF IInv, Idle
<1> QED
  BY <1>1, StacksMirrorBlocks, PTL

(* A function that is about to return has closed every handler that it     *)
(* installed and every region that it opened: a call leaves both as it     *)
(* found them.                                                             *)
ReturnsClosed ==
    AtTerm({"Return"}) =>
      /\ \A i \in DOMAIN handlers : handlers[i].depth < Depth
      /\ \A s \in slots : s.depth < Depth

THEOREM CallsLeaveNothing == Spec => []ReturnsClosed
<1>1. IInv => ReturnsClosed
  <2> SUFFICES ASSUME IInv, Running, frame.pc > Len(block.insts), term.k = "Return"
               PROVE  /\ \A i \in DOMAIN handlers : handlers[i].depth < Depth
                      /\ \A s \in slots : s.depth < Depth
    BY DEF ReturnsClosed, AtTerm
  <2>1. /\ Shaped(cfg) /\ SlotsInStep(cfg, frames, slots) /\ HandlersInStep(cfg, frames, handlers)
        /\ Stands(cfg, frame) /\ Depth \in Nat /\ DOMAIN frames = 1 .. Depth
    BY InFrame, FramesStand DEF InStep, Depth
  <2>2. \A r \in DOMAIN cfg.regions : ~HasRegion(cfg, frame, r) /\ ~HasHandler(cfg, frame, r)
    <3>1. frame.at \in DOMAIN cfg.blocks /\ cfg.blocks[frame.at].term.k = "Return"
      BY <2>1 DEF Stands, term, block
    <3>2. \A r \in DOMAIN cfg.regions : frame.at \notin Extent(cfg, r)
      BY <2>1, <3>1 DEF Shaped, WellNested, IsNested
    <3>3. frame.pc > Len(InstsAt(cfg, frame))
      BY InFrame
    <3> QED
      BY <2>1, <3>2, <3>3, AtEnd
  <2>3. ASSUME NEW i \in DOMAIN handlers PROVE handlers[i].depth < Depth
    <3> DEFINE d == handlers[i].depth
               r == handlers[i].handler
    <3>1. r \in DOMAIN cfg.regions /\ d \in DOMAIN frames /\ HasHandler(cfg, frames[d], r)
      BY <2>1, EntriesAre
    <3>2. d # Depth
      BY <2>2, <3>1 DEF frame
    <3> QED
      BY <2>1, <3>1, <3>2
  <2>4. ASSUME NEW s \in slots PROVE s.depth < Depth
    <3>1. s \in Slot(cfg)
      BY <2>1 DEF SlotsInStep
    <3>2. s = [region |-> s.region, depth |-> s.depth] /\ s.region \in DOMAIN cfg.regions /\ s.depth \in Nat \ {0}
      BY <3>1 DEF Slot
    <3>3. s.depth \in DOMAIN frames /\ HasRegion(cfg, frames[s.depth], s.region)
      BY <2>1, <3>2 DEF SlotsInStep
    <3>4. s.depth # Depth
      BY <2>2, <3>2, <3>3 DEF frame
    <3> QED
      BY <2>1, <3>3, <3>4
  <2> QED
    BY <2>3, <2>4
<1> QED
  BY <1>1, StacksMirrorBlocks, PTL

=============================================================================
