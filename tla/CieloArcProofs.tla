-------------------------- MODULE CieloArcProofs --------------------------
(***************************************************************************)
(* Proofs about CieloArc, for any number of roots and cells, any number of *)
(* fields, any width of the counts and any constant pool: counts are exact,*)
(* nothing dangles, nothing leaks, values a program holds do not change,   *)
(* and the counted heap implements IdealHeap.                              *)
(***************************************************************************)
EXTENDS CieloArc, FiniteSetTheorems, TLAPS, RecursionLemmas

-----------------------------------------------------------------------------
(* Counting the slots of a function that hold a value.                     *)

Holders(f, o) == {s \in Slot : f[s] = o}

(* There are finitely many slots, so every value has a number of holders.  *)
LEMMA HoldersFinite ==
    ASSUME NEW f, NEW o
    PROVE  IsFiniteSet(Holders(f, o)) /\ Cardinality(Holders(f, o)) \in Nat
<1>1. IsFiniteSet(Index)
  BY FS_Interval, BoundAssumption DEF Index
<1>2. IsFiniteSet(Obj)
  BY FS_Union, FiniteAssumption DEF Obj
<1>3. IsFiniteSet(FieldSlot)
  BY <1>1, <1>2, FS_Product DEF FieldSlot
<1>4. IsFiniteSet(Slot)
  BY <1>3, FS_Union, FiniteAssumption DEF Slot
<1>5. Holders(f, o) \in SUBSET Slot
  BY DEF Holders
<1>6. QED
  BY <1>4, <1>5, FS_Subset, FS_CardinalityType

(* A value with a holder has a positive number of them.                    *)
LEMMA HolderPositive ==
    ASSUME NEW f, NEW o, NEW s \in Slot, f[s] = o
    PROVE  Cardinality(Holders(f, o)) > 0
<1>1. s \in Holders(f, o)
  BY DEF Holders
<1>2. Cardinality(Holders(f, o)) # 0
  BY <1>1, HoldersFinite, FS_EmptySet
<1>3. QED
  BY <1>2, HoldersFinite

(* Clearing the slot of a reference takes one holder from what it held and *)
(* leaves the holders of everything else alone.                            *)
LEMMA ClearSlot ==
    ASSUME NEW f \in [Slot -> Value], NEW s \in Slot, NEW o \in Obj
    PROVE  Cardinality(Holders([f EXCEPT ![s] = Unit], o)) =
             IF f[s] = o THEN Cardinality(Holders(f, o)) - 1 ELSE Cardinality(Holders(f, o))
<1> DEFINE g == [f EXCEPT ![s] = Unit]
<1>1. o # Unit
  BY DisjointAssumption
<1>2. Holders(g, o) = Holders(f, o) \ {s}
  BY <1>1 DEF Holders
<1>3. s \in Holders(f, o) <=> f[s] = o
  BY DEF Holders
<1>4. QED
  BY <1>2, <1>3, HoldersFinite, FS_RemoveElement

(* Filling an empty slot adds one holder to what it receives.              *)
LEMMA FillSlot ==
    ASSUME NEW f \in [Slot -> Value], NEW s \in Slot, NEW v \in Value, NEW o \in Obj,
           f[s] = Unit
    PROVE  Cardinality(Holders([f EXCEPT ![s] = v], o)) =
             IF v = o THEN Cardinality(Holders(f, o)) + 1 ELSE Cardinality(Holders(f, o))
<1> DEFINE g == [f EXCEPT ![s] = v]
<1>1. o # Unit /\ g = [x \in Slot |-> IF x = s THEN v ELSE f[x]]
  BY DisjointAssumption
<1>2. CASE v = o
  <2>1. Holders(g, o) = Holders(f, o) \cup {s}
    BY <1>2 DEF Holders
  <2>2. s \notin Holders(f, o)
    BY <1>1 DEF Holders
  <2>3. QED
    BY <1>2, <2>1, <2>2, HoldersFinite, FS_AddElement
<1>3. CASE v # o
  <2>1. Holders(g, o) = Holders(f, o)
    BY <1>1, <1>3 DEF Holders
  <2>2. QED
    BY <1>3, <2>1
<1>4. QED
  BY <1>2, <1>3

(* Moving a reference from one slot to an empty one changes no number.     *)
LEMMA MoveSlot ==
    ASSUME NEW f \in [Slot -> Value], NEW s \in Slot, NEW t \in Slot, s # t,
           f[t] = Unit, NEW o \in Obj
    PROVE  Cardinality(Holders([f EXCEPT ![t] = f[s], ![s] = Unit], o)) =
             Cardinality(Holders(f, o))
<1> DEFINE g == [f EXCEPT ![t] = f[s]]
<1>1. g \in [Slot -> Value] /\ g[s] = f[s] /\ f[s] \in Value
  OBVIOUS
<1>2. [f EXCEPT ![t] = f[s], ![s] = Unit] = [g EXCEPT ![s] = Unit]
  OBVIOUS
<1>3. Cardinality(Holders(g, o)) =
        IF f[s] = o THEN Cardinality(Holders(f, o)) + 1 ELSE Cardinality(Holders(f, o))
  <2>1. \A v \in Value : Cardinality(Holders([f EXCEPT ![t] = v], o)) =
          IF v = o THEN Cardinality(Holders(f, o)) + 1 ELSE Cardinality(Holders(f, o))
    BY FillSlot
  <2>2. QED
    BY <1>1, <2>1
<1>4. Cardinality(Holders([g EXCEPT ![s] = Unit], o)) =
        IF g[s] = o THEN Cardinality(Holders(g, o)) - 1 ELSE Cardinality(Holders(g, o))
  BY <1>1, ClearSlot
<1>5. QED
  BY <1>1, <1>2, <1>3, <1>4, HoldersFinite

-----------------------------------------------------------------------------
(* How one more and one fewer reference preserve the invariant.            *)

LEMMA OwnersAreHolders == \A o : Owners(o) = Holders(slot, o)
BY DEF Owners, Holders

(* An object somebody refers to has a positive count.                      *)
LEMMA ReferencedIsCounted ==
    ASSUME HeapInv, NEW s \in Slot, slot[s] \in Heap
    PROVE  refcount[slot[s]] > 0
<1>1. Cardinality(Holders(slot, slot[s])) > 0
  BY HolderPositive
<1>2. kind[slot[s]] # "free" /\ refcount[slot[s]] \in 0 .. MaxCount
  BY DisjointAssumption DEF HeapInv, RefsAllocated, TypeOK, Obj
<1>3. CASE refcount[slot[s]] = MaxCount
  BY <1>3, BoundAssumption
<1>4. CASE refcount[slot[s]] # MaxCount
  BY <1>1, <1>2, <1>4, OwnersAreHolders DEF HeapInv, CountIsOwners
<1>5. QED
  BY <1>3, <1>4

(* A root that takes a second reference to a value keeps the counts exact: *)
(* Retain, FieldCopy and a take from a shared parent.                      *)
LEMMA GainReference ==
    ASSUME HeapInv, NEW y \in Root, slot[y] = Unit,
           NEW s \in Slot,
           slot' = [slot EXCEPT ![y] = slot[s]],
           refcount' = AfterRetain(slot[s]),
           UNCHANGED <<kind, destroyVars>>
    PROVE  /\ slot' \in [Slot -> Value] /\ refcount' \in [Obj -> 0 .. MaxCount]
           /\ CountIsOwners' /\ RefsAllocated' /\ EmptyFields' /\ DroppedAreDead' /\ PooledLive'
<1> USE DEF HeapInv
<1> DEFINE v == slot[s]
<1>1. v \in Value /\ y \in Slot /\ slot \in [Slot -> Value] /\ refcount \in [Obj -> 0 .. MaxCount]
  BY DEF TypeOK, Slot
<1>2. slot' \in [Slot -> Value]
  BY <1>1
<1>3. ASSUME Counted(v)
      PROVE  /\ v \in Heap /\ refcount[v] \in 1 .. MaxCount - 1
             /\ refcount' = [refcount EXCEPT ![v] = @ + 1]
  BY <1>1, <1>3, BoundAssumption DEF Counted, Pinned, AfterRetain, Obj, Value
<1>4. ASSUME ~Counted(v) PROVE refcount' = refcount
  BY <1>4 DEF AfterRetain
<1>5. refcount' \in [Obj -> 0 .. MaxCount]
  BY <1>1, <1>3, <1>4, BoundAssumption
<1>6. CountIsOwners'
  <2> SUFFICES ASSUME NEW o \in Heap, kind[o] # "free", refcount'[o] # MaxCount
               PROVE  refcount'[o] = Cardinality(Holders(slot', o))
    BY OwnersAreHolders DEF CountIsOwners, Owners, Holders
  <2>1. o \in Obj /\ refcount[o] \in 0 .. MaxCount
    BY <1>1 DEF Obj
  <2>2. \A w \in Value : Cardinality(Holders([slot EXCEPT ![y] = w], o)) =
          IF w = o THEN Cardinality(Holders(slot, o)) + 1 ELSE Cardinality(Holders(slot, o))
    BY <1>1, <2>1, FillSlot
  <2>3. Cardinality(Holders(slot', o)) =
          IF v = o THEN Cardinality(Holders(slot, o)) + 1 ELSE Cardinality(Holders(slot, o))
    BY <1>1, <2>2
  <2>4. refcount[o] # MaxCount => refcount[o] = Cardinality(Holders(slot, o))
    BY OwnersAreHolders DEF CountIsOwners
  <2>5. CASE v = o
    <3>1. refcount[o] > 0
      BY <2>5, ReferencedIsCounted
    <3>2. refcount[o] # MaxCount => Counted(v)
      BY <2>1, <2>5, <3>1, DisjointAssumption DEF Counted, Pinned
    <3>3. refcount[o] # MaxCount
      BY <1>4, <2>5 DEF Counted, Pinned
    <3>4. QED
      BY <1>1, <1>3, <2>1, <2>3, <2>4, <2>5, <3>2, <3>3
  <2>6. CASE v # o
    <3>1. refcount'[o] = refcount[o]
      BY <1>1, <1>3, <1>4, <2>1, <2>6
    <3>2. QED
      BY <2>3, <2>4, <2>6, <3>1
  <2>7. QED
    BY <2>5, <2>6
<1>7. RefsAllocated'
  BY <1>1 DEF RefsAllocated
<1>8. \A f \in FieldSlot : slot'[f] = slot[f]
  BY <1>1, DisjointAssumption DEF Slot
<1>9. \A o \in Obj, i \in Index : slot'[<<o, i>>] = slot[<<o, i>>]
  BY <1>8 DEF FieldSlot
<1>10. EmptyFields'
  BY <1>9 DEF EmptyFields, Obj
<1>11. DroppedAreDead'
  <2>1. \A o \in Obj : refcount[o] = 0 => refcount'[o] = 0
    BY <1>1, <1>3, <1>4
  <2>2. QED
    BY <1>9, <2>1 DEF DroppedAreDead, TypeOK, destroyVars, Obj
<1>12. PooledLive'
  BY DEF PooledLive
<1>13. QED
  BY <1>2, <1>5, <1>6, <1>7, <1>10, <1>11, <1>12

(* A slot that gives its reference up, counted or not, keeps the counts    *)
(* exact: Release, a builtin's arguments and the children of a dying cell. *)
LEMMA LoseReference ==
    ASSUME HeapInv, NEW s \in Slot, DropReference(s), UNCHANGED <<kind, dying>>
    PROVE  /\ slot' \in [Slot -> Value] /\ refcount' \in [Obj -> 0 .. MaxCount]
           /\ dropStack' \subseteq Heap
           /\ stats' \in [allocations : Nat, frees : Nat, releaseLast : Nat]
           /\ CountIsOwners' /\ RefsAllocated' /\ EmptyFields' /\ PooledLive'
           /\ \A o \in dropStack' : kind'[o] # "free" /\ refcount'[o] = 0
           /\ dying # Unit => refcount'[dying] = 0 /\ dying \notin dropStack'
<1> USE DEF HeapInv
<1> DEFINE v == slot[s]
<1>1. v \in Value /\ slot \in [Slot -> Value] /\ refcount \in [Obj -> 0 .. MaxCount]
  BY DEF TypeOK
<1>2. slot' = [slot EXCEPT ![s] = Unit] /\ slot' \in [Slot -> Value]
  BY <1>1 DEF DropReference, Value
<1>3. ASSUME Counted(v)
      PROVE  /\ v \in Heap /\ refcount[v] \in 1 .. MaxCount - 1
             /\ refcount' = [refcount EXCEPT ![v] = @ - 1]
  BY <1>1, <1>3, BoundAssumption DEF DropReference, Counted, Pinned, AfterDec, Obj, Value
<1>4. ASSUME ~Counted(v) PROVE refcount' = refcount
  BY <1>4 DEF DropReference, AfterDec
<1>5. refcount' \in [Obj -> 0 .. MaxCount]
  BY <1>1, <1>3, <1>4, BoundAssumption
<1>6. CountIsOwners'
  <2> SUFFICES ASSUME NEW o \in Heap, kind[o] # "free", refcount'[o] # MaxCount
               PROVE  refcount'[o] = Cardinality(Holders(slot', o))
    BY OwnersAreHolders DEF CountIsOwners, Owners, Holders
  <2>1. o \in Obj /\ refcount[o] \in 0 .. MaxCount
    BY <1>1 DEF Obj
  <2>2. Cardinality(Holders(slot', o)) =
          IF v = o THEN Cardinality(Holders(slot, o)) - 1 ELSE Cardinality(Holders(slot, o))
    <3> HIDE DEF HeapInv
    <3>1. \A f \in [Slot -> Value] :
            Cardinality(Holders([f EXCEPT ![s] = Unit], o)) =
              IF f[s] = o THEN Cardinality(Holders(f, o)) - 1 ELSE Cardinality(Holders(f, o))
      BY <2>1, ClearSlot
    <3>2. QED
      BY <1>1, <1>2, <3>1
  <2>3. refcount[o] # MaxCount => refcount[o] = Cardinality(Holders(slot, o))
    BY OwnersAreHolders DEF CountIsOwners
  <2>4. CASE v = o
    <3>1. refcount[o] > 0
      BY <2>4, ReferencedIsCounted
    <3>2. refcount[o] # MaxCount => Counted(v)
      BY <2>1, <2>4, <3>1, DisjointAssumption DEF Counted, Pinned
    <3>3. refcount[o] # MaxCount
      BY <1>4, <2>4 DEF Counted, Pinned
    <3>4. QED
      BY <1>1, <1>3, <2>1, <2>2, <2>3, <2>4, <3>2, <3>3
  <2>5. CASE v # o
    <3>1. refcount'[o] = refcount[o]
      BY <1>1, <1>3, <1>4, <2>1, <2>5
    <3>2. QED
      BY <2>2, <2>3, <2>5, <3>1
  <2>6. QED
    BY <2>4, <2>5
<1>7. RefsAllocated'
  BY <1>1, <1>2 DEF RefsAllocated
<1>8. EmptyFields'
  BY <1>1, <1>2 DEF EmptyFields, Slot, FieldSlot, Obj
<1>9. ASSUME DecIsLast(v)
      PROVE  dropStack' = dropStack \cup {v} /\ refcount'[v] = 0 /\ v \in Heap
  BY <1>1, <1>3, <1>9 DEF DropReference, DecIsLast, Obj
<1>10. ASSUME ~DecIsLast(v) PROVE dropStack' = dropStack /\ stats' = stats
  BY <1>10 DEF DropReference
<1>11. kind[v] # "free" \/ v = Unit
  BY DEF RefsAllocated
<1>12. \A o \in Obj : refcount[o] = 0 => refcount'[o] = 0
  BY <1>1, <1>3, <1>4
<1>13. \A o \in dropStack' : kind'[o] # "free" /\ refcount'[o] = 0
  BY <1>9, <1>10, <1>11, <1>12, DisjointAssumption DEF DroppedAreDead, TypeOK, Obj
<1>14. ASSUME dying # Unit PROVE refcount'[dying] = 0 /\ dying \notin dropStack'
  <2>1. dying \in Obj /\ refcount[dying] = 0 /\ dying \notin dropStack
    BY <1>14 DEF DroppedAreDead, TypeOK, Obj
  <2>2. ~DecIsLast(v) \/ v # dying
    BY <2>1 DEF DecIsLast
  <2>3. QED
    BY <1>9, <1>10, <1>12, <2>1, <2>2
<1>15. dropStack' \subseteq Heap
  BY <1>9, <1>10 DEF TypeOK
<1>16. stats' \in [allocations : Nat, frees : Nat, releaseLast : Nat]
  BY DEF DropReference, TypeOK
<1>17. PooledLive'
  BY DEF PooledLive
<1>18. QED
  BY <1>2, <1>5, <1>6, <1>7, <1>8, <1>13, <1>14, <1>15, <1>16, <1>17

-----------------------------------------------------------------------------
(* A constructor takes its arguments' references over: what a consumed     *)
(* root held, the field it is copied to holds, so no count changes.        *)

LEMMA MakeCtorSlots ==
    ASSUME HeapInv, NEW y \in Root, NEW o \in Heap, NEW args \in [Index -> Root \cup {Unit}],
           MakeCtor(y, o, args)
    PROVE  LET consumed == {args[i] : i \in Index} \ {Unit}
           IN  /\ consumed \subseteq Root
               /\ slot' \in [Slot -> Value]
               /\ slot'[y] = o
               /\ \A s \in consumed \ {y} : slot'[s] = Unit
               /\ \A i \in Index : slot'[<<o, i>>] =
                     IF args[i] = Unit THEN Unit ELSE slot[args[i]]
               /\ \A s \in Slot : s # y /\ s \notin consumed /\ s \notin {o} \X Index
                     => slot'[s] = slot[s]
               /\ \A i \in Index : slot[<<o, i>>] = Unit
               /\ \A s \in Slot : slot[s] # o
<1> DEFINE consumed == {args[i] : i \in Index} \ {Unit}
<1>1. consumed \subseteq Root
  OBVIOUS
<1>2. /\ y \in Slot /\ y \notin FieldSlot /\ {o} \X Index \subseteq FieldSlot
      /\ FieldSlot \subseteq Slot /\ consumed \cap FieldSlot = {}
  BY <1>1, DisjointAssumption DEF Slot, FieldSlot, Obj
<1>3. slot' = [s \in Slot |->
             CASE s = y -> o
               [] s \in consumed \ {y} -> Unit
               [] s \in {o} \X Index -> IF args[s[2]] = Unit THEN Unit ELSE slot[args[s[2]]]
               [] OTHER -> slot[s]]
  BY Zenon DEF MakeCtor
<1>4. slot'[y] = o
  BY <1>2, <1>3
<1>5. ASSUME NEW s \in consumed \ {y} PROVE slot'[s] = Unit
  <2>1. s \in Slot /\ s # y /\ s \notin {o} \X Index
    BY <1>1, <1>2 DEF Slot
  <2> HIDE DEF consumed
  <2>2. QED
    BY <1>3, <2>1
<1>6. ASSUME NEW i \in Index
      PROVE  slot'[<<o, i>>] = IF args[i] = Unit THEN Unit ELSE slot[args[i]]
  <2>1. /\ <<o, i>> \in {o} \X Index /\ <<o, i>> \in Slot
        /\ <<o, i>> # y /\ <<o, i>> \notin consumed /\ <<o, i>>[2] = i
    BY <1>2
  <2>2. QED
    BY <1>3, <2>1
<1>7. \A s \in Slot : s # y /\ s \notin consumed /\ s \notin {o} \X Index => slot'[s] = slot[s]
  BY <1>3
<1>8. slot \in [Slot -> Value] /\ o \in Value /\ Unit \in Value
  BY DEF HeapInv, TypeOK, Value, Obj
<1>9. ASSUME NEW s \in Slot PROVE slot'[s] \in Value
  <2>1. CASE s \in {o} \X Index
    <3>1. PICK i \in Index : s = <<o, i>>
      BY <2>1
    <3>2. args[i] # Unit => args[i] \in Slot
      BY DEF Slot
    <3>3. QED
      BY <1>6, <1>8, <3>1, <3>2
  <2>2. CASE s \notin {o} \X Index
    BY <1>4, <1>5, <1>7, <1>8, <2>2
  <2>3. QED
    BY <2>1, <2>2
<1>10. slot' \in [Slot -> Value]
  BY <1>3, <1>9
<1>11. kind[o] = "free"
  BY DEF MakeCtor, Allocate
<1>12. \A i \in Index : slot[<<o, i>>] = Unit
  BY <1>11 DEF HeapInv, EmptyFields
<1>13. \A s \in Slot : slot[s] # o
  BY <1>11, DisjointAssumption DEF HeapInv, RefsAllocated, Obj
<1>14. QED
  BY <1>1, <1>4, <1>5, <1>6, <1>7, <1>10, <1>12, <1>13

LEMMA MakeCtorHolders ==
    ASSUME HeapInv, NEW y \in Root, NEW o \in Heap, NEW args \in [Index -> Root \cup {Unit}],
           MakeCtor(y, o, args), NEW p \in Heap, p # o
    PROVE  Cardinality(Holders(slot', p)) = Cardinality(Holders(slot, p))
<1> DEFINE consumed == {args[i] : i \in Index} \ {Unit}
           fields == {o} \X Index
           before == Holders(slot, p)
           after == Holders(slot', p)
           g == [t \in after |-> IF t \in fields THEN args[t[2]] ELSE t]
<1>1. /\ consumed \subseteq Root
      /\ slot'[y] = o
      /\ \A s \in consumed \ {y} : slot'[s] = Unit
      /\ \A i \in Index : slot'[<<o, i>>] = IF args[i] = Unit THEN Unit ELSE slot[args[i]]
      /\ \A s \in Slot : s # y /\ s \notin consumed /\ s \notin fields => slot'[s] = slot[s]
      /\ \A i \in Index : slot[<<o, i>>] = Unit
  BY MakeCtorSlots
<1>2. p # Unit /\ fields \subseteq Slot /\ Root \subseteq Slot /\ Root \cap fields = {}
  BY DisjointAssumption DEF Slot, FieldSlot, Obj
<1>3. /\ \A i, j \in Index : args[i] = args[j] /\ args[i] # Unit => i = j
      /\ slot[y] = Unit \/ y \in consumed
  BY DEF MakeCtor
<1>4. \A t \in after : t # y /\ t \notin consumed
  BY <1>1, <1>2 DEF Holders
<1>5. ASSUME NEW i \in Index, <<o, i>> \in after
      PROVE  args[i] \in consumed /\ args[i] \in before /\ g[<<o, i>>] = args[i]
  <2>1. slot'[<<o, i>>] = p
    BY <1>5 DEF Holders
  <2>2. args[i] # Unit /\ slot[args[i]] = p
    BY <1>1, <1>2, <2>1
  <2>3. args[i] \in consumed
    BY <2>2
  <2>4. args[i] \in before
    BY <1>1, <1>2, <2>2, <2>3 DEF Holders
  <2>5. <<o, i>> \in fields /\ <<o, i>>[2] = i
    OBVIOUS
  <2>6. QED
    BY <1>5, <2>3, <2>4, <2>5
<1>6. ASSUME NEW t \in after, t \notin fields
      PROVE  t \in before /\ g[t] = t
  BY <1>1, <1>4, <1>6 DEF Holders
<1>7. \A t \in after : t \in fields => \E i \in Index : t = <<o, i>>
  OBVIOUS
<1>8. g \in [after -> before]
  <2>1. \A t \in after : g[t] \in before
    BY <1>5, <1>6, <1>7
  <2>2. QED
    BY <2>1
<1>9. ASSUME NEW t \in after, NEW u \in after, g[t] = g[u]
      PROVE  t = u
  <2>1. CASE t \in fields /\ u \in fields
    <3>1. PICK i \in Index : t = <<o, i>>
      BY <1>7, <2>1
    <3>2. PICK j \in Index : u = <<o, j>>
      BY <1>7, <2>1
    <3>3. args[i] = args[j] /\ args[i] \in consumed
      BY <1>5, <1>9, <3>1, <3>2
    <3>4. QED
      BY <1>3, <3>1, <3>2, <3>3
  <2>2. CASE t \in fields /\ u \notin fields
    BY <1>4, <1>5, <1>6, <1>7, <1>9, <2>2
  <2>3. CASE t \notin fields /\ u \in fields
    BY <1>4, <1>5, <1>6, <1>7, <1>9, <2>3
  <2>4. CASE t \notin fields /\ u \notin fields
    BY <1>6, <1>9, <2>4
  <2>5. QED
    BY <2>1, <2>2, <2>3, <2>4
<1>10. ASSUME NEW s \in before PROVE \E t \in after : g[t] = s
  <2>1. s \in Slot /\ slot[s] = p
    BY DEF Holders
  <2>2. CASE s \in consumed
    <3>1. PICK i \in Index : args[i] = s
      BY <2>2
    <3>2. <<o, i>> \in fields /\ s # Unit
      BY <2>2
    <3>3. <<o, i>> \in after
      BY <1>1, <1>2, <2>1, <3>1, <3>2 DEF Holders
    <3>4. QED
      BY <1>5, <3>1, <3>3
  <2>3. CASE s \notin consumed
    <3>1. s # y /\ s \notin fields
      BY <1>1, <1>2, <1>3, <2>1, <2>3
    <3>2. s \in after
      BY <1>1, <2>1, <2>3, <3>1 DEF Holders
    <3>3. QED
      BY <1>6, <3>1, <3>2
  <2>4. QED
    BY <2>2, <2>3
<1>11. g \in Bijection(after, before)
  <2> HIDE DEF g, after, before
  <2>1. QED BY <1>8, <1>9, <1>10 DEF Bijection, Injection, Surjection, IsInjective
<1>12. ExistsBijection(after, before)
  BY <1>11 DEF ExistsBijection
<1>13. QED
  BY <1>12, HoldersFinite, FS_Bijection

(* Nothing refers to an object whose count is zero.                        *)
LEMMA DeadIsUnreferenced ==
    ASSUME HeapInv, NEW o \in Heap, kind[o] # "free", refcount[o] = 0
    PROVE  Owners(o) = {}
<1>1. Cardinality(Holders(slot, o)) = 0
  BY BoundAssumption, OwnersAreHolders DEF HeapInv, CountIsOwners
<1>2. QED
  BY <1>1, HoldersFinite, FS_EmptySet, OwnersAreHolders

(* A fresh cell that one empty root receives: MakeStr, StrConcat.          *)
LEMMA AllocateToRoot ==
    ASSUME HeapInv, NEW y \in Root, NEW o \in Heap, slot[y] = Unit,
           Allocate(o, "str"), slot' = [slot EXCEPT ![y] = o], UNCHANGED destroyVars
    PROVE  /\ slot' \in [Slot -> Value] /\ refcount' \in [Obj -> 0 .. MaxCount]
           /\ kind' \in [Obj -> {"free", "str", "ctor"}]
           /\ stats' \in [allocations : Nat, frees : Nat, releaseLast : Nat]
           /\ CountIsOwners' /\ RefsAllocated' /\ EmptyFields' /\ DroppedAreDead' /\ PooledLive'
<1> USE DEF HeapInv
<1>1. /\ y \in Slot /\ o \in Value /\ o \in Obj /\ o # Unit
      /\ slot \in [Slot -> Value] /\ refcount \in [Obj -> 0 .. MaxCount]
      /\ kind \in [Obj -> {"free", "str", "ctor"}]
      /\ stats \in [allocations : Nat, frees : Nat, releaseLast : Nat]
  BY DisjointAssumption DEF TypeOK, Slot, Value, Obj
<1>2. /\ kind[o] = "free" /\ kind' = [kind EXCEPT ![o] = "str"]
      /\ refcount' = [refcount EXCEPT ![o] = 1]
      /\ stats' = [stats EXCEPT !.allocations = @ + 1]
  BY DEF Allocate
<1>3. /\ slot' \in [Slot -> Value] /\ refcount' \in [Obj -> 0 .. MaxCount]
      /\ kind' \in [Obj -> {"free", "str", "ctor"}]
      /\ stats' \in [allocations : Nat, frees : Nat, releaseLast : Nat]
  BY <1>1, <1>2, BoundAssumption
<1>4. Holders(slot, o) = {}
  BY <1>1, <1>2 DEF RefsAllocated, Holders
<1>5. CountIsOwners'
  <2> SUFFICES ASSUME NEW p \in Heap, kind'[p] # "free", refcount'[p] # MaxCount
               PROVE  refcount'[p] = Cardinality(Holders(slot', p))
    BY OwnersAreHolders DEF CountIsOwners, Owners, Holders
  <2>1. p \in Obj
    BY DEF Obj
  <2>2. \A w \in Value : Cardinality(Holders([slot EXCEPT ![y] = w], p)) =
          IF w = p THEN Cardinality(Holders(slot, p)) + 1 ELSE Cardinality(Holders(slot, p))
    BY <1>1, <2>1, FillSlot
  <2>3. Cardinality(Holders(slot', p)) =
          IF o = p THEN Cardinality(Holders(slot, p)) + 1 ELSE Cardinality(Holders(slot, p))
    BY <1>1, <2>2
  <2>4. CASE p = o
    <3>1. Cardinality(Holders(slot, p)) = 0
      BY <1>4, <2>4, FS_EmptySet
    <3>2. refcount'[p] = 1
      BY <1>1, <1>2, <2>4
    <3>3. QED
      BY <2>3, <2>4, <3>1, <3>2
  <2>5. CASE p # o
    BY <1>1, <1>2, <2>1, <2>3, <2>5, OwnersAreHolders DEF CountIsOwners
  <2>6. QED
    BY <2>4, <2>5
<1>6. \A p \in Obj, i \in Index : slot'[<<p, i>>] = slot[<<p, i>>]
  BY <1>1, DisjointAssumption DEF FieldSlot, Slot
<1>7. RefsAllocated'
  BY <1>1, <1>2 DEF RefsAllocated, Value
<1>8. EmptyFields'
  BY <1>1, <1>2, <1>6 DEF EmptyFields, Obj
<1>9. DroppedAreDead'
  BY <1>1, <1>2, <1>6 DEF DroppedAreDead, TypeOK, destroyVars, Obj
<1>10. PooledLive'
  BY <1>1, <1>2, DisjointAssumption DEF PooledLive, Obj
<1>11. QED
  BY <1>3, <1>5, <1>7, <1>8, <1>9, <1>10

-----------------------------------------------------------------------------
(* The invariant, one step per action.                                     *)

LEMMA InitHeapInv == Init => HeapInv
<1> SUFFICES ASSUME Init PROVE HeapInv
  OBVIOUS
<1>1. TypeOK
  <2>1. 1 \in 1 .. MaxArgc + 1 /\ 0 \in 0 .. MaxCount
    BY BoundAssumption
  <2>2. slot \in [Slot -> Value]
    BY PooledAssumption DEF Init, Value, Obj
  <2>3. kind \in [Obj -> {"free", "str", "ctor"}]
    BY DEF Init
  <2>4. QED
    BY <2>1, <2>2, <2>3 DEF Init, TypeOK
<1>2. \A o \in Heap : kind[o] = "free"
  BY DisjointAssumption, PooledAssumption DEF Init, Obj
<1>3. CountIsOwners
  BY <1>2 DEF CountIsOwners
<1>4. RefsAllocated
  <2> SUFFICES ASSUME NEW s \in Slot, slot[s] # Unit PROVE kind[slot[s]] # "free"
    BY DEF RefsAllocated
  <2>1. slot[s] \in Pooled
    BY PooledAssumption DEF Init
  <2>2. QED
    BY <2>1, DisjointAssumption DEF Init, Obj
<1>5. EmptyFields
  BY DisjointAssumption DEF Init, EmptyFields, Slot, FieldSlot, Obj
<1>6. DroppedAreDead
  BY DEF Init, DroppedAreDead
<1>7. PooledLive
  BY DisjointAssumption DEF Init, PooledLive, Obj
<1>8. QED
  BY <1>1, <1>3, <1>4, <1>5, <1>6, <1>7 DEF HeapInv

LEMMA MakeCtorInv ==
    ASSUME HeapInv, NEW y \in Root, NEW o \in Heap, NEW args \in [Index -> Root \cup {Unit}],
           MakeCtor(y, o, args)
    PROVE  HeapInv'
<1> USE DEF HeapInv
<1> DEFINE consumed == {args[i] : i \in Index} \ {Unit}
<1>1. /\ consumed \subseteq Root
      /\ slot' \in [Slot -> Value]
      /\ slot'[y] = o
      /\ \A s \in consumed \ {y} : slot'[s] = Unit
      /\ \A i \in Index : slot'[<<o, i>>] = IF args[i] = Unit THEN Unit ELSE slot[args[i]]
      /\ \A s \in Slot : s # y /\ s \notin consumed /\ s \notin {o} \X Index
            => slot'[s] = slot[s]
      /\ \A s \in Slot : slot[s] # o
  BY MakeCtorSlots
<1>2. /\ kind[o] = "free" /\ kind' = [kind EXCEPT ![o] = "ctor"]
      /\ refcount' = [refcount EXCEPT ![o] = 1]
      /\ stats' = [stats EXCEPT !.allocations = @ + 1]
      /\ UNCHANGED <<dropStack, dying, nextChild, sinkArgs, moved>>
  BY DEF MakeCtor, Allocate, destroyVars
<1>3. /\ y \in Slot /\ y \notin FieldSlot /\ o \in Obj /\ o # Unit
      /\ Root \subseteq Slot /\ consumed \cap FieldSlot = {} /\ FieldSlot \subseteq Slot
      /\ refcount \in [Obj -> 0 .. MaxCount]
      /\ kind \in [Obj -> {"free", "str", "ctor"}]
  BY <1>1, DisjointAssumption DEF TypeOK, Slot, Obj
<1>4. TypeOK'
  <2>1. stats' \in [allocations : Nat, frees : Nat, releaseLast : Nat]
    BY <1>2 DEF TypeOK
  <2>2. refcount' \in [Obj -> 0 .. MaxCount] /\ kind' \in [Obj -> {"free", "str", "ctor"}]
    BY <1>2, <1>3, BoundAssumption
  <2>3. QED
    BY <1>1, <1>2, <2>1, <2>2 DEF TypeOK
<1>5. \A i \in Index : args[i] # Unit => args[i] \in Slot
  BY <1>3
<1>6. \A s \in Slot : s \in {o} \X Index => \E i \in Index : s = <<o, i>>
  OBVIOUS
<1>7. \A s \in Slot : slot'[s] = o => s = y
  <2> SUFFICES ASSUME NEW s \in Slot, slot'[s] = o PROVE s = y
    OBVIOUS
  <2>1. CASE s \in {o} \X Index
    BY <1>1, <1>3, <1>5, <1>6, <2>1
  <2>2. CASE s \in consumed \ {y}
    BY <1>1, <1>3, <2>2
  <2>3. CASE s \notin {o} \X Index /\ s \notin consumed \ {y}
    BY <1>1, <2>3
  <2>4. QED
    BY <2>1, <2>2, <2>3
<1>8. CountIsOwners'
  <2> SUFFICES ASSUME NEW p \in Heap, kind'[p] # "free", refcount'[p] # MaxCount
               PROVE  refcount'[p] = Cardinality(Holders(slot', p))
    BY OwnersAreHolders DEF CountIsOwners, Owners, Holders
  <2>1. CASE p = o
    <3>1. Holders(slot', p) = {y}
      BY <1>1, <1>3, <1>7, <2>1 DEF Holders
    <3>2. QED
      BY <1>2, <1>3, <2>1, <3>1, FS_Singleton
  <2>2. CASE p # o
    <3>1. Cardinality(Holders(slot', p)) = Cardinality(Holders(slot, p))
      BY <2>2, MakeCtorHolders
    <3>2. kind[p] = kind'[p] /\ refcount'[p] = refcount[p]
      BY <1>2, <1>3, <2>2 DEF Obj
    <3>3. QED
      BY <3>1, <3>2, OwnersAreHolders DEF CountIsOwners
  <2>3. QED
    BY <2>1, <2>2
<1>9. RefsAllocated'
  <2> SUFFICES ASSUME NEW s \in Slot, slot'[s] # Unit PROVE kind'[slot'[s]] # "free"
    BY DEF RefsAllocated
  <2>1. \A v \in Obj : kind[v] # "free" => kind'[v] # "free"
    BY <1>2, <1>3
  <2>2. kind'[o] # "free"
    BY <1>2, <1>3
  <2>3. CASE s = y
    BY <1>1, <2>2, <2>3
  <2>4. CASE s # y
    <3>1. \E t \in Slot : slot'[s] = slot[t]
      BY <1>1, <1>3, <1>5, <1>6, <2>4
    <3>2. QED
      BY <2>1, <3>1 DEF RefsAllocated, TypeOK, Value
  <2>5. QED
    BY <2>3, <2>4
<1>10. \A p \in Obj, i \in Index : p # o => slot'[<<p, i>>] = slot[<<p, i>>]
  <2> SUFFICES ASSUME NEW p \in Obj, NEW i \in Index, p # o
               PROVE  slot'[<<p, i>>] = slot[<<p, i>>]
    OBVIOUS
  <2>1. <<p, i>> \in FieldSlot /\ <<p, i>> \notin {o} \X Index
    BY DEF FieldSlot
  <2>2. QED
    BY <1>1, <1>3, <2>1
<1>11. EmptyFields'
  BY <1>2, <1>3, <1>10 DEF EmptyFields, Obj
<1>12. DroppedAreDead'
  BY <1>2, <1>3, <1>10 DEF DroppedAreDead, TypeOK, Obj
<1>13. PooledLive'
  BY <1>2, <1>3, DisjointAssumption DEF PooledLive, Obj
<1>14. QED
  BY <1>4, <1>8, <1>9, <1>11, <1>12, <1>13

LEMMA TakeFieldInv ==
    ASSUME HeapInv, NEW x \in Root, NEW i \in Index, NEW y \in Root, TakeField(x, i, y)
    PROVE  HeapInv'
<1> USE DEF HeapInv
<1> DEFINE f == <<slot[x], i>>
<1>1. /\ x \in Slot /\ y \in Slot /\ f \in Slot /\ f \in FieldSlot /\ f # y
      /\ slot[x] \in Obj /\ slot \in [Slot -> Value] /\ slot[y] = Unit
  BY DisjointAssumption DEF TakeField, TypeOK, Slot, FieldSlot, Value
<1>2. moved' \subseteq Root /\ UNCHANGED <<kind, dropStack, dying, nextChild, sinkArgs, stats>>
  BY DEF TakeField, TypeOK, destroyVars
<1>3. CASE ~SoleOwner(x)
  <2>1. slot' = [slot EXCEPT ![y] = slot[f]] /\ refcount' = AfterRetain(slot[f])
    BY <1>3 DEF TakeField
  <2>2. QED
    BY <1>1, <1>2, <2>1, GainReference DEF destroyVars, TypeOK
<1>4. CASE SoleOwner(x)
  <2>1. slot' = [slot EXCEPT ![y] = slot[f], ![f] = Unit] /\ refcount' = refcount
    BY <1>4 DEF TakeField
  <2>2. slot' \in [Slot -> Value]
    BY <1>1, <2>1 DEF Value
  <2>3. CountIsOwners'
    <3>1. ASSUME NEW o \in Obj
          PROVE  Cardinality(Holders(slot', o)) = Cardinality(Holders(slot, o))
      <4> HIDE DEF f, HeapInv
      <4>1. /\ slot \in [Slot -> Value] /\ f \in Slot /\ y \in Slot /\ f # y
            /\ slot[y] = Unit
        BY <1>1
      <4>2. Cardinality(Holders([slot EXCEPT ![y] = slot[f], ![f] = Unit], o)) =
              Cardinality(Holders(slot, o))
        BY <4>1, MoveSlot
      <4>3. QED
        BY <2>1, <4>2
    <3>2. QED
      BY <1>2, <2>1, <3>1, OwnersAreHolders DEF CountIsOwners, Owners, Holders, Obj
  <2>4. RefsAllocated'
    BY <1>1, <1>2, <2>1 DEF RefsAllocated
  <2>5. \A o \in Obj, j \in Index :
          slot'[<<o, j>>] = slot[<<o, j>>] \/ slot'[<<o, j>>] = Unit
    BY <1>1, <2>1, DisjointAssumption DEF FieldSlot, Slot
  <2>6. EmptyFields'
    BY <1>2, <2>5 DEF EmptyFields, Obj
  <2>7. DroppedAreDead'
    <3> HIDE DEF f
    <3>1. dying # Unit => dying \in Obj
      BY DEF TypeOK, Obj
    <3>2. DroppedAreDead
      OBVIOUS
    <3>3. ASSUME dying' # Unit, NEW j \in Index, j < nextChild'
          PROVE  slot'[<<dying', j>>] = Unit
      BY <1>2, <2>5, <3>1, <3>2, <3>3 DEF DroppedAreDead
    <3>4. QED
      BY <1>2, <2>1, <3>2, <3>3 DEF DroppedAreDead
  <2>8. QED
    BY <1>2, <2>1, <2>2, <2>3, <2>4, <2>6, <2>7 DEF TypeOK, PooledLive
<1>5. QED
  BY <1>3, <1>4

(* A cell that nobody refers to, and that refers to nothing, is freed.     *)
LEMMA FreeInv ==
    ASSUME HeapInv, NEW o \in Heap, kind[o] # "free", refcount[o] = 0,
           \A i \in Index : slot[<<o, i>>] = Unit,
           kind' = [kind EXCEPT ![o] = "free"],
           stats' = [stats EXCEPT !.frees = @ + 1],
           UNCHANGED <<slot, refcount, sinkArgs, moved>>,
           dropStack' = dropStack \ {o},
           dying' = Unit, nextChild' \in 1 .. MaxArgc + 1
    PROVE  HeapInv'
<1> USE DEF HeapInv
<1>1. o \in Obj /\ kind \in [Obj -> {"free", "str", "ctor"}]
  BY DEF TypeOK, Obj
<1>2. TypeOK'
  <2>1. stats' \in [allocations : Nat, frees : Nat, releaseLast : Nat]
    BY DEF TypeOK
  <2>2. kind' \in [Obj -> {"free", "str", "ctor"}]
    BY <1>1
  <2>3. QED
    BY <2>1, <2>2 DEF TypeOK
<1>3. CountIsOwners'
  BY <1>1 DEF CountIsOwners, Owners, Obj
<1>4. RefsAllocated'
  BY <1>1, DeadIsUnreferenced DEF RefsAllocated, Owners, TypeOK, Value
<1>5. EmptyFields'
  BY <1>1 DEF EmptyFields, Obj
<1>6. DroppedAreDead'
  BY <1>1 DEF DroppedAreDead, TypeOK, Obj
<1>7. PooledLive'
  BY <1>1, DisjointAssumption DEF PooledLive, Obj
<1>8. QED
  BY <1>2, <1>3, <1>4, <1>5, <1>6, <1>7

LEMMA NextHeapInv == HeapInv /\ [Next]_vars => HeapInv'
<1> SUFFICES ASSUME HeapInv, [Next]_vars PROVE HeapInv'
  OBVIOUS
<1> USE DEF HeapInv
<1>1. /\ Root \subseteq Slot /\ FieldSlot \subseteq Slot
      /\ slot \in [Slot -> Value]
      /\ \A x \in Root : slot[x] # Unit => slot[x] \in Obj
      /\ \A o \in Obj, i \in Index : <<o, i>> \in Slot
  BY DEF TypeOK, Slot, FieldSlot, Value
<1>2. ASSUME NEW y \in Root, NEW o \in Heap, NEW args \in [Index -> Root \cup {Unit}],
             MakeCtor(y, o, args)
      PROVE  HeapInv'
  BY <1>2, MakeCtorInv
<1>3. ASSUME NEW y \in Root, NEW o \in Heap, MakeStr(y, o) PROVE HeapInv'
  BY <1>3, AllocateToRoot DEF MakeStr, destroyVars, TypeOK
<1>4. ASSUME NEW y \in Root, NEW p \in Pooled, LoadPooled(y, p) PROVE HeapInv'
  <2>1. p \in Obj /\ p \in Value /\ p \notin Heap /\ p # Unit
    BY DisjointAssumption DEF Obj, Value
  <2>2. slot' = [slot EXCEPT ![y] = p] /\ slot' \in [Slot -> Value] /\ y \in Slot /\ slot[y] = Unit
    BY <1>1, <1>4, <2>1 DEF LoadPooled
  <2>3. UNCHANGED <<refcount, kind, dropStack, dying, nextChild, sinkArgs, moved, stats>>
    BY <1>4 DEF LoadPooled, destroyVars
  <2>4. \A o \in Heap : Cardinality(Holders(slot', o)) = Cardinality(Holders(slot, o))
    <3> SUFFICES ASSUME NEW o \in Heap
                 PROVE  Cardinality(Holders(slot', o)) = Cardinality(Holders(slot, o))
      OBVIOUS
    <3>1. o \in Obj /\ slot \in [Slot -> Value]
      BY <1>1 DEF Obj
    <3>2. \A w \in Value : Cardinality(Holders([slot EXCEPT ![y] = w], o)) =
            IF w = o THEN Cardinality(Holders(slot, o)) + 1 ELSE Cardinality(Holders(slot, o))
      <4> HIDE DEF HeapInv
      <4>1. y \in Slot /\ slot[y] = Unit
        BY <2>2
      <4>2. QED
        BY <3>1, <4>1, FillSlot
    <3>3. QED
      BY <2>1, <2>2, <3>2
  <2>5. CountIsOwners'
    BY <2>3, <2>4, OwnersAreHolders DEF CountIsOwners, Owners, Holders
  <2>6. kind[p] # "free"
    BY <2>1 DEF PooledLive
  <2>7. RefsAllocated'
    BY <2>2, <2>3, <2>6 DEF RefsAllocated
  <2>8. \A o \in Obj, i \in Index : slot'[<<o, i>>] = slot[<<o, i>>]
    <3>1. y \notin FieldSlot /\ \A o \in Obj, i \in Index : <<o, i>> \in FieldSlot
      BY DisjointAssumption DEF FieldSlot
    <3>2. QED
      BY <1>1, <2>2, <3>1
  <2>9. QED
    BY <2>2, <2>3, <2>5, <2>7, <2>8 DEF TypeOK, EmptyFields, DroppedAreDead, PooledLive, Obj
<1>5. ASSUME NEW x \in Root, NEW y \in Root, Retain(x, y) PROVE HeapInv'
  BY <1>1, <1>5, GainReference DEF Retain, destroyVars, TypeOK
<1>6. ASSUME NEW x \in Root, Release(x) PROVE HeapInv'
  <2>1. DropReference(x) /\ UNCHANGED <<kind, dying, nextChild, sinkArgs>> /\ moved' \subseteq Root
    BY <1>6 DEF Release, TypeOK
  <2>2. dying = Unit
    BY <1>6 DEF Release, Idle
  <2>3. QED
    BY <1>1, <2>1, <2>2, LoseReference DEF TypeOK, DroppedAreDead
<1>7. ASSUME NEW x \in Root, NEW y \in Root, NEW i \in Index, FieldCopy(x, i, y) PROVE HeapInv'
  BY <1>1, <1>7, GainReference DEF FieldCopy, destroyVars, TypeOK
<1>8. ASSUME NEW x \in Root, NEW y \in Root, NEW i \in Index, TakeField(x, i, y) PROVE HeapInv'
  BY <1>8, TakeFieldInv
<1>9. ASSUME NEW a \in Root, NEW b \in Root, NEW y \in Root, NEW o \in Heap, StrConcat(a, b, y, o)
      PROVE  HeapInv'
  BY <1>9, AllocateToRoot DEF StrConcat, destroyVars, TypeOK
<1>10. ASSUME NEW a \in Root, PrintOrLen(a) PROVE HeapInv'
  BY <1>10 DEF PrintOrLen, heapVars, destroyVars, TypeOK, CountIsOwners, Owners, RefsAllocated,
               EmptyFields, DroppedAreDead, PooledLive
<1>11. ASSUME NEW a \in Root, ReleaseArg(a) PROVE HeapInv'
  <2>1. DropReference(a) /\ UNCHANGED <<kind, dying, nextChild, moved>> /\ sinkArgs' \subseteq Root
    BY <1>11 DEF ReleaseArg, TypeOK
  <2>2. dying = Unit
    BY <1>11 DEF ReleaseArg
  <2>3. QED
    BY <1>1, <2>1, <2>2, LoseReference DEF TypeOK, DroppedAreDead
<1>12. ASSUME NEW o \in Heap, DestroyStr(o) PROVE HeapInv'
  <2>1. kind[o] # "free" /\ refcount[o] = 0 /\ \A i \in Index : slot[<<o, i>>] = Unit
    BY <1>12 DEF DestroyStr, DroppedAreDead, EmptyFields
  <2>2. QED
    BY <1>12, <2>1, FreeInv DEF DestroyStr, TypeOK
<1>13. ASSUME NEW o \in Heap, DestroyCtor(o) PROVE HeapInv'
  <2>1. 1 \in 1 .. MaxArgc + 1 /\ \A i \in Index : ~(i < 1)
    BY BoundAssumption DEF Index
  <2>2. QED
    BY <1>13, <2>1 DEF DestroyCtor, heapVars, TypeOK, CountIsOwners, Owners, RefsAllocated,
                      EmptyFields, DroppedAreDead, PooledLive
<1>14. ASSUME DropChild PROVE HeapInv'
  <2>1. /\ dying \in Heap /\ nextChild \in Index /\ DropReference(<<dying, nextChild>>)
        /\ nextChild' = nextChild + 1 /\ UNCHANGED <<kind, dying, sinkArgs, moved>>
        /\ kind[dying] = "ctor"
        /\ \A i \in Index : i < nextChild => slot[<<dying, i>>] = Unit
    BY <1>14 DEF DropChild, TypeOK, DroppedAreDead
  <2>2. <<dying, nextChild>> \in Slot /\ nextChild + 1 \in 1 .. MaxArgc + 1
    BY <1>1, <2>1, BoundAssumption DEF Obj, Index
  <2>3. slot' = [slot EXCEPT ![<<dying, nextChild>>] = Unit]
    BY <2>1 DEF DropReference
  <2>4. \A i \in Index : i < nextChild + 1 => slot'[<<dying, i>>] = Unit
    BY <1>1, <2>1, <2>2, <2>3 DEF Obj, Index
  <2>5. QED
    BY <2>1, <2>2, <2>4, LoseReference DEF TypeOK, DroppedAreDead
<1>15. ASSUME FreeCtor PROVE HeapInv'
  <2>1. /\ dying \in Heap /\ kind[dying] = "ctor" /\ refcount[dying] = 0 /\ dying \notin dropStack
        /\ \A i \in Index : slot[<<dying, i>>] = Unit
    BY <1>15, BoundAssumption DEF FreeCtor, TypeOK, DroppedAreDead, Index
  <2>2. dropStack' = dropStack \ {dying}
    BY <1>15, <2>1 DEF FreeCtor
  <2>3. 1 \in 1 .. MaxArgc + 1
    BY BoundAssumption
  <2>4. QED
    BY <1>15, <2>1, <2>2, <2>3, FreeInv DEF FreeCtor
<1>16. CASE UNCHANGED vars
  BY <1>16 DEF vars, TypeOK, CountIsOwners, Owners, RefsAllocated, EmptyFields, DroppedAreDead,
                 PooledLive
<1>17. QED
  BY <1>2, <1>3, <1>4, <1>5, <1>6, <1>7, <1>8, <1>9, <1>10, <1>11, <1>12, <1>13, <1>14, <1>15,
     <1>16 DEF Next, Finish, Destroy

(* Counts are exact, and types are respected, in every reachable state of  *)
(* the runtime's heap.                                                     *)
THEOREM CountsAreExact == Spec => []HeapInv
<1>1. QED
  BY InitHeapInv, NextHeapInv, PTL DEF Spec

(* No slot refers to memory that was given back or is being taken apart.   *)
THEOREM NothingDangles == Spec => []NoDanglingReference
<1>1. HeapInv => NoDanglingReference
  <2> SUFFICES ASSUME HeapInv, NEW s \in Slot, slot[s] # Unit
               PROVE  kind[slot[s]] # "free" /\ slot[s] \notin dropStack \cup {dying}
    BY DEF NoDanglingReference
  <2>1. kind[slot[s]] # "free"
    BY DEF HeapInv, RefsAllocated
  <2>2. ASSUME NEW o \in dropStack \cup {dying}, o # Unit PROVE Owners(o) = {}
    <3>1. o \in Heap /\ kind[o] # "free" /\ refcount[o] = 0
      BY <2>2 DEF HeapInv, DroppedAreDead, TypeOK
    <3>2. QED
      BY <3>1, DeadIsUnreferenced
  <2>3. QED
    BY <2>1, <2>2 DEF Owners
<1>2. QED
  BY <1>1, CountsAreExact, PTL

-----------------------------------------------------------------------------
(* One free per allocation, one last release per free.                     *)

LEMMA NextStatsBalance == HeapInv /\ StatsBalance /\ [Next]_vars => StatsBalance'
<1> SUFFICES ASSUME HeapInv, StatsBalance, [Next]_vars PROVE StatsBalance'
  OBVIOUS
<1> DEFINE allocated == {o \in Heap : kind[o] # "free"}
           awaiting == dropStack \cup ({dying} \ {Unit})
<1>1. /\ stats \in [allocations : Nat, frees : Nat, releaseLast : Nat]
      /\ stats.allocations \in Nat /\ stats.frees \in Nat /\ stats.releaseLast \in Nat
      /\ kind \in [Obj -> {"free", "str", "ctor"}] /\ refcount \in [Obj -> 0 .. MaxCount]
      /\ slot \in [Slot -> Value] /\ dropStack \subseteq Heap /\ dying \in Heap \cup {Unit}
  BY DEF HeapInv, TypeOK
<1>2. allocated \in SUBSET Heap /\ awaiting \in SUBSET Heap
  BY <1>1
<1>3. IsFiniteSet(allocated) /\ IsFiniteSet(awaiting)
  BY <1>2, FiniteAssumption, FS_Subset
<1>4. Cardinality(allocated) \in Nat /\ Cardinality(awaiting) \in Nat
  BY <1>3, FS_CardinalityType
<1>5. /\ stats.allocations = stats.frees + Cardinality(allocated)
      /\ stats.releaseLast = stats.frees + Cardinality(awaiting)
  BY DEF StatsBalance
<1>6. ASSUME NEW o \in Heap, NEW k \in {"str", "ctor"}, Allocate(o, k), UNCHANGED destroyVars
      PROVE  StatsBalance'
  <2>1. o \in Obj /\ o \notin allocated
    BY <1>6 DEF Allocate, Obj
  <2>2. allocated' = allocated \cup {o}
    BY <1>1, <1>6, <2>1 DEF Allocate, Obj
  <2>3. Cardinality(allocated') = Cardinality(allocated) + 1
    BY <1>3, <2>1, <2>2, FS_AddElement
  <2>4. /\ stats'.allocations = stats.allocations + 1 /\ stats'.frees = stats.frees
        /\ stats'.releaseLast = stats.releaseLast /\ awaiting' = awaiting
    BY <1>1, <1>6 DEF Allocate, destroyVars
  <2>5. QED
    BY <1>1, <1>4, <1>5, <2>3, <2>4 DEF StatsBalance
<1>7. ASSUME NEW s \in Slot, DropReference(s), UNCHANGED <<kind, dying>>
      PROVE  StatsBalance'
  <2>1. allocated' = allocated
    BY <1>7
  <2>2. CASE DecIsLast(slot[s])
    <3>1. slot[s] \in Heap /\ refcount[slot[s]] = 1
      BY <1>1, <2>2 DEF DecIsLast, Counted, Pinned, Value, Obj
    <3>2. slot[s] \notin awaiting
      BY <1>1, <3>1 DEF HeapInv, DroppedAreDead
    <3>3. awaiting' = awaiting \cup {slot[s]}
      BY <1>7, <2>2 DEF DropReference
    <3>4. Cardinality(awaiting') = Cardinality(awaiting) + 1
      BY <1>3, <3>2, <3>3, FS_AddElement
    <3>5. /\ stats'.allocations = stats.allocations /\ stats'.frees = stats.frees
          /\ stats'.releaseLast = stats.releaseLast + 1
      BY <1>1, <1>7, <2>2 DEF DropReference
    <3>6. /\ stats'.allocations = stats'.frees + Cardinality(allocated')
          /\ stats'.releaseLast = stats'.frees + Cardinality(awaiting')
      <4> HIDE DEF allocated, awaiting
      <4>1. Cardinality(allocated') = Cardinality(allocated)
        BY <2>1
      <4>2. QED
        BY <1>1, <1>4, <1>5, <3>4, <3>5, <4>1
    <3>7. QED
      BY <3>6 DEF StatsBalance
  <2>3. CASE ~DecIsLast(slot[s])
    BY <1>5, <1>7, <2>1, <2>3 DEF DropReference, StatsBalance
  <2>4. QED
    BY <2>2, <2>3
<1>8. ASSUME NEW o \in Heap, o \in awaiting, kind' = [kind EXCEPT ![o] = "free"],
             stats' = [stats EXCEPT !.frees = @ + 1], awaiting' = awaiting \ {o}
      PROVE  StatsBalance'
  <2>1. o \in allocated /\ o \in Obj /\ o # Unit
    BY <1>8, DisjointAssumption DEF HeapInv, DroppedAreDead, Obj
  <2>2. allocated' = allocated \ {o}
    BY <1>1, <1>8, <2>1 DEF Obj
  <2>3. /\ Cardinality(allocated') = Cardinality(allocated) - 1
        /\ Cardinality(awaiting') = Cardinality(awaiting) - 1
    <3> HIDE DEF allocated, awaiting
    <3>1. Cardinality(allocated \ {o}) = Cardinality(allocated) - 1
      BY <1>3, <2>1, FS_RemoveElement
    <3>2. Cardinality(awaiting \ {o}) = Cardinality(awaiting) - 1
      BY <1>3, <1>8, FS_RemoveElement
    <3>3. QED
      BY <1>8, <2>2, <3>1, <3>2
  <2>4. /\ stats'.allocations = stats.allocations /\ stats'.frees = stats.frees + 1
        /\ stats'.releaseLast = stats.releaseLast
    BY <1>1, <1>8
  <2>5. QED
    BY <1>1, <1>4, <1>5, <2>3, <2>4 DEF StatsBalance
<1>9. ASSUME UNCHANGED <<stats, kind>>, awaiting' = awaiting PROVE StatsBalance'
  BY <1>5, <1>9 DEF StatsBalance
<1>10. Root \subseteq Slot
  BY DEF Slot
<1>11. ASSUME NEW y \in Root, NEW o \in Heap, NEW args \in [Index -> Root \cup {Unit}],
              MakeCtor(y, o, args)
       PROVE  StatsBalance'
  BY <1>6, <1>11 DEF MakeCtor
<1>12. ASSUME NEW y \in Root, NEW o \in Heap, MakeStr(y, o) PROVE StatsBalance'
  BY <1>6, <1>12 DEF MakeStr
<1>13. ASSUME NEW a \in Root, NEW b \in Root, NEW y \in Root, NEW o \in Heap, StrConcat(a, b, y, o)
       PROVE  StatsBalance'
  BY <1>6, <1>13 DEF StrConcat
<1>14. ASSUME NEW y \in Root, NEW p \in Pooled, LoadPooled(y, p) PROVE StatsBalance'
  BY <1>9, <1>14 DEF LoadPooled, destroyVars
<1>15. ASSUME NEW x \in Root, NEW y \in Root, Retain(x, y) PROVE StatsBalance'
  BY <1>9, <1>15 DEF Retain, destroyVars
<1>16. ASSUME NEW x \in Root, NEW y \in Root, NEW i \in Index, FieldCopy(x, i, y) PROVE StatsBalance'
  BY <1>9, <1>16 DEF FieldCopy, destroyVars
<1>17. ASSUME NEW x \in Root, NEW y \in Root, NEW i \in Index, TakeField(x, i, y) PROVE StatsBalance'
  BY <1>9, <1>17 DEF TakeField, destroyVars
<1>18. ASSUME NEW a \in Root, PrintOrLen(a) PROVE StatsBalance'
  BY <1>9, <1>18 DEF PrintOrLen, heapVars, destroyVars
<1>19. ASSUME NEW x \in Root, Release(x) PROVE StatsBalance'
  BY <1>7, <1>10, <1>19 DEF Release
<1>20. ASSUME NEW a \in Root, ReleaseArg(a) PROVE StatsBalance'
  BY <1>7, <1>10, <1>20 DEF ReleaseArg
<1>21. ASSUME DropChild PROVE StatsBalance'
  <2>1. <<dying, nextChild>> \in Slot
    BY <1>1, <1>21 DEF DropChild, Slot, FieldSlot, Obj
  <2>2. QED
    BY <1>7, <1>21, <2>1 DEF DropChild
<1>22. ASSUME NEW o \in Heap, DestroyStr(o) PROVE StatsBalance'
  <2>1. o \in awaiting /\ awaiting' = awaiting \ {o}
    BY <1>22 DEF DestroyStr
  <2>2. QED
    BY <1>8, <1>22, <2>1 DEF DestroyStr
<1>23. ASSUME NEW o \in Heap, DestroyCtor(o) PROVE StatsBalance'
  <2>1. awaiting' = awaiting
    BY <1>23, DisjointAssumption DEF DestroyCtor, Obj
  <2>2. QED
    BY <1>9, <1>23, <2>1 DEF DestroyCtor, heapVars
<1>24. ASSUME FreeCtor PROVE StatsBalance'
  <2>1. dying \in Heap /\ dying \in awaiting /\ dying \notin dropStack
    BY <1>1, <1>24 DEF FreeCtor, HeapInv, DroppedAreDead
  <2>2. awaiting' = awaiting \ {dying}
    BY <1>24, <2>1 DEF FreeCtor
  <2>3. QED
    BY <1>8, <1>24, <2>1, <2>2 DEF FreeCtor
<1>25. CASE UNCHANGED vars
  BY <1>9, <1>25 DEF vars
<1>26. QED
  BY <1>11, <1>12, <1>13, <1>14, <1>15, <1>16, <1>17, <1>18, <1>19, <1>20, <1>21, <1>22, <1>23,
     <1>24, <1>25 DEF Next, Finish, Destroy

(* However a program ends, its allocations and frees differ by the cells   *)
(* that are still allocated: none when it released all it owned.           *)
THEOREM StatsBalanced == Spec => []StatsBalance
<1>1. Init => StatsBalance
  <2> SUFFICES ASSUME Init PROVE StatsBalance
    OBVIOUS
  <2>1. {o \in Heap : kind[o] # "free"} = {}
    BY DisjointAssumption, PooledAssumption DEF Init, Obj
  <2>2. dropStack \cup ({dying} \ {Unit}) = {}
    BY DEF Init
  <2>3. stats.allocations = 0 /\ stats.frees = 0 /\ stats.releaseLast = 0
    BY DEF Init
  <2>4. QED
    BY <2>1, <2>2, <2>3, FS_EmptySet DEF StatsBalance
<1>2. QED
  BY <1>1, NextStatsBalance, CountsAreExact, PTL DEF Spec

-----------------------------------------------------------------------------
(* What is left to do for a release decreases.                             *)

LEMMA WorkIsNumber ==
    ASSUME HeapInv
    PROVE  /\ IsFiniteSet(Standing) /\ Cardinality(Standing) \in Nat
           /\ IsFiniteSet(sinkArgs) /\ Cardinality(sinkArgs) \in Nat
           /\ MaxArgc \in Nat /\ nextChild \in 1 .. MaxArgc + 1
<1>1. Standing \in SUBSET Heap
  BY DEF Standing
<1>2. sinkArgs \in SUBSET Root /\ nextChild \in 1 .. MaxArgc + 1
  BY DEF HeapInv, TypeOK
<1>3. QED
  BY <1>1, <1>2, FiniteAssumption, BoundAssumption, FS_Subset, FS_CardinalityType

(* One cell fewer is worth more than all of its fields.                    *)
LEMMA OneCellFewer ==
    ASSUME NEW k \in Nat, NEW m \in Nat, m # 0
    PROVE  (k + 3) * m = (k + 3) * (m - 1) + k + 3
OBVIOUS

LEMMA NextAdvances == HeapInv /\ [Next]_vars => [~Idle => Work' < Work]_vars
<1> SUFFICES ASSUME HeapInv, Next, ~Idle PROVE Work' < Work
  BY DEF vars
<1> DEFINE n == Cardinality(Standing)
           k == Cardinality(sinkArgs)
<1>1. /\ IsFiniteSet(Standing) /\ n \in Nat /\ IsFiniteSet(sinkArgs) /\ k \in Nat
      /\ MaxArgc \in Nat /\ nextChild \in 1 .. MaxArgc + 1
  BY WorkIsNumber
<1>2. Unit \notin Heap /\ kind \in [Obj -> {"free", "str", "ctor"}] /\ Heap \subseteq Obj
  BY DisjointAssumption DEF HeapInv, TypeOK, Obj
<1>3. (MaxArgc + 3) * n \in Nat
  BY <1>1
<1>4. ASSUME NEW a \in Root, ReleaseArg(a) PROVE Work' < Work
  <2>1. Standing' = Standing /\ dying' = dying /\ dying = Unit
    BY <1>4 DEF ReleaseArg, Standing
  <2>2. Cardinality(sinkArgs') = k - 1
    BY <1>1, <1>4, FS_RemoveElement DEF ReleaseArg
  <2> HIDE DEF n, k
  <2>3. Work = k + (MaxArgc + 3) * n /\ Work' = (k - 1) + (MaxArgc + 3) * n
    BY <1>1, <1>3, <2>1, <2>2 DEF Work, n, k
  <2>4. QED
    BY <1>1, <1>3, <2>3
<1>5. ASSUME NEW o \in Heap, DestroyStr(o) PROVE Work' < Work
  <2>1. o \in Standing /\ dying = Unit /\ dying' = Unit /\ sinkArgs' = sinkArgs
    BY <1>2, <1>5 DEF DestroyStr, Standing
  <2>2. Standing' = Standing \ {o}
    BY <1>2, <1>5, <2>1 DEF DestroyStr, Standing
  <2>3. Cardinality(Standing') = n - 1 /\ n # 0
    BY <1>1, <2>1, <2>2, FS_RemoveElement, FS_EmptySet
  <2> HIDE DEF n, k
  <2>4. Work = k + (MaxArgc + 3) * n /\ Work' = k + (MaxArgc + 3) * (n - 1)
    BY <1>1, <1>3, <2>1, <2>3 DEF Work, n, k
  <2>5. (MaxArgc + 3) * n = (MaxArgc + 3) * (n - 1) + MaxArgc + 3 /\ (MaxArgc + 3) * (n - 1) \in Nat
    BY <1>1, <2>3, OneCellFewer
  <2>6. QED
    BY <1>1, <1>3, <2>4, <2>5
<1>6. ASSUME NEW o \in Heap, DestroyCtor(o) PROVE Work' < Work
  <2>1. o \in Standing /\ dying = Unit /\ dying' = o /\ o # Unit /\ nextChild' = 1 /\ sinkArgs' = sinkArgs
    BY <1>2, <1>6 DEF DestroyCtor, Standing
  <2>2. Standing' = Standing \ {o}
    BY <1>2, <1>6, <2>1 DEF DestroyCtor, Standing, heapVars
  <2>3. Cardinality(Standing') = n - 1 /\ n # 0
    BY <1>1, <2>1, <2>2, FS_RemoveElement, FS_EmptySet
  <2> HIDE DEF n, k
  <2>4. Work = k + (MaxArgc + 3) * n /\ Work' = k + (MaxArgc + 3) * (n - 1) + (MaxArgc + 1)
    BY <1>1, <1>3, <2>1, <2>3 DEF Work, n, k
  <2>5. (MaxArgc + 3) * n = (MaxArgc + 3) * (n - 1) + MaxArgc + 3 /\ (MaxArgc + 3) * (n - 1) \in Nat
    BY <1>1, <2>3, OneCellFewer
  <2>6. QED
    BY <1>1, <1>3, <2>4, <2>5
<1>7. ASSUME DropChild PROVE Work' < Work
  <2>1. Standing' = Standing /\ dying' = dying /\ dying # Unit /\ nextChild' = nextChild + 1
        /\ sinkArgs' = sinkArgs /\ nextChild \in 1 .. MaxArgc
    BY <1>7 DEF DropChild, Standing, Index
  <2> HIDE DEF n, k
  <2>2. Work = k + (MaxArgc + 3) * n + (MaxArgc + 2 - nextChild)
        /\ Work' = k + (MaxArgc + 3) * n + (MaxArgc + 2 - (nextChild + 1))
    BY <2>1 DEF Work, n, k
  <2>3. QED
    BY <1>1, <1>3, <2>1, <2>2
<1>8. ASSUME FreeCtor PROVE Work' < Work
  <2>1. dying \in Heap /\ dying' = Unit /\ nextChild = MaxArgc + 1 /\ sinkArgs' = sinkArgs
    BY <1>1, <1>8 DEF FreeCtor, Index, HeapInv, TypeOK
  <2>2. Standing' = Standing
    BY <1>2, <1>8, <2>1 DEF FreeCtor, Standing
  <2> HIDE DEF n, k
  <2>3. Work = k + (MaxArgc + 3) * n + 1 /\ Work' = k + (MaxArgc + 3) * n
    BY <1>1, <1>2, <1>3, <2>1, <2>2 DEF Work, n, k
  <2>4. QED
    BY <1>1, <1>3, <2>3
<1>9. QED
  BY <1>4, <1>5, <1>6, <1>7, <1>8 DEF Next, Finish, Destroy, MakeCtor, MakeStr, LoadPooled, Retain,
     Release, FieldCopy, TakeField, StrConcat, PrintOrLen

(* However deep the structure that a last release takes apart, each step   *)
(* of the worklist leaves a smaller number, so that the release ends.      *)
THEOREM DestructionAdvances == Spec => DestroyAdvances
BY NextAdvances, CountsAreExact, PTL DEF Spec, DestroyAdvances

-----------------------------------------------------------------------------
(* The counted heap implements IdealHeap, one action at a time.            *)

LEMMA IdealNames ==
    /\ Ideal!Obj = Obj /\ Ideal!Index = Index /\ Ideal!FieldSlot = FieldSlot /\ Ideal!Slot = Slot
    /\ \A o : Ideal!Owners(o) = Owners(o)
BY DEF Ideal!Obj, Ideal!Index, Ideal!FieldSlot, Ideal!Slot, Ideal!Owners,
       Obj, Index, FieldSlot, Slot, Owners

LEMMA InitRefines == Init => Ideal!IdealInit
<1> SUFFICES ASSUME Init PROVE Ideal!IdealInit
  OBVIOUS
<1>1. \A o \in Heap : kind[o] = "free"
  BY DisjointAssumption, PooledAssumption DEF Init, Obj
<1>2. \A r \in Root : slot[r] = Unit
  BY DisjointAssumption DEF Init, Slot, FieldSlot, Obj
<1>3. \A o \in Heap, i \in Index : slot[<<o, i>>] = Unit
  BY DisjointAssumption DEF Init, Slot, FieldSlot, Obj
<1>4. QED
  BY <1>1, <1>2, <1>3, IdealNames DEF Ideal!IdealInit

(* A fresh string is a cell built from nothing.                            *)
LEMMA AllocateRefines ==
    ASSUME HeapInv, NEW y \in Root, NEW o \in Heap, slot[y] = Unit,
           Allocate(o, "str"), slot' = [slot EXCEPT ![y] = o]
    PROVE  Ideal!Build(y)
<1>1. /\ kind[o] = "free" /\ kind' = [kind EXCEPT ![o] = "str"]
      /\ slot \in [Slot -> Value] /\ y \in Slot /\ Root \subseteq Slot
      /\ FieldSlot \subseteq Slot /\ y \notin FieldSlot
  BY DisjointAssumption DEF Allocate, HeapInv, TypeOK, Slot
<1>2. slot'[y] = o /\ \A s \in Slot \ {y} : slot'[s] = slot[s]
  BY <1>1
<1>3. \A i \in Index : <<o, i>> \in FieldSlot /\ slot[<<o, i>>] = Unit
  BY <1>1 DEF HeapInv, EmptyFields, FieldSlot, Obj
<1>4. \A i \in Index : slot'[<<o, i>>] = Unit
  BY <1>1, <1>2, <1>3
<1>5. \A r \in Root \ {y} : slot'[r] = IF r \in {} THEN Unit ELSE slot[r]
  BY <1>1, <1>2
<1>6. \A f \in FieldSlot : f[1] # o => slot'[f] = slot[f]
  BY <1>1, <1>2
<1>7. QED
  <2> DEFINE k == "str"
             given == {}
  <2>1. k \in {"str", "ctor"} /\ given \in SUBSET Root
    OBVIOUS
  <2>2. QED
    BY <1>1, <1>2, <1>4, <1>5, <1>6, <2>1, IdealNames DEF Ideal!Build

LEMMA MakeCtorRefines ==
    ASSUME HeapInv, NEW y \in Root, NEW o \in Heap, NEW args \in [Index -> Root \cup {Unit}],
           MakeCtor(y, o, args)
    PROVE  Ideal!Build(y)
<1> DEFINE consumed == {args[i] : i \in Index} \ {Unit}
<1>1. /\ consumed \in SUBSET Root
      /\ slot'[y] = o
      /\ \A s \in consumed \ {y} : slot'[s] = Unit
      /\ \A i \in Index : slot'[<<o, i>>] = IF args[i] = Unit THEN Unit ELSE slot[args[i]]
      /\ \A s \in Slot : s # y /\ s \notin consumed /\ s \notin {o} \X Index
            => slot'[s] = slot[s]
  BY MakeCtorSlots
<1>2. kind[o] = "free" /\ kind' = [kind EXCEPT ![o] = "ctor"] /\ (slot[y] = Unit \/ y \in consumed)
  BY DEF MakeCtor, Allocate
<1>3. /\ Root \subseteq Slot /\ FieldSlot \subseteq Slot /\ Root \cap FieldSlot = {}
      /\ {o} \X Index \subseteq FieldSlot
  BY DisjointAssumption DEF Slot, FieldSlot, Obj
<1>4. \A i \in Index : args[i] # Unit => args[i] \in consumed
  OBVIOUS
<1> HIDE DEF consumed
<1>5. \A r \in Root \ {y} : slot'[r] = IF r \in consumed THEN Unit ELSE slot[r]
  BY <1>1, <1>3
<1>6. \A i \in Index : slot'[<<o, i>>] = Unit \/ \E r \in consumed : slot'[<<o, i>>] = slot[r]
  BY <1>1, <1>4
<1>7. \A f \in FieldSlot : f[1] # o => slot'[f] = slot[f]
  BY <1>1, <1>3
<1>8. QED
  <2> DEFINE k == "ctor"
  <2>1. k \in {"str", "ctor"}
    OBVIOUS
  <2>2. QED
    BY <1>1, <1>2, <1>5, <1>6, <1>7, <2>1, IdealNames DEF Ideal!Build

LEMMA TakeFieldRefines ==
    ASSUME HeapInv, NEW x \in Root, NEW i \in Index, NEW y \in Root, TakeField(x, i, y)
    PROVE  Ideal!IdealNext
<1>1. /\ slot[x] # Unit /\ slot[y] = Unit /\ kind[slot[x]] = "ctor" /\ UNCHANGED kind
      /\ x \in Slot /\ slot[x] \in Value
  BY DEF TakeField, destroyVars, HeapInv, TypeOK, Slot
<1>2. CASE SoleOwner(x)
  <2>1. slot[x] \in Heap /\ refcount[slot[x]] = 1
    BY <1>1, <1>2 DEF SoleOwner, Value, Obj
  <2>2. Cardinality(Holders(slot, slot[x])) = 1
    BY <1>1, <2>1, BoundAssumption, OwnersAreHolders DEF HeapInv, CountIsOwners
  <2>3. x \in Holders(slot, slot[x])
    BY <1>1 DEF Holders
  <2>4. Owners(slot[x]) = {x}
    BY <2>2, <2>3, HoldersFinite, FS_Singleton, OwnersAreHolders
  <2>5. slot' = [slot EXCEPT ![y] = slot[<<slot[x], i>>], ![<<slot[x], i>>] = Unit]
    BY <1>2 DEF TakeField
  <2>6. Ideal!MoveOut(x, y)
    BY <1>1, <2>4, <2>5, IdealNames DEF Ideal!MoveOut
  <2>7. QED
    BY <2>6 DEF Ideal!IdealNext
<1>3. CASE ~SoleOwner(x)
  <2>1. slot' = [slot EXCEPT ![y] = slot[<<slot[x], i>>]]
    BY <1>3 DEF TakeField
  <2>2. Ideal!Share(y)
    BY <1>1, <2>1, IdealNames DEF Ideal!Share
  <2>3. QED
    BY <2>2 DEF Ideal!IdealNext
<1>4. QED
  BY <1>2, <1>3

LEMMA NextRefines == HeapInv /\ [Next]_vars => [Ideal!IdealNext]_(Ideal!idealVars)
<1> SUFFICES ASSUME HeapInv, [Next]_vars PROVE Ideal!IdealNext \/ UNCHANGED <<slot, kind>>
  BY DEF Ideal!idealVars
<1>1. ASSUME NEW y \in Root, Ideal!Build(y) \/ Ideal!Share(y) PROVE Ideal!IdealNext
  BY <1>1 DEF Ideal!IdealNext
<1>2. ASSUME NEW s \in Slot, s \in FieldSlot => Owners(s[1]) = {}, DropReference(s), UNCHANGED kind
      PROVE  Ideal!IdealNext
  BY <1>2, IdealNames DEF DropReference, Ideal!Forget, Ideal!IdealNext
<1>3. ASSUME NEW o \in Heap, kind[o] # "free", refcount[o] = 0,
             \A i \in Index : slot[<<o, i>>] = Unit,
             kind' = [kind EXCEPT ![o] = "free"], UNCHANGED slot
      PROVE  Ideal!IdealNext
  BY <1>3, DeadIsUnreferenced, IdealNames DEF Ideal!Reclaim, Ideal!IdealNext
<1>4. ASSUME NEW y \in Root, NEW o \in Heap, NEW args \in [Index -> Root \cup {Unit}],
             MakeCtor(y, o, args)
      PROVE  Ideal!IdealNext
  BY <1>1, <1>4, MakeCtorRefines
<1>5. ASSUME NEW y \in Root, NEW o \in Heap, MakeStr(y, o) PROVE Ideal!IdealNext
  BY <1>1, <1>5, AllocateRefines DEF MakeStr
<1>6. ASSUME NEW y \in Root, NEW p \in Pooled, LoadPooled(y, p) PROVE Ideal!IdealNext
  BY <1>1, <1>6 DEF LoadPooled, Ideal!Share
<1>7. ASSUME NEW x \in Root, NEW y \in Root, Retain(x, y) PROVE Ideal!IdealNext
  BY <1>1, <1>7 DEF Retain, Ideal!Share
<1>8. ASSUME NEW x \in Root, Release(x) PROVE Ideal!IdealNext
  BY <1>2, <1>8, DisjointAssumption DEF Release, Slot
<1>9. ASSUME NEW x \in Root, NEW y \in Root, NEW i \in Index, FieldCopy(x, i, y)
      PROVE  Ideal!IdealNext
  BY <1>1, <1>9, IdealNames DEF FieldCopy, Ideal!Share
<1>10. ASSUME NEW x \in Root, NEW y \in Root, NEW i \in Index, TakeField(x, i, y)
       PROVE  Ideal!IdealNext
  BY <1>10, TakeFieldRefines
<1>11. ASSUME NEW a \in Root, NEW b \in Root, NEW y \in Root, NEW o \in Heap, StrConcat(a, b, y, o)
       PROVE  Ideal!IdealNext
  BY <1>1, <1>11, AllocateRefines DEF StrConcat
<1>12. ASSUME NEW a \in Root, PrintOrLen(a) PROVE UNCHANGED <<slot, kind>>
  BY <1>12 DEF PrintOrLen, heapVars
<1>13. ASSUME NEW a \in Root, ReleaseArg(a) PROVE Ideal!IdealNext
  BY <1>2, <1>13, DisjointAssumption DEF ReleaseArg, Slot
<1>14. ASSUME NEW o \in Heap, DestroyStr(o) PROVE Ideal!IdealNext
  <2>1. kind[o] # "free" /\ refcount[o] = 0 /\ \A i \in Index : slot[<<o, i>>] = Unit
    BY <1>14 DEF DestroyStr, HeapInv, DroppedAreDead, EmptyFields
  <2>2. QED
    BY <1>3, <1>14, <2>1 DEF DestroyStr
<1>15. ASSUME NEW o \in Heap, DestroyCtor(o) PROVE UNCHANGED <<slot, kind>>
  BY <1>15 DEF DestroyCtor, heapVars
<1>16. ASSUME DropChild PROVE Ideal!IdealNext
  <2>1. /\ dying \in Heap /\ kind[dying] = "ctor" /\ refcount[dying] = 0
        /\ nextChild \in Index /\ DropReference(<<dying, nextChild>>) /\ UNCHANGED kind
    BY <1>16 DEF DropChild, HeapInv, TypeOK, DroppedAreDead
  <2>2. Owners(dying) = {}
    BY <2>1, DeadIsUnreferenced
  <2>3. <<dying, nextChild>> \in Slot /\ <<dying, nextChild>>[1] = dying
    BY <2>1 DEF Slot, FieldSlot, Obj
  <2>4. QED
    BY <1>2, <2>1, <2>2, <2>3
<1>17. ASSUME FreeCtor PROVE Ideal!IdealNext
  <2>1. /\ dying \in Heap /\ kind[dying] = "ctor" /\ refcount[dying] = 0
        /\ \A i \in Index : slot[<<dying, i>>] = Unit
    BY <1>17, BoundAssumption DEF FreeCtor, HeapInv, TypeOK, DroppedAreDead, Index
  <2>2. QED
    BY <1>3, <1>17, <2>1 DEF FreeCtor
<1>18. CASE UNCHANGED vars
  BY <1>18 DEF vars
<1>19. QED
  BY <1>4, <1>5, <1>6, <1>7, <1>8, <1>9, <1>10, <1>11, <1>12, <1>13, <1>14, <1>15, <1>16, <1>17,
     <1>18 DEF Next, Finish, Destroy

(* Reference counting is a heap that reclaims only what nobody refers to   *)
(* and changes only what one dead reference can see.                       *)
THEOREM ArcRefinesIdealHeap == Spec => RefinesIdealHeap
<1>1. QED
  BY InitRefines, NextRefines, CountsAreExact, PTL DEF Spec, RefinesIdealHeap, Ideal!IdealSpec

-----------------------------------------------------------------------------
(* Reachable is the least set that holds the start and is closed under     *)
(* following fields.                                                        *)

FieldsOf(S) == {slot[<<o, i>>] : o \in S \ {Unit}, i \in Index}

Closed(C) == FieldsOf(C) \ {Unit} \subseteq C

LEMMA FieldsOfMembers ==
    \A S, v : v \in FieldsOf(S) <=> \E o \in S \ {Unit}, i \in Index : v = slot[<<o, i>>]
BY SMT DEF FieldsOf

(* The rounds of Reachable, as iterates of one step.                        *)
LEMMA ReachableRounds ==
    ASSUME slot \in [Slot -> Value], NEW from, from \subseteq Value
    PROVE  \E g \in [Nat -> SUBSET Value] :
              /\ g[0] = from
              /\ \A n \in Nat : g[n + 1] = g[n] \cup FieldsOf(g[n])
              /\ Reachable(from) = g[Cardinality(Obj)] \ {Unit}
<1> DEFINE step == [S \in SUBSET Value |-> S \cup FieldsOf(S)]
           f == CHOOSE g : g = [n \in Nat |-> IF n = 0 THEN from ELSE g[n - 1] \cup {slot[<<o, i>>] : o \in g[n - 1] \ {Unit}, i \in Index}]
           h == CHOOSE g : g = [n \in Nat |-> IF n = 0 THEN from ELSE step[g[n - 1]]]
<1>1. \A S \in SUBSET Value : FieldsOf(S) \subseteq Value
  <2>1. \A o \in Obj, i \in Index : slot[<<o, i>>] \in Value
    BY DEF Slot, FieldSlot
  <2>2. \A o \in Value \ {Unit} : o \in Obj
    BY DEF Value
  <2>3. ASSUME NEW S \in SUBSET Value, NEW v \in FieldsOf(S) PROVE v \in Value
    <3>1. PICK o \in S \ {Unit}, i \in Index : v = slot[<<o, i>>]
      BY FieldsOfMembers
    <3> QED
      BY <2>1, <2>2, <3>1
  <2> QED
    BY <2>3
<1>2. step \in [SUBSET Value -> SUBSET Value]
  BY <1>1
<1>3. h \in [Nat -> SUBSET Value] /\ Iterates(from, step, h)
  <2> HIDE DEF step
  <2> QED
    BY <1>2, RecursiveFunction
<1>4. h[0] = from /\ \A n \in Nat : h[n + 1] = h[n] \cup FieldsOf(h[n])
  BY <1>3 DEF Iterates
<1>5. Reachable(from) = f[Cardinality(Obj)] \ {Unit}
  BY DEF Reachable
<1> DEFINE D(g) == g = [n \in Nat |-> IF n = 0 THEN from ELSE g[n - 1] \cup FieldsOf(g[n - 1])]
<1>6. D(h)
  <2>1. ASSUME NEW n \in Nat, n # 0 PROVE h[n] = h[n - 1] \cup FieldsOf(h[n - 1])
    <3>1. n - 1 \in Nat /\ (n - 1) + 1 = n
      BY <2>1
    <3> HIDE DEF h
    <3> QED
      BY <1>4, <3>1
  <2> HIDE DEF h
  <2> QED
    BY <1>3, <1>4, <2>1
<1>7. D(f)
  <2> HIDE DEF h
  <2>1. f = CHOOSE g : D(g)
    BY DEF FieldsOf
  <2> HIDE DEF D, f
  <2> QED
    BY <1>6, <2>1
<1>8. f[0] = from /\ \A n \in Nat : f[n + 1] = f[n] \cup FieldsOf(f[n])
  <2>1. \A n \in Nat : n + 1 \in Nat /\ n + 1 # 0 /\ (n + 1) - 1 = n
    OBVIOUS
  <2>2. \A m \in Nat : f[m] = IF m = 0 THEN from ELSE f[m - 1] \cup FieldsOf(f[m - 1])
    <3> HIDE DEF f
    <3> QED
      BY <1>7
  <2> HIDE DEF D, f
  <2> QED
    BY <2>1, <2>2
<1>9. f \in [Nat -> SUBSET Value]
  <2> DEFINE T == {n \in Nat : f[n] \subseteq Value}
  <2> HIDE DEF f
  <2>1. 0 \in T /\ \A n \in Nat : n \in T => n + 1 \in T
    BY <1>1, <1>8
  <2> HIDE DEF T
  <2>2. \A n \in Nat : n \in T
    BY <2>1, NatBySteps
  <2> QED
    BY <1>7, <2>2 DEF T
<1> HIDE DEF f
<1> QED
  BY <1>5, <1>8, <1>9

(* Following fields adds nothing to what is reachable.                      *)
LEMMA ReachableClosed ==
    ASSUME slot \in [Slot -> Value], NEW from, from \subseteq Value
    PROVE  /\ Reachable(from) \subseteq Obj
           /\ from \ {Unit} \subseteq Reachable(from)
           /\ Closed(Reachable(from))
<1> DEFINE k == Cardinality(Obj)
<1>1. PICK g \in [Nat -> SUBSET Value] :
              /\ g[0] = from
              /\ \A n \in Nat : g[n + 1] = g[n] \cup FieldsOf(g[n])
              /\ Reachable(from) = g[k] \ {Unit}
  BY ReachableRounds
<1>2. IsFiniteSet(Obj) /\ k \in Nat
  BY FS_Union, FS_CardinalityType, FiniteAssumption DEF Obj
<1>3. IsFiniteSet(Value) /\ Cardinality(Value) = k + 1
  BY <1>2, FS_AddElement, DisjointAssumption DEF Value
<1> HIDE DEF k
<1>4. \A n \in Nat : g[n] \subseteq g[n + 1]
  BY <1>1
<1>5. ASSUME NEW n \in Nat, g[n + 1] = g[n] PROVE g[n + 2] = g[n + 1]
  <2>1. n + 1 \in Nat /\ (n + 1) + 1 = n + 2
    OBVIOUS
  <2> QED
    BY <1>1, <1>5, <2>1
<1>6. CASE from = {}
  <2> DEFINE T == {n \in Nat : g[n] = {}}
  <2>1. 0 \in T /\ \A n \in Nat : n \in T => n + 1 \in T
    BY <1>1, <1>6, FieldsOfMembers
  <2> HIDE DEF T
  <2>2. \A n \in Nat : n \in T
    BY <2>1, NatBySteps
  <2>3. Reachable(from) = {}
    BY <1>1, <1>2, <2>2 DEF T
  <2> QED
    BY <1>6, <2>3, FieldsOfMembers DEF Closed
<1>7. CASE from # {}
  <2>1. IsFiniteSet(from) /\ Cardinality(from) \in Nat /\ Cardinality(from) # 0
    <3>1. from \in SUBSET Value
      OBVIOUS
    <3> QED
      BY <1>3, <1>7, <3>1, FS_Subset, FS_CardinalityType, FS_EmptySet
  <2>2. Cardinality(Value) <= k + Cardinality(g[0])
    BY <1>1, <1>2, <1>3, <2>1
  <2>3. g[k + 1] = g[k]
    BY <1>2, <1>3, <1>4, <1>5, <2>2, GrowthStops
  <2>4. FieldsOf(g[k]) \subseteq g[k]
    BY <1>1, <1>2, <2>3
  <2>5. Closed(Reachable(from))
    BY <1>1, <2>4, FieldsOfMembers DEF Closed
  <2>6. from \subseteq g[k]
    <3> DEFINE T == {n \in Nat : from \subseteq g[n]}
    <3>1. 0 \in T /\ \A n \in Nat : n \in T => n + 1 \in T
      BY <1>1
    <3> HIDE DEF T
    <3>2. \A n \in Nat : n \in T
      BY <3>1, NatBySteps
    <3> QED
      BY <1>2, <3>2 DEF T
  <2> QED
    BY <1>1, <1>2, <2>5, <2>6 DEF Value
<1> QED
  BY <1>6, <1>7

(* Whatever holds the start and is closed holds all that is reachable.      *)
LEMMA ReachableLeast ==
    ASSUME slot \in [Slot -> Value], NEW from, from \subseteq Value,
           NEW C, from \ {Unit} \subseteq C, Closed(C)
    PROVE  Reachable(from) \subseteq C
<1>1. PICK g \in [Nat -> SUBSET Value] :
              /\ g[0] = from
              /\ \A n \in Nat : g[n + 1] = g[n] \cup FieldsOf(g[n])
              /\ Reachable(from) = g[Cardinality(Obj)] \ {Unit}
  BY ReachableRounds
<1>2. Cardinality(Obj) \in Nat
  BY FS_Union, FS_CardinalityType, FiniteAssumption DEF Obj
<1> DEFINE T == {n \in Nat : g[n] \ {Unit} \subseteq C}
<1>3. 0 \in T
  BY <1>1
<1>4. ASSUME NEW n \in Nat, n \in T PROVE n + 1 \in T
  <2>1. FieldsOf(g[n]) \subseteq FieldsOf(C)
    BY <1>4, FieldsOfMembers
  <2> QED
    BY <1>1, <1>4, <2>1 DEF Closed
<1> HIDE DEF T
<1>5. \A n \in Nat : n \in T
  BY <1>3, <1>4, NatBySteps
<1> QED
  BY <1>1, <1>2, <1>5 DEF T

-----------------------------------------------------------------------------
(* What makes a leak impossible: the fields of the cells have no cycle, as *)
(* a constructor's fields are older than itself; the constant pool refers  *)
(* to nothing outside it; and a cell whose count has reached zero is one   *)
(* that the worklist still has to free.                                    *)

Acyclic ==
    \A C \in SUBSET Heap : C # {} =>
        \E o \in C : \A p \in C, i \in Index : slot[<<p, i>>] # o

PooledFixed == \A p \in Pooled, i \in Index : slot[<<p, i>>] \in Pooled \cup {Unit}

ZeroIsDropped ==
    \A o \in Heap : kind[o] # "free" /\ refcount[o] = 0 => o \in dropStack \cup {dying}

ReachInv == HeapInv /\ Acyclic /\ PooledFixed /\ ZeroIsDropped

(* Why there is then no leak: of the cells that are lost, one has no owner *)
(* among them, and its owners are not lost, so that it is not lost either. *)
LEMMA ReachInvNoLeak == ReachInv => NoLeak
<1> SUFFICES ASSUME ReachInv, Idle,
                    NEW c \in Heap, kind[c] # "free",
                    c \notin Reachable({slot[r] : r \in Root} \cup {o \in Heap : refcount[o] = MaxCount})
             PROVE  FALSE
  BY DEF NoLeak
<1> DEFINE from == {slot[r] : r \in Root} \cup {o \in Heap : refcount[o] = MaxCount}
           R == Reachable(from)
           lost == {o \in Heap : kind[o] # "free" /\ o \notin R}
<1>1. /\ slot \in [Slot -> Value] /\ Root \subseteq Slot /\ Heap \subseteq Value
      /\ Unit \notin Heap /\ Heap \cap Pooled = {}
  BY DisjointAssumption DEF ReachInv, HeapInv, TypeOK, Slot, Value, Obj
<1>2. from \subseteq Value
  BY <1>1
<1>3. from \ {Unit} \subseteq R /\ Closed(R)
  BY <1>1, <1>2, ReachableClosed
<1>4. c \in lost
  OBVIOUS
<1> HIDE DEF R
<1>5. PICK o \in lost : \A p \in lost, i \in Index : slot[<<p, i>>] # o
  <2>1. lost \in SUBSET Heap /\ lost # {}
    BY <1>4
  <2> HIDE DEF lost
  <2> QED
    BY <2>1 DEF ReachInv, Acyclic
<1>6. refcount[o] # MaxCount
  BY <1>1, <1>3, <1>5
<1>7. refcount[o] # 0
  BY <1>1, <1>5 DEF ReachInv, ZeroIsDropped, Idle
<1>8. PICK s \in Slot : slot[s] = o
  <2>1. refcount[o] = Cardinality(Owners(o))
    BY <1>5, <1>6 DEF ReachInv, HeapInv, CountIsOwners
  <2>2. Owners(o) # {}
    BY <1>7, <2>1, FS_EmptySet
  <2> QED
    BY <2>2 DEF Owners
<1>9. CASE s \in Root
  <2>1. o \in from
    BY <1>8, <1>9
  <2> QED
    BY <1>1, <1>3, <1>5, <2>1
<1>10. CASE s \in FieldSlot
  <2>1. PICK p \in Obj, i \in Index : s = <<p, i>>
    BY <1>10 DEF FieldSlot
  <2>2. p \in Heap
    BY <1>1, <1>5, <1>8, <2>1 DEF ReachInv, PooledFixed, Obj
  <2>3. kind[p] # "free"
    BY <1>1, <1>5, <1>8, <2>1, <2>2 DEF ReachInv, HeapInv, EmptyFields
  <2>4. p \in R
    BY <1>5, <1>8, <2>1, <2>2, <2>3
  <2>5. o \in FieldsOf(R)
    BY <1>1, <1>8, <2>1, <2>2, <2>4, FieldsOfMembers
  <2> QED
    BY <1>1, <1>3, <1>5, <2>5 DEF Closed
<1> QED
  BY <1>9, <1>10 DEF Slot

(* Taking references out of fields makes no cycle.                          *)
LEMMA AcyclicKept ==
    ASSUME Acyclic,
           \A p \in Heap, i \in Index : slot'[<<p, i>>] \in {slot[<<p, i>>], Unit}
    PROVE  Acyclic'
<1>1. SUFFICES ASSUME NEW C \in SUBSET Heap, C # {}
               PROVE  \E o \in C : \A p \in C, i \in Index : slot'[<<p, i>>] # o
  BY DEF Acyclic
<1>2. PICK o \in C : \A p \in C, i \in Index : slot[<<p, i>>] # o
  BY <1>1 DEF Acyclic
<1>3. o # Unit
  BY DisjointAssumption DEF Obj
<1> QED
  BY <1>2, <1>3

(* A new constructor's fields hold older cells, and no field holds it.      *)
LEMMA AcyclicBuilt ==
    ASSUME Acyclic, NEW o \in Heap,
           \A p \in Heap, i \in Index : slot'[<<p, i>>] # o,
           \A p \in Heap \ {o}, i \in Index : slot'[<<p, i>>] = slot[<<p, i>>]
    PROVE  Acyclic'
<1>1. SUFFICES ASSUME NEW C \in SUBSET Heap, C # {}
               PROVE  \E q \in C : \A p \in C, i \in Index : slot'[<<p, i>>] # q
  BY DEF Acyclic
<1>2. CASE o \in C
  BY <1>2
<1>3. CASE o \notin C
  BY <1>1, <1>3 DEF Acyclic
<1> QED
  BY <1>2, <1>3

LEMMA InitReachInv == Init => ReachInv
<1> SUFFICES ASSUME Init PROVE ReachInv
  OBVIOUS
<1>1. /\ \A p \in Heap, i \in Index : <<p, i>> \in Slot /\ <<p, i>> \notin Pooled \X Index
      /\ \A p \in Pooled, i \in Index : <<p, i>> \in Slot /\ <<p, i>> \in Pooled \X Index
  BY DisjointAssumption DEF Slot, FieldSlot, Obj
<1>2. \A p \in Heap, i \in Index : slot[<<p, i>>] = Unit
  BY <1>1 DEF Init
<1>3. Acyclic
  BY <1>2, DisjointAssumption DEF Acyclic, Obj
<1>4. PooledFixed
  BY <1>1, PooledAssumption DEF Init, PooledFixed
<1>5. ZeroIsDropped
  <2>1. \A o \in Heap : kind[o] = "free"
    BY DisjointAssumption, PooledAssumption DEF Init, Obj
  <2> QED
    BY <2>1 DEF ZeroIsDropped
<1> QED
  BY <1>3, <1>4, <1>5, InitHeapInv DEF ReachInv

(* What a step does to the fields of the cells and to those of the pool.    *)
LEMMA StepOnFields ==
    ASSUME HeapInv, [Next]_vars
    PROVE  /\ \A p \in Pooled, i \in Index : slot'[<<p, i>>] = slot[<<p, i>>]
           /\ \/ \A p \in Heap, i \in Index : slot'[<<p, i>>] \in {slot[<<p, i>>], Unit}
              \/ \E o \in Heap :
                    /\ \A p \in Heap, i \in Index : slot'[<<p, i>>] # o
                    /\ \A p \in Heap \ {o}, i \in Index : slot'[<<p, i>>] = slot[<<p, i>>]
<1> DEFINE Clears == /\ \A p \in Pooled, i \in Index : slot'[<<p, i>>] = slot[<<p, i>>]
                     /\ \A p \in Heap, i \in Index : slot'[<<p, i>>] \in {slot[<<p, i>>], Unit}
<1>1. /\ slot \in [Slot -> Value]
      /\ \A p \in Obj, i \in Index : <<p, i>> \in Slot /\ <<p, i>> \notin Root
      /\ Root \subseteq Slot /\ Heap \subseteq Obj /\ Pooled \subseteq Obj
  BY DisjointAssumption DEF HeapInv, TypeOK, Slot, FieldSlot, Obj
<1>2. ASSUME NEW y \in Root, NEW v, slot' = [slot EXCEPT ![y] = v] PROVE Clears
  BY <1>1, <1>2
<1>3. ASSUME NEW s \in Root \cup (Heap \X Index), slot' = [slot EXCEPT ![s] = Unit] PROVE Clears
  BY <1>1, <1>3, DisjointAssumption
<1>4. ASSUME NEW y \in Root, NEW o \in Heap, NEW args \in [Index -> Root \cup {Unit}],
             MakeCtor(y, o, args)
      PROVE  /\ \A p \in Pooled, i \in Index : slot'[<<p, i>>] = slot[<<p, i>>]
             /\ \A p \in Heap, i \in Index : slot'[<<p, i>>] # o
             /\ \A p \in Heap \ {o}, i \in Index : slot'[<<p, i>>] = slot[<<p, i>>]
  <2> DEFINE consumed == {args[i] : i \in Index} \ {Unit}
  <2>1. /\ consumed \subseteq Root
        /\ \A i \in Index : slot'[<<o, i>>] = IF args[i] = Unit THEN Unit ELSE slot[args[i]]
        /\ \A s \in Slot : s # y /\ s \notin consumed /\ s \notin {o} \X Index
              => slot'[s] = slot[s]
        /\ \A s \in Slot : slot[s] # o
    BY <1>4, MakeCtorSlots
  <2>2. \A i \in Index : slot'[<<o, i>>] # o
    BY <1>1, <2>1, DisjointAssumption
  <2> HIDE DEF consumed
  <2>3. \A p \in Obj \ {o}, i \in Index : slot'[<<p, i>>] = slot[<<p, i>>]
    BY <1>1, <2>1
  <2> QED
    BY <1>1, <2>1, <2>2, <2>3, DisjointAssumption
<1>5. ASSUME NEW x \in Root, NEW y \in Root, NEW i \in Index, TakeField(x, i, y) PROVE Clears
  <2>1. CASE SoleOwner(x)
    <3>1. slot[x] \in Heap
      BY <1>1, <1>5, <2>1 DEF TakeField, SoleOwner, Value, Obj
    <3>2. slot' = [slot EXCEPT ![y] = slot[<<slot[x], i>>], ![<<slot[x], i>>] = Unit]
      BY <1>5, <2>1 DEF TakeField
    <3>3. <<slot[x], i>> \in Slot /\ \A p \in Pooled, j \in Index : <<p, j>> # <<slot[x], i>>
      BY <1>1, <3>1, DisjointAssumption
    <3> QED
      BY <1>1, <3>2, <3>3
  <2>2. CASE ~SoleOwner(x)
    BY <1>2, <1>5, <2>2 DEF TakeField
  <2> QED
    BY <2>1, <2>2
<1>6. ASSUME DropChild PROVE Clears
  <2>1. <<dying, nextChild>> \in Heap \X Index
    BY <1>6 DEF DropChild, HeapInv, TypeOK
  <2> QED
    BY <1>3, <1>6, <2>1 DEF DropChild, DropReference
<1>7. ASSUME UNCHANGED slot PROVE Clears
  BY <1>7
<1> HIDE DEF Clears
<1>8. ASSUME \E y \in Root, o \in Heap : MakeStr(y, o) PROVE Clears
  BY <1>2, <1>8 DEF MakeStr
<1>9. ASSUME \E y \in Root, p \in Pooled : LoadPooled(y, p) PROVE Clears
  BY <1>2, <1>9 DEF LoadPooled
<1>10. ASSUME \E x, y \in Root : Retain(x, y) PROVE Clears
  BY <1>2, <1>10 DEF Retain
<1>11. ASSUME \E x \in Root : Release(x) \/ ReleaseArg(x) PROVE Clears
  BY <1>3, <1>11 DEF Release, ReleaseArg, DropReference
<1>12. ASSUME \E x, y \in Root, i \in Index : FieldCopy(x, i, y) PROVE Clears
  BY <1>2, <1>12 DEF FieldCopy
<1>13. ASSUME \E a, b, y \in Root, o \in Heap : StrConcat(a, b, y, o) PROVE Clears
  BY <1>2, <1>13 DEF StrConcat
<1>14. ASSUME \/ (\E a \in Root : PrintOrLen(a)) \/ (\E o \in Heap : DestroyStr(o) \/ DestroyCtor(o)) \/ FreeCtor
               \/ UNCHANGED vars
       PROVE  Clears
  BY <1>7, <1>14 DEF PrintOrLen, DestroyStr, DestroyCtor, FreeCtor, heapVars, vars
<1>15. Clears \/ \E y \in Root, o \in Heap, args \in [Index -> Root \cup {Unit}] : MakeCtor(y, o, args)
  BY <1>5, <1>6, <1>7, <1>8, <1>9, <1>10, <1>11, <1>12, <1>13, <1>14 DEF Next, Finish, Destroy
<1> QED
  BY <1>4, <1>15 DEF Clears

(* A count that reaches zero puts its cell on the worklist, and the cell    *)
(* stays there or under destruction until it is freed.                      *)
LEMMA ZeroIsDroppedKept == ReachInv /\ [Next]_vars => ZeroIsDropped'
<1> SUFFICES ASSUME ReachInv, [Next]_vars PROVE ZeroIsDropped'
  OBVIOUS
<1>1. /\ refcount \in [Obj -> 0 .. MaxCount] /\ kind \in [Obj -> {"free", "str", "ctor"}]
      /\ Heap \subseteq Obj /\ Unit \notin Obj /\ slot \in [Slot -> Value]
      /\ dying \in Heap \cup {Unit} /\ nextChild \in 1 .. MaxArgc + 1
      /\ MaxCount \in Nat
  BY DisjointAssumption, BoundAssumption DEF ReachInv, HeapInv, TypeOK, Obj
<1>2. \A o \in Heap : kind[o] # "free" /\ refcount[o] = 0 => o \in dropStack \cup {dying}
  BY DEF ReachInv, ZeroIsDropped
<1>3. \A v \in Value : Counted(v) => v \in Obj /\ refcount[v] # 0
  BY DEF Counted, Pinned, Value
<1>4. ASSUME NEW o \in Heap, NEW k, Allocate(o, k), UNCHANGED destroyVars PROVE ZeroIsDropped'
  BY <1>1, <1>2, <1>4 DEF Allocate, ZeroIsDropped, destroyVars
<1>5. ASSUME NEW v \in Value, refcount' = AfterRetain(v), UNCHANGED <<kind, destroyVars>>
      PROVE  ZeroIsDropped'
  BY <1>1, <1>2, <1>3, <1>5 DEF AfterRetain, ZeroIsDropped, destroyVars
<1>6. ASSUME NEW s \in Slot, DropReference(s), UNCHANGED <<kind, dying>> PROVE ZeroIsDropped'
  <2>1. slot[s] \in Value
    BY <1>1
  <2>2. SUFFICES ASSUME NEW o \in Heap, kind[o] # "free", refcount'[o] = 0
                 PROVE  o \in dropStack' \cup {dying}
    BY <1>6 DEF ZeroIsDropped
  <2>3. dropStack \subseteq dropStack'
    BY <1>6 DEF DropReference
  <2>4. CASE refcount[o] = 0
    BY <1>2, <2>2, <2>3, <2>4
  <2>5. CASE refcount[o] # 0
    <3>1. Counted(slot[s]) /\ o = slot[s] /\ refcount[o] = 1
      BY <1>1, <1>3, <1>6, <2>1, <2>2, <2>5 DEF DropReference, AfterDec
    <3> QED
      BY <1>6, <3>1 DEF DropReference, DecIsLast
  <2> QED
    BY <2>4, <2>5
<1>7. \A x \in Root : x \in Slot /\ slot[x] \in Value
  BY <1>1 DEF Slot
<1>8. \A v \in Value, i \in Index : v # Unit => slot[<<v, i>>] \in Value
  BY <1>1 DEF Slot, FieldSlot, Value
<1>9. ASSUME NEW x \in Root, NEW y \in Root, NEW i \in Index, TakeField(x, i, y)
      PROVE  ZeroIsDropped'
  <2>1. CASE SoleOwner(x)
    BY <1>2, <1>9, <2>1 DEF TakeField, ZeroIsDropped, destroyVars
  <2>2. CASE ~SoleOwner(x)
    BY <1>5, <1>7, <1>8, <1>9, <2>2 DEF TakeField
  <2> QED
    BY <2>1, <2>2
<1>10. ASSUME DropChild PROVE ZeroIsDropped'
  <2>1. <<dying, nextChild>> \in Slot
    BY <1>1, <1>10 DEF DropChild, Slot, FieldSlot
  <2> QED
    BY <1>6, <1>10, <2>1 DEF DropChild
<1>11. ASSUME NEW o \in Heap, DestroyStr(o) \/ DestroyCtor(o) PROVE ZeroIsDropped'
  BY <1>1, <1>2, <1>11 DEF DestroyStr, DestroyCtor, heapVars, ZeroIsDropped
<1>12. ASSUME FreeCtor PROVE ZeroIsDropped'
  BY <1>1, <1>2, <1>12 DEF FreeCtor, ZeroIsDropped
<1>13. ASSUME NEW x \in Root, Release(x) \/ ReleaseArg(x) PROVE ZeroIsDropped'
  BY <1>6, <1>7, <1>13 DEF Release, ReleaseArg
<1>14. ASSUME NEW y \in Root, NEW o \in Heap,
              \/ \E args \in [Index -> Root \cup {Unit}] : MakeCtor(y, o, args)
              \/ MakeStr(y, o)
              \/ \E a, b \in Root : StrConcat(a, b, y, o)
       PROVE  ZeroIsDropped'
  BY <1>4, <1>14 DEF MakeCtor, MakeStr, StrConcat
<1>15. ASSUME NEW x \in Root, NEW y \in Root,
              \/ Retain(x, y)
              \/ \E i \in Index : FieldCopy(x, i, y)
       PROVE  ZeroIsDropped'
  BY <1>5, <1>7, <1>8, <1>15 DEF Retain, FieldCopy
<1>16. ASSUME \/ \E y \in Root, p \in Pooled : LoadPooled(y, p)
              \/ \E a \in Root : PrintOrLen(a)
              \/ UNCHANGED vars
       PROVE  ZeroIsDropped'
  BY <1>2, <1>16 DEF LoadPooled, PrintOrLen, vars, heapVars, destroyVars, ZeroIsDropped
<1> QED
  BY <1>9, <1>10, <1>11, <1>12, <1>13, <1>14, <1>15, <1>16 DEF Next, Finish, Destroy

LEMMA NextReachInv == ReachInv /\ [Next]_vars => ReachInv'
<1> SUFFICES ASSUME ReachInv, [Next]_vars PROVE ReachInv'
  OBVIOUS
<1>1. HeapInv'
  BY NextHeapInv DEF ReachInv
<1>2. ZeroIsDropped'
  BY ZeroIsDroppedKept
<1>3. PooledFixed'
  BY StepOnFields DEF ReachInv, PooledFixed
<1>4. Acyclic'
  BY StepOnFields, AcyclicKept, AcyclicBuilt DEF ReachInv
<1> QED
  BY <1>1, <1>2, <1>3, <1>4 DEF ReachInv

(* The heap is typed in every reachable state, whatever is built and        *)
(* destroyed in it.                                                         *)
THEOREM HeapTypes == Spec => []TypeOK
<1>1. HeapInv => TypeOK
  BY DEF HeapInv
<1> QED
  BY <1>1, CountsAreExact, PTL

(* The count in the header of a cell is the number of slots that own it.    *)
THEOREM CountsCountOwners == Spec => []CountIsOwners
<1>1. HeapInv => CountIsOwners
  BY DEF HeapInv
<1> QED
  BY <1>1, CountsAreExact, PTL

(* When the generated code has control again, every cell it cannot reach    *)
(* has been freed, except what a saturated count keeps.                     *)
THEOREM NothingLeaks == Spec => []NoLeak
BY InitReachInv, NextReachInv, ReachInvNoLeak, PTL DEF Spec

-----------------------------------------------------------------------------
(* Nobody sees a value change.                                              *)

(* What no field holds and is not the start is not reachable.               *)
LEMMA UnheldUnreachable ==
    ASSUME slot \in [Slot -> Value], NEW v \in Value, NEW p \in Obj, v # p,
           \A f \in FieldSlot : slot[f] # p
    PROVE  p \notin Reachable({v})
<1> DEFINE C == Obj \ {p}
<1>1. Closed(C)
  <2>1. SUFFICES ASSUME NEW w \in FieldsOf(C), w # Unit PROVE w \in C
    BY DEF Closed
  <2>2. PICK o \in C \ {Unit}, i \in Index : w = slot[<<o, i>>]
    BY <2>1, FieldsOfMembers
  <2>3. <<o, i>> \in FieldSlot /\ <<o, i>> \in Slot
    BY DEF FieldSlot, Slot
  <2> QED
    BY <2>1, <2>2, <2>3 DEF Value
<1>2. {v} \subseteq Value /\ {v} \ {Unit} \subseteq C
  BY DEF Value
<1> HIDE DEF C
<1>3. Reachable({v}) \subseteq C
  BY <1>1, <1>2, ReachableLeast
<1> QED
  BY <1>3 DEF C

(* The owner of a cell whose count is one is the only one it has.           *)
LEMMA SoleOwnerOwns ==
    ASSUME HeapInv, NEW x \in Root, slot[x] # Unit, SoleOwner(x)
    PROVE  slot[x] \in Heap /\ Owners(slot[x]) = {x}
<1>1. x \in Slot /\ slot[x] \in Value
  BY DEF HeapInv, TypeOK, Slot
<1>2. slot[x] \in Heap /\ refcount[slot[x]] = 1 /\ kind[slot[x]] # "free"
  BY <1>1 DEF SoleOwner, Value, Obj, HeapInv, RefsAllocated
<1>3. Cardinality(Holders(slot, slot[x])) = 1
  BY <1>2, BoundAssumption, OwnersAreHolders DEF HeapInv, CountIsOwners
<1>4. x \in Holders(slot, slot[x])
  BY <1>1 DEF Holders
<1> QED
  BY <1>2, <1>3, <1>4, HoldersFinite, FS_Singleton, OwnersAreHolders

(* A step changes at most one cell, which no slot refers to, or only a root *)
(* that the step leaves for release.                                        *)
OnlyUnseen(p) ==
    /\ \A f \in FieldSlot : slot[f] # p
    /\ \A r \in Root : slot[r] = p => r \in moved' \/ slot'[r] # p
    /\ \A o \in Obj \ {p} : /\ kind'[o] = kind[o]
                            /\ \A i \in Index : slot'[<<o, i>>] = slot[<<o, i>>]

LEMMA UnseenIsStable ==
    ASSUME HeapInv, NEW p \in Obj, OnlyUnseen(p),
           NEW r \in Root, r \notin moved', slot[r] # Unit, slot'[r] = slot[r],
           NEW o \in Reachable({slot[r]})
    PROVE  kind'[o] = kind[o] /\ \A i \in Index : slot'[<<o, i>>] = slot[<<o, i>>]
<1>1. slot \in [Slot -> Value] /\ slot[r] \in Value /\ {slot[r]} \subseteq Value
  BY DEF HeapInv, TypeOK, Slot
<1>2. slot[r] # p
  BY DEF OnlyUnseen
<1>3. o # p
  BY <1>1, <1>2, UnheldUnreachable DEF OnlyUnseen
<1>4. o \in Obj
  BY <1>1, ReachableClosed
<1> QED
  BY <1>3, <1>4 DEF OnlyUnseen

LEMMA NextStable ==
    HeapInv /\ Next =>
       \A r \in Root :
         (r \notin moved' /\ slot[r] # Unit /\ slot'[r] = slot[r]) =>
            \A o \in Reachable({slot[r]}) :
               kind'[o] = kind[o] /\ \A i \in Index : slot'[<<o, i>>] = slot[<<o, i>>]
<1> SUFFICES ASSUME HeapInv, Next,
                    NEW r \in Root, r \notin moved', slot[r] # Unit, slot'[r] = slot[r],
                    NEW o \in Reachable({slot[r]})
             PROVE  kind'[o] = kind[o] /\ \A i \in Index : slot'[<<o, i>>] = slot[<<o, i>>]
  OBVIOUS
<1> DEFINE Same == kind'[o] = kind[o] /\ \A i \in Index : slot'[<<o, i>>] = slot[<<o, i>>]
<1>1. /\ slot \in [Slot -> Value] /\ kind \in [Obj -> {"free", "str", "ctor"}]
      /\ \A p \in Obj, i \in Index : /\ <<p, i>> \in Slot /\ <<p, i>> \in FieldSlot
                                     /\ <<p, i>> \notin Root
      /\ \A f \in FieldSlot : f \in Slot /\ f \notin Root
      /\ Root \subseteq Slot /\ Heap \subseteq Obj /\ Unit \notin Obj
      /\ dying \in Heap \cup {Unit}
      /\ nextChild \in 1 .. MaxArgc + 1
  BY DisjointAssumption DEF HeapInv, TypeOK, Slot, FieldSlot, Obj
<1>2. o \in Obj
  <2>1. {slot[r]} \subseteq Value
    BY <1>1
  <2> QED
    BY <1>1, <2>1, ReachableClosed
<1>3. ASSUME NEW p \in Obj, OnlyUnseen(p) PROVE Same
  BY <1>3, UnseenIsStable
<1>4. ASSUME NEW y \in Root, NEW v, slot' = [slot EXCEPT ![y] = v], UNCHANGED kind PROVE Same
  BY <1>1, <1>2, <1>4
<1>5. ASSUME NEW p \in Heap, Owners(p) = {},
             \A q \in Obj \ {p} : /\ kind'[q] = kind[q]
                                 /\ \A i \in Index : slot'[<<q, i>>] = slot[<<q, i>>]
      PROVE  Same
  <2>1. \A s \in Slot : slot[s] # p
    BY <1>5 DEF Owners
  <2>2. OnlyUnseen(p)
    BY <1>1, <1>5, <2>1 DEF OnlyUnseen
  <2> QED
    BY <1>1, <1>3, <2>2
<1>6. ASSUME NEW p \in Heap, kind[p] = "free" PROVE Owners(p) = {}
  BY <1>1, <1>6 DEF HeapInv, RefsAllocated, Owners
<1>7. ASSUME NEW y \in Root, NEW p \in Heap, NEW args \in [Index -> Root \cup {Unit}],
             MakeCtor(y, p, args)
      PROVE  Same
  <2> DEFINE consumed == {args[i] : i \in Index} \ {Unit}
  <2>1. /\ consumed \subseteq Root
        /\ \A s \in Slot : s # y /\ s \notin consumed /\ s \notin {p} \X Index
              => slot'[s] = slot[s]
    BY <1>7, MakeCtorSlots
  <2> HIDE DEF consumed
  <2>2. \A q \in Obj \ {p}, i \in Index : slot'[<<q, i>>] = slot[<<q, i>>]
    BY <1>1, <2>1
  <2>3. kind[p] = "free" /\ kind' = [kind EXCEPT ![p] = "ctor"]
    BY <1>7 DEF MakeCtor, Allocate
  <2> QED
    BY <1>1, <1>5, <1>6, <2>2, <2>3
<1>8. ASSUME NEW y \in Root, NEW p \in Heap, MakeStr(y, p) \/ \E a, b \in Root : StrConcat(a, b, y, p)
      PROVE  Same
  <2>1. /\ kind[p] = "free" /\ kind' = [kind EXCEPT ![p] = "str"]
        /\ slot' = [slot EXCEPT ![y] = p]
    BY <1>8 DEF MakeStr, StrConcat, Allocate
  <2>2. \A q \in Obj \ {p} : /\ kind'[q] = kind[q]
                            /\ \A i \in Index : slot'[<<q, i>>] = slot[<<q, i>>]
    BY <1>1, <2>1
  <2> QED
    BY <1>5, <1>6, <2>1, <2>2
<1>9. ASSUME NEW x \in Root, NEW y \in Root, NEW i \in Index, TakeField(x, i, y) PROVE Same
  <2>1. CASE SoleOwner(x)
    <3>1. slot[x] \in Heap /\ Owners(slot[x]) = {x}
      BY <1>9, <2>1, SoleOwnerOwns DEF TakeField
    <3>2. slot' = [slot EXCEPT ![y] = slot[<<slot[x], i>>], ![<<slot[x], i>>] = Unit]
          /\ kind' = kind /\ x \in moved'
      BY <1>9, <2>1 DEF TakeField
    <3>3. \A s \in Slot : slot[s] = slot[x] => s = x
      BY <3>1 DEF Owners
    <3>4. \A q \in Obj \ {slot[x]}, j \in Index : slot'[<<q, j>>] = slot[<<q, j>>]
      BY <1>1, <3>2
    <3>5. OnlyUnseen(slot[x])
      BY <1>1, <3>2, <3>3, <3>4 DEF OnlyUnseen
    <3> QED
      BY <1>1, <1>3, <3>1, <3>5
  <2>2. CASE ~SoleOwner(x)
    BY <1>4, <1>9, <2>2 DEF TakeField
  <2> QED
    BY <2>1, <2>2
<1>10. ASSUME NEW p \in Heap, DestroyStr(p) PROVE Same
  <2>1. kind[p] # "free" /\ Owners(p) = {}
    BY <1>10, DeadIsUnreferenced DEF DestroyStr, HeapInv, DroppedAreDead
  <2> QED
    BY <1>1, <1>5, <1>10, <2>1 DEF DestroyStr
<1>11. ASSUME DropChild \/ FreeCtor PROVE Same
  <2>1. dying \in Heap /\ kind[dying] # "free" /\ refcount[dying] = 0
    BY <1>1, <1>11 DEF DropChild, FreeCtor, HeapInv, DroppedAreDead
  <2>2. Owners(dying) = {}
    BY <2>1, DeadIsUnreferenced
  <2>3. DropChild => /\ slot' = [slot EXCEPT ![<<dying, nextChild>>] = Unit] /\ kind' = kind
                     /\ nextChild \in Index
    BY DEF DropChild, DropReference
  <2>4. FreeCtor => slot' = slot /\ kind' = [kind EXCEPT ![dying] = "free"]
    BY DEF FreeCtor
  <2>5. \A q \in Obj \ {dying} : /\ kind'[q] = kind[q]
                                /\ \A i \in Index : slot'[<<q, i>>] = slot[<<q, i>>]
    BY <1>1, <1>11, <2>1, <2>3, <2>4
  <2> QED
    BY <1>5, <2>1, <2>2, <2>5
<1>12. ASSUME NEW x \in Root, NEW y \in Root,
              Retain(x, y) \/ \E i \in Index : FieldCopy(x, i, y)
       PROVE  Same
  BY <1>4, <1>12 DEF Retain, FieldCopy
<1>13. ASSUME NEW x \in Root, Release(x) \/ ReleaseArg(x) \/ \E p \in Pooled : LoadPooled(x, p)
       PROVE  Same
  BY <1>4, <1>13 DEF Release, ReleaseArg, DropReference, LoadPooled
<1>14. ASSUME (\E a \in Root : PrintOrLen(a)) \/ (\E p \in Heap : DestroyCtor(p)) PROVE Same
  BY <1>14 DEF PrintOrLen, DestroyCtor, heapVars
<1> HIDE DEF Same
<1>15. Same
  BY <1>7, <1>8, <1>9, <1>10, <1>11, <1>12, <1>13, <1>14 DEF Next, Finish, Destroy
<1> QED
  BY <1>15 DEF Same

(* What one holder sees of a value is not changed by what others do with    *)
(* it: taking a field out of it, or releasing it.                           *)
THEOREM ValuesAreStable == Spec => ValuesStable
BY NextStable, CountsAreExact, PTL DEF Spec, ValuesStable
=============================================================================
