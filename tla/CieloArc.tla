------------------------------ MODULE CieloArc ------------------------------
(***************************************************************************)
(* The reference-counted heap of the C runtime (cielo_runtime.h).          *)
(*                                                                         *)
(* Every owned reference sits in a slot: a root (a C local, a temporary or *)
(* a sink argument of the generated code) or a field of a constructor or   *)
(* capture of a closure.  Counts have a width: MaxCount stands for         *)
(* UINT32_MAX, at which an object is pinned for ever.  Destruction is the  *)
(* explicit worklist of cielo_arc_destroy_and_dispose, one loop iteration  *)
(* per step; the generated code waits while it runs.                       *)
(*                                                                         *)
(* Constructors and closures are laid out and destroyed alike, so one kind *)
(* of cell stands for both: its fields are the constructor's fields or the *)
(* closure's captures.  What a cell's payload is (variant tag, bytes, body *)
(* pointer) no property here depends on.                                   *)
(***************************************************************************)
EXTENDS Naturals, FiniteSets

CONSTANTS
    Root,         \* owned references held by generated code
    Heap,         \* cells obtained from malloc
    Pooled,       \* immortal cells: pooled literals and constructors
    PooledStr,    \* those that are strings
    PooledField,  \* the static fields of the pooled cells
    MaxArgc,      \* the largest number of fields of a cell
    MaxCount,     \* UINT32_MAX
    MaxAllocs,    \* bound on the allocations of a behaviour
    Unit          \* every value that owns nothing

Obj == Heap \cup Pooled
Value == Obj \cup {Unit}
Index == 1 .. MaxArgc
FieldSlot == Obj \X Index
Slot == Root \cup FieldSlot

ASSUME FiniteAssumption == IsFiniteSet(Root) /\ IsFiniteSet(Heap) /\ IsFiniteSet(Pooled)
ASSUME BoundAssumption == MaxArgc \in Nat /\ MaxCount \in Nat /\ MaxCount > 1 /\ MaxAllocs \in Nat
ASSUME DisjointAssumption ==
    /\ Heap \cap Pooled = {}
    /\ Unit \notin Obj
    /\ Root \cap FieldSlot = {}
(* A pooled constructor is built at compile time from pooled constants. *)
ASSUME PooledAssumption ==
    /\ PooledField \in [Pooled \X Index -> Pooled \cup {Unit}]
    /\ PooledStr \subseteq Pooled
    /\ \A p \in PooledStr, i \in Index : PooledField[<<p, i>>] = Unit

VARIABLES
    slot,        \* [Slot -> Value], the object each slot owns a reference to
    refcount,    \* CieloArcHeader.refcount
    kind,        \* "free" (not allocated), "str", or "ctor" (also closures)
    dropStack,   \* CieloDropStack: objects whose count reached zero
    dying,       \* the object the loop is taking apart, or Unit
    nextChild,   \* the loop's index into dying's fields
    sinkArgs,    \* roots a builtin still has to release
    moved,       \* roots that are dead after a take: to be released next
    stats        \* CieloArcStats: allocations, frees, last releases

heapVars == <<slot, refcount, kind>>
destroyVars == <<dropStack, dying, nextChild>>
vars == <<slot, refcount, kind, dropStack, dying, nextChild, sinkArgs, moved, stats>>

Owners(o) == {s \in Slot : slot[s] = o}
Idle == dropStack = {} /\ dying = Unit /\ sinkArgs = {}
Usable(x) == x \in Root \ moved

-----------------------------------------------------------------------------
(* The count.                                                              *)

(* Definitions named Faulty... are not part of the specification: each is  *)
(* the definition after it with one plausible mistake, and shows that a    *)
(* property fails when the code makes that mistake.  Here: no saturation.  *)
FaultyPinned(o) == o \in Pooled \/ refcount[o] = 0

Pinned(o) == o \in Pooled \/ refcount[o] = 0 \/ refcount[o] = MaxCount

Counted(v) == v # Unit /\ ~Pinned(v)

AfterRetain(v) == IF Counted(v) THEN [refcount EXCEPT ![v] = @ + 1] ELSE refcount

AfterDec(v) == IF Counted(v) THEN [refcount EXCEPT ![v] = @ - 1] ELSE refcount

(* Faulty: disposes on any decrement. *)
FaultyDecIsLast(v) == Counted(v)

DecIsLast(v) == Counted(v) /\ refcount[v] = 1

(* A reference leaves slot s: what cielo_arc_release and the worklist's    *)
(* loop do with the value they find there.                                 *)
DropReference(s) ==
    /\ slot' = [slot EXCEPT ![s] = Unit]
    /\ refcount' = AfterDec(slot[s])
    /\ IF DecIsLast(slot[s])
         THEN /\ dropStack' = dropStack \cup {slot[s]}
              /\ stats' = [stats EXCEPT !.releaseLast = @ + 1]
         ELSE UNCHANGED <<dropStack, stats>>

-----------------------------------------------------------------------------
(* Operations the generated code performs.                                 *)

Allocate(o, k) ==
    /\ kind[o] = "free"
    /\ stats.allocations < MaxAllocs
    /\ kind' = [kind EXCEPT ![o] = k]
    /\ refcount' = [refcount EXCEPT ![o] = 1]
    /\ stats' = [stats EXCEPT !.allocations = @ + 1]

(* The fields are sink arguments: the roots named by args are consumed.    *)
MakeCtor(y, o, args) ==
    LET consumed == {args[i] : i \in Index} \ {Unit}
    IN  /\ Idle
        /\ \A i, j \in Index : args[i] = args[j] /\ args[i] # Unit => i = j
        /\ consumed \cap moved = {}
        /\ slot[y] = Unit \/ y \in consumed
        /\ Allocate(o, "ctor")
        /\ slot' = [s \in Slot |->
             CASE s = y -> o
               [] s \in consumed \ {y} -> Unit
               [] s \in {o} \X Index -> IF args[s[2]] = Unit THEN Unit ELSE slot[args[s[2]]]
               [] OTHER -> slot[s]]
        /\ UNCHANGED <<destroyVars, sinkArgs, moved>>

MakeStr(y, o) ==
    /\ Idle
    /\ slot[y] = Unit
    /\ Allocate(o, "str")
    /\ slot' = [slot EXCEPT ![y] = o]
    /\ UNCHANGED <<destroyVars, sinkArgs, moved>>

(* A pooled literal: the generated code takes the address of static data.  *)
LoadPooled(y, p) ==
    /\ Idle
    /\ slot[y] = Unit
    /\ slot' = [slot EXCEPT ![y] = p]
    /\ UNCHANGED <<refcount, kind, destroyVars, sinkArgs, moved, stats>>

Retain(x, y) ==
    /\ Idle
    /\ Usable(x) /\ slot[x] # Unit
    /\ slot[y] = Unit
    /\ slot' = [slot EXCEPT ![y] = slot[x]]
    /\ refcount' = AfterRetain(slot[x])
    /\ UNCHANGED <<kind, destroyVars, sinkArgs, moved, stats>>

Release(x) ==
    /\ Idle
    /\ slot[x] # Unit
    /\ DropReference(x)
    /\ moved' = moved \ {x}
    /\ UNCHANGED <<kind, dying, nextChild, sinkArgs>>

(* Faulty: the copy is not retained. *)
FaultyFieldCopy(x, i, y) ==
    /\ Idle
    /\ Usable(x) /\ slot[x] # Unit /\ kind[slot[x]] = "ctor"
    /\ slot[y] = Unit
    /\ slot' = [slot EXCEPT ![y] = slot[<<slot[x], i>>]]
    /\ UNCHANGED <<refcount, kind, destroyVars, sinkArgs, moved, stats>>

(* A closure's adapter copies its captures out the same way.               *)
FieldCopy(x, i, y) ==
    /\ Idle
    /\ Usable(x) /\ slot[x] # Unit /\ kind[slot[x]] = "ctor"
    /\ slot[y] = Unit
    /\ slot' = [slot EXCEPT ![y] = slot[<<slot[x], i>>]]
    /\ refcount' = AfterRetain(slot[<<slot[x], i>>])
    /\ UNCHANGED <<kind, destroyVars, sinkArgs, moved, stats>>

(* Faulty: any parent from malloc is taken apart, a shared one too. *)
FaultySoleOwner(x) == slot[x] \notin Pooled

SoleOwner(x) == slot[x] \notin Pooled /\ refcount[slot[x]] = 1

(* Faulty: the moved field stays in its parent too. *)
FaultyTakeField(x, i, y) ==
    /\ Idle
    /\ slot[x] # Unit /\ kind[slot[x]] = "ctor"
    /\ x # y /\ slot[y] = Unit
    /\ slot' = [slot EXCEPT ![y] = slot[<<slot[x], i>>]]
    /\ refcount' = IF SoleOwner(x) THEN refcount ELSE AfterRetain(slot[<<slot[x], i>>])
    /\ moved' = moved \cup {x}
    /\ UNCHANGED <<kind, destroyVars, sinkArgs, stats>>

(* The parent is dead after this read, but perhaps shared: the runtime     *)
(* tests its count, moves the field out of an unshared parent and copies   *)
(* it out of a shared one.  x stays a root until its release.              *)
TakeField(x, i, y) ==
    /\ Idle
    /\ slot[x] # Unit /\ kind[slot[x]] = "ctor"
    /\ x # y /\ slot[y] = Unit
    /\ IF SoleOwner(x)
         THEN /\ slot' = [slot EXCEPT ![y] = slot[<<slot[x], i>>],
                                      ![<<slot[x], i>>] = Unit]
              /\ UNCHANGED refcount
         ELSE /\ slot' = [slot EXCEPT ![y] = slot[<<slot[x], i>>]]
              /\ refcount' = AfterRetain(slot[<<slot[x], i>>])
    /\ moved' = moved \cup {x}
    /\ UNCHANGED <<kind, destroyVars, sinkArgs, stats>>

(* str_concat builds its result, then releases both of its arguments.      *)
StrConcat(a, b, y, o) ==
    /\ Idle
    /\ a # b /\ y \notin {a, b}
    /\ \A x \in {a, b} : Usable(x) /\ slot[x] # Unit /\ kind[slot[x]] = "str"
    /\ slot[y] = Unit
    /\ Allocate(o, "str")
    /\ slot' = [slot EXCEPT ![y] = o]
    /\ sinkArgs' = {a, b}
    /\ UNCHANGED <<destroyVars, moved>>

(* print and str_len read their argument and release it.                   *)
PrintOrLen(a) ==
    /\ Idle
    /\ Usable(a) /\ slot[a] # Unit
    /\ sinkArgs' = {a}
    /\ UNCHANGED <<heapVars, destroyVars, moved, stats>>

(* The arguments go in array order; here in any order.                     *)
ReleaseArg(a) ==
    /\ dropStack = {} /\ dying = Unit
    /\ a \in sinkArgs
    /\ DropReference(a)
    /\ sinkArgs' = sinkArgs \ {a}
    /\ UNCHANGED <<kind, dying, nextChild, moved>>

-----------------------------------------------------------------------------
(* cielo_arc_destroy_and_dispose.  The worklist is last in, first out; the *)
(* model takes any of its members.                                         *)

DestroyStr(o) ==
    /\ dying = Unit
    /\ o \in dropStack /\ kind[o] = "str"
    /\ dropStack' = dropStack \ {o}
    /\ kind' = [kind EXCEPT ![o] = "free"]
    /\ stats' = [stats EXCEPT !.frees = @ + 1]
    /\ UNCHANGED <<slot, refcount, dying, nextChild, sinkArgs, moved>>

DestroyCtor(o) ==
    /\ dying = Unit
    /\ o \in dropStack /\ kind[o] = "ctor"
    /\ dropStack' = dropStack \ {o}
    /\ dying' = o
    /\ nextChild' = 1
    /\ UNCHANGED <<heapVars, sinkArgs, moved, stats>>

(* Faulty: the last child is skipped. *)
FaultyDropChild ==
    /\ dying # Unit
    /\ nextChild \in Index
    /\ IF nextChild < MaxArgc
         THEN DropReference(<<dying, nextChild>>)
         ELSE /\ slot' = [slot EXCEPT ![<<dying, nextChild>>] = Unit]
              /\ UNCHANGED <<refcount, dropStack, stats>>
    /\ nextChild' = nextChild + 1
    /\ UNCHANGED <<kind, dying, sinkArgs, moved>>

(* Faulty: the loop does not advance. *)
StuckDropChild ==
    /\ dying # Unit
    /\ nextChild \in Index
    /\ DropReference(<<dying, nextChild>>)
    /\ UNCHANGED <<kind, dying, nextChild, sinkArgs, moved>>

DropChild ==
    /\ dying # Unit
    /\ nextChild \in Index
    /\ DropReference(<<dying, nextChild>>)
    /\ nextChild' = nextChild + 1
    /\ UNCHANGED <<kind, dying, sinkArgs, moved>>

(* Faulty: the free is not counted. *)
FaultyFreeCtor ==
    /\ dying # Unit
    /\ nextChild \notin Index
    /\ kind' = [kind EXCEPT ![dying] = "free"]
    /\ dying' = Unit
    /\ nextChild' = 1
    /\ UNCHANGED <<slot, refcount, dropStack, sinkArgs, moved, stats>>

FreeCtor ==
    /\ dying # Unit
    /\ nextChild \notin Index
    /\ kind' = [kind EXCEPT ![dying] = "free"]
    /\ dying' = Unit
    /\ nextChild' = 1
    /\ stats' = [stats EXCEPT !.frees = @ + 1]
    /\ UNCHANGED <<slot, refcount, dropStack, sinkArgs, moved>>

-----------------------------------------------------------------------------
Init ==
    /\ slot = [s \in Slot |-> IF s \in Pooled \X Index THEN PooledField[s] ELSE Unit]
    /\ refcount = [o \in Obj |-> 0]
    /\ kind = [o \in Obj |-> CASE o \in Heap -> "free"
                            [] o \in PooledStr -> "str"
                            [] OTHER -> "ctor"]
    /\ dropStack = {}
    /\ dying = Unit
    /\ nextChild = 1
    /\ sinkArgs = {}
    /\ moved = {}
    /\ stats = [allocations |-> 0, frees |-> 0, releaseLast |-> 0]

Destroy ==
    \/ \E o \in Heap : DestroyStr(o) \/ DestroyCtor(o)
    \/ DropChild
    \/ FreeCtor

Finish == Destroy \/ \E a \in Root : ReleaseArg(a)

Next ==
    \/ \E y \in Root, o \in Heap, args \in [Index -> Root \cup {Unit}] : MakeCtor(y, o, args)
    \/ \E y \in Root, o \in Heap : MakeStr(y, o)
    \/ \E y \in Root, p \in Pooled : LoadPooled(y, p)
    \/ \E x, y \in Root : Retain(x, y)
    \/ \E x \in Root : Release(x)
    \/ \E x, y \in Root, i \in Index : FieldCopy(x, i, y)
    \/ \E x, y \in Root, i \in Index : TakeField(x, i, y)
    \/ \E a, b, y \in Root, o \in Heap : StrConcat(a, b, y, o)
    \/ \E a \in Root : PrintOrLen(a)
    \/ Finish

(* A C function that has started runs to its end; nothing makes the        *)
(* generated code call the next one.                                       *)
Spec == Init /\ [][Next]_vars /\ WF_vars(Finish)

-----------------------------------------------------------------------------
TypeOK ==
    /\ slot \in [Slot -> Value]
    /\ refcount \in [Obj -> 0 .. MaxCount]
    /\ kind \in [Obj -> {"free", "str", "ctor"}]
    /\ dropStack \subseteq Heap
    /\ dying \in Heap \cup {Unit}
    /\ nextChild \in 1 .. MaxArgc + 1
    /\ sinkArgs \subseteq Root
    /\ moved \subseteq Root
    /\ stats \in [allocations : Nat, frees : Nat, releaseLast : Nat]

(* The count of an object that never saturated is the number of slots that *)
(* own a reference to it, at every step of a destruction too: a count that *)
(* drifts frees too early or never.                                        *)
CountIsOwners ==
    \A o \in Heap : kind[o] # "free" /\ refcount[o] # MaxCount
                       => refcount[o] = Cardinality(Owners(o))

(* The parts that make the three facts around this one inductive.          *)
RefsAllocated == \A s \in Slot : slot[s] # Unit => kind[slot[s]] # "free"

EmptyFields == \A o \in Heap : kind[o] # "ctor" => \A i \in Index : slot[<<o, i>>] = Unit

DroppedAreDead ==
    /\ \A o \in dropStack : kind[o] # "free" /\ refcount[o] = 0
    /\ dying # Unit => /\ kind[dying] = "ctor" /\ refcount[dying] = 0
                       /\ dying \notin dropStack
                       /\ \A i \in Index : i < nextChild => slot[<<dying, i>>] = Unit

PooledLive == \A p \in Pooled : kind[p] # "free"

HeapInv == TypeOK /\ CountIsOwners /\ RefsAllocated /\ EmptyFields /\ DroppedAreDead
           /\ PooledLive

(* Nothing refers to memory that was given back, or will be: not a local,  *)
(* not a field of a live cell, not a field of a cell being taken apart.    *)
NoDanglingReference ==
    \A s \in Slot : slot[s] # Unit => /\ kind[slot[s]] # "free"
                                       /\ slot[s] \notin dropStack \cup {dying}

Reachable(from) ==
    LET grow[n \in Nat] ==
          IF n = 0 THEN from
          ELSE LET seen == grow[n - 1]
               IN  seen \cup {slot[<<o, i>>] : o \in seen \ {Unit}, i \in Index}
    IN  grow[Cardinality(Obj)] \ {Unit}

(* When the generated code has control again, every cell it cannot reach   *)
(* has been given back, except what a saturated count pins.  It rests on   *)
(* the heap having no cycles (the comment of cv_equal).                    *)
NoLeak ==
    Idle => {o \in Heap : kind[o] # "free"} \subseteq
              Reachable({slot[r] : r \in Root} \cup {o \in Heap : refcount[o] = MaxCount})

(* One free per allocation, and one last release per free: what the arena  *)
(* tests of the repository compare when a program has ended.               *)
StatsBalance ==
    LET awaiting == dropStack \cup ({dying} \ {Unit})
    IN  /\ stats.allocations = stats.frees + Cardinality({o \in Heap : kind[o] # "free"})
        /\ stats.releaseLast = stats.frees + Cardinality(awaiting)

(* What one holder can see of a value is not changed by what another one   *)
(* does: taking a field out of a shared parent must leave it in place, and *)
(* destroying one reference must not take apart what others still read.    *)
ValuesStable ==
    [][\A r \in Root :
         (r \notin moved' /\ slot[r] # Unit /\ slot'[r] = slot[r]) =>
            \A o \in Reachable({slot[r]}) :
               kind'[o] = kind[o] /\ \A i \in Index : slot'[<<o, i>>] = slot[<<o, i>>]]_vars

(* What is left to do for a release: cells that are still there, and the   *)
(* fields and arguments still to be looked at.                             *)
Standing == {o \in Heap \ {dying} : kind[o] # "free"}
Work ==
    Cardinality(sinkArgs) + (MaxArgc + 3) * Cardinality(Standing)
      + (IF dying = Unit THEN 0 ELSE MaxArgc + 2 - nextChild)

(* A last release ends: each of its steps leaves less to do, however deep  *)
(* the structure that the worklist takes apart, and whatever the objects   *)
(* in it still share with live ones.                                       *)
DestroyAdvances == [][~Idle => Work' < Work]_vars

(* The heap without counts is the one with counts, seen without them.      *)
Ideal == INSTANCE IdealHeap WITH slot <- slot, kind <- kind

(* Counting implements a heap that reclaims only what nobody refers to and *)
(* changes only what a single, dead reference can see.                     *)
RefinesIdealHeap == Ideal!IdealSpec
=============================================================================
