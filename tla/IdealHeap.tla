----------------------------- MODULE IdealHeap -----------------------------
(***************************************************************************)
(* What the generated program relies on when it uses the C runtime's heap: *)
(* references are copied and dropped, a cell is reclaimed only when nobody *)
(* refers to it, and a cell that somebody else can see never changes.      *)
(* There are no counts here: CieloArc.tla, which models the counting in    *)
(* cielo_runtime.h, is shown to implement this specification.              *)
(***************************************************************************)
EXTENDS Naturals

CONSTANTS
    Root,     \* owned references held by generated code: locals, temporaries
    Heap,     \* cells obtained from malloc
    Pooled,   \* immortal cells of the constant pool (static storage)
    MaxArgc,  \* the largest number of fields of a constructor
    Unit      \* every value that owns nothing: unit, int, bool, float, char

Obj == Heap \cup Pooled
Index == 1 .. MaxArgc
FieldSlot == Obj \X Index
Slot == Root \cup FieldSlot

VARIABLES
    slot,     \* what each slot refers to
    kind      \* "free" or what the cell holds

idealVars == <<slot, kind>>

Owners(o) == {s \in Slot : slot[s] = o}

(* A cell is built from references that roots give up; a root receives it. *)
Build(y) ==
    \E o \in Heap, k \in {"str", "ctor"}, given \in SUBSET Root :
        /\ kind[o] = "free"
        /\ kind' = [kind EXCEPT ![o] = k]
        /\ slot[y] = Unit \/ y \in given
        /\ slot'[y] = o
        /\ \A r \in Root \ {y} : slot'[r] = IF r \in given THEN Unit ELSE slot[r]
        /\ \A i \in Index : \/ slot'[<<o, i>>] = Unit
                            \/ \E r \in given : slot'[<<o, i>>] = slot[r]
        /\ \A f \in FieldSlot : f[1] # o => slot'[f] = slot[f]

(* A root gets a second reference to a value that something reaches. *)
Share(y) ==
    /\ slot[y] = Unit
    /\ \/ \E x \in Root : slot' = [slot EXCEPT ![y] = slot[x]]
       \/ \E x \in Root, i \in Index :
            /\ slot[x] # Unit
            /\ slot' = [slot EXCEPT ![y] = slot[<<slot[x], i>>]]
       \/ \E p \in Pooled : slot' = [slot EXCEPT ![y] = p]
    /\ UNCHANGED kind

(* A field leaves its cell, which only x refers to. *)
MoveOut(x, y) ==
    /\ slot[x] # Unit /\ slot[y] = Unit
    /\ Owners(slot[x]) = {x}
    /\ \E i \in Index :
         slot' = [slot EXCEPT ![y] = slot[<<slot[x], i>>],
                              ![<<slot[x], i>>] = Unit]
    /\ UNCHANGED kind

(* A reference is given up: by a root, or by a cell nobody refers to. *)
Forget(s) ==
    /\ s \in FieldSlot => Owners(s[1]) = {}
    /\ slot' = [slot EXCEPT ![s] = Unit]
    /\ UNCHANGED kind

(* A cell nobody refers to, and that refers to nothing, is given back. *)
Reclaim(o) ==
    /\ kind[o] # "free"
    /\ Owners(o) = {}
    /\ \A i \in Index : slot[<<o, i>>] = Unit
    /\ kind' = [kind EXCEPT ![o] = "free"]
    /\ UNCHANGED slot

IdealInit ==
    /\ \A r \in Root : slot[r] = Unit
    /\ \A o \in Heap : kind[o] = "free"
    /\ \A o \in Heap, i \in Index : slot[<<o, i>>] = Unit

IdealNext ==
    \/ \E y \in Root : Build(y) \/ Share(y)
    \/ \E x, y \in Root : MoveOut(x, y)
    \/ \E s \in Slot : Forget(s)
    \/ \E o \in Heap : Reclaim(o)

IdealSpec == IdealInit /\ [][IdealNext]_idealVars
=============================================================================
