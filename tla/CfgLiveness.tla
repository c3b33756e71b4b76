----------------------------- MODULE CfgLiveness -----------------------------
(***************************************************************************)
(* CfgLiveness::analyze (cielo-memory/.../cfg_liveness.rs): the sweep over *)
(* the blocks, last one first, that repeats until nothing changes, and the *)
(* scan that then derives what is live after each use.  A step visits one  *)
(* block.                                                                  *)
(***************************************************************************)
EXTENDS Cfg, FiniteSets

CONSTANT Programs   \* the programs that are analyzed

ASSUME ValueAssumption == \A p \in Programs : Numbered(p)

VARIABLES
    prog,        \* the program
    uses, defs,  \* what each block reads before it defines it, and defines
    phase,       \* "sweep", "scan" or "done"
    cursor,      \* the block the current loop visits next
    changed,     \* whether this sweep has changed a set
    live_in,
    live_out,
    live_after   \* for the blocks scanned so far: what is live after each site

vars == <<prog, uses, defs, phase, cursor, changed, live_in, live_out, live_after>>

n == Len(prog.params)

-----------------------------------------------------------------------------
Init ==
    /\ prog \in Programs
    /\ uses = [b \in Blocks(prog) |-> Exposed(prog, b)]
    /\ defs = [b \in Blocks(prog) |-> BlockDefs(prog, b)]
    /\ phase = "sweep"
    /\ cursor = n
    /\ changed = FALSE
    /\ live_in = [b \in Blocks(prog) |-> {}]
    /\ live_out = [b \in Blocks(prog) |-> {}]
    /\ live_after = <<>>

(* Definitions named Faulty... are not part of the specification: each is  *)
(* the definition after it with one plausible mistake, and shows that a    *)
(* property fails when the code makes that mistake.  Here: a parameter     *)
(* that is redefined is not taken out.                                     *)
FaultyInAfter(b, out) == uses[b] \cup out

(* Faulty: what a block defines is added instead of taken out. *)
UnionInAfter(b, out) == uses[b] \cup out \cup defs[b]

InAfter(b, out) == InOf(uses[b], defs[b], out)

(* Faulty: only a change of live_out starts another sweep. *)
FaultyDiffers(b, out) == out # live_out[b]

Differs(b, out) == out # live_out[b] \/ InAfter(b, out) # live_in[b]

Visit ==
    /\ phase = "sweep" /\ cursor > 0
    /\ LET out == OutOf(prog, live_in, cursor)
       IN  /\ live_out' = [live_out EXCEPT ![cursor] = out]
           /\ live_in' = [live_in EXCEPT ![cursor] = InAfter(cursor, out)]
           /\ changed' = (changed \/ Differs(cursor, out))
    /\ cursor' = cursor - 1
    /\ UNCHANGED <<prog, uses, defs, phase, live_after>>

(* Faulty: the flag is not reset, and the loop never ends. *)
FaultySweepAgain ==
    /\ phase = "sweep" /\ cursor = 0 /\ changed
    /\ cursor' = n
    /\ UNCHANGED <<prog, uses, defs, phase, changed, live_in, live_out, live_after>>

SweepAgain ==
    /\ phase = "sweep" /\ cursor = 0 /\ changed
    /\ cursor' = n
    /\ changed' = FALSE
    /\ UNCHANGED <<prog, uses, defs, phase, live_in, live_out, live_after>>

(* Faulty: one sweep is taken to be enough. *)
FaultySweepEnds ==
    /\ phase = "sweep" /\ cursor = 0
    /\ phase' = "scan"
    /\ cursor' = 1
    /\ UNCHANGED <<prog, uses, defs, changed, live_in, live_out, live_after>>

SweepEnds ==
    /\ phase = "sweep" /\ cursor = 0 /\ ~changed
    /\ phase' = "scan"
    /\ cursor' = 1
    /\ UNCHANGED <<prog, uses, defs, changed, live_in, live_out, live_after>>

(* Faulty: the result of an instruction stays live before it. *)
FaultyScanned(b) ==
    LET after[i \in 0 .. Last(prog, b)] ==
          IF i = Last(prog, b) THEN live_out[b]
          ELSE after[i + 1] \cup Uses(prog, b, i + 1)
    IN  after

Scanned(b) == LiveAfter(prog, live_out[b], b)

Scan ==
    /\ phase = "scan" /\ cursor <= n
    /\ live_after' = Append(live_after, Scanned(cursor))
    /\ cursor' = cursor + 1
    /\ UNCHANGED <<prog, uses, defs, phase, changed, live_in, live_out>>

ScanEnds ==
    /\ phase = "scan" /\ cursor > n
    /\ phase' = "done"
    /\ UNCHANGED <<prog, uses, defs, cursor, changed, live_in, live_out, live_after>>

Next == Visit \/ SweepAgain \/ SweepEnds \/ Scan \/ ScanEnds

Spec == Init /\ [][Next]_vars /\ WF_vars(Next)

-----------------------------------------------------------------------------
TypeOK ==
    /\ uses \in [Blocks(prog) -> SUBSET Value]
    /\ phase \in {"sweep", "scan", "done"}
    /\ cursor \in 0 .. n + 1
    /\ changed \in BOOLEAN
    /\ live_in \in [Blocks(prog) -> SUBSET Value]
    /\ live_out \in [Blocks(prog) -> SUBSET Value]

IsSolution(in) ==
    \A b \in Blocks(prog) : in[b] = InOf(uses[b], defs[b], OutOf(prog, in, b))

(* No set ever holds a value that some solution of the equations leaves    *)
(* out, however often a block is visited and in whatever state its         *)
(* successors are: the sweep never has to take anything back.              *)
NeverTooMuch ==
    \A S \in [Blocks(prog) -> SUBSET Value] :
        IsSolution(S) =>
            \A b \in Blocks(prog) : /\ live_in[b] \subseteq S[b]
                                    /\ live_out[b] \subseteq OutOf(prog, S, b)

(* A block that this sweep has visited and left alone satisfies its        *)
(* equations still, unless a later visit changed something.                *)
SettledAt(b) ==
    /\ live_out[b] = OutOf(prog, live_in, b)
    /\ live_in[b] = InAfter(b, live_out[b])

VisitedSettled ==
    /\ phase = "sweep" /\ ~changed => \A b \in Blocks(prog) : b > cursor => SettledAt(b)
    /\ phase # "sweep" => \A b \in Blocks(prog) : SettledAt(b)

(* When the loop ends, one sweep without a change has been enough: the     *)
(* sets solve the equations, and are the ones CfgArc plans with.           *)
SolvedWhenSwept ==
    phase # "sweep" => /\ IsSolution(live_in)
                       /\ \A b \in Blocks(prog) : live_out[b] = OutOf(prog, live_in, b)

SweptIsLeast == phase # "sweep" => live_in = LeastLiveIn(prog)

(* Liveness along paths, independent of the equations: the places control  *)
(* reaches from just after site i of block b before v is defined again.    *)
(* Place <<b, 0>> is the entry of b, where its parameters are defined.     *)
NextPlaces(pl) ==
    IF pl[2] = Last(prog, pl[1]) THEN {<<s, 0>> : s \in Successors(prog, pl[1])}
    ELSE {<<pl[1], pl[2] + 1>>}

Defines(pl, v) ==
    v \in IF pl[2] = 0 THEN Params(prog, pl[1]) ELSE Defs(prog, pl[1], pl[2])

Places == UNION {{b} \X (0 .. Last(prog, b)) : b \in Blocks(prog)}

ReachedUndefined(from, v) ==
    LET grow[k \in Nat] ==
          IF k = 0 THEN NextPlaces(from)
          ELSE LET seen == grow[k - 1]
               IN  seen \cup UNION {NextPlaces(pl) : pl \in {q \in seen : ~Defines(q, v)}}
    IN  grow[Cardinality(Places)]

NeededAfter(from) ==
    {v \in Value : \E pl \in ReachedUndefined(from, v) :
                      pl[2] > 0 /\ v \in Uses(prog, pl[1], pl[2])}

(* What the scan says is live after a use is exactly what some path still  *)
(* reads: a value missing there is released while somebody needs it, and a *)
(* value too many is never released.                                       *)
LiveAfterIsNeeded ==
    \A b \in DOMAIN live_after : \A i \in 0 .. Last(prog, b) :
        live_after[b][i] = NeededAfter(<<b, i>>)

(* The analysis ends: the sets only grow, so some sweep changes nothing.   *)
Ends == <>(phase = "done")
=============================================================================
