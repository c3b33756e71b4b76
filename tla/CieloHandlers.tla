--------------------------- MODULE CieloHandlers ---------------------------
(***************************************************************************)
(* The handler stack of the C runtime (cielo_runtime.h) and the generated  *)
(* code that uses it (cfg_codegen.rs over the CFGs of cfg_lower.rs).       *)
(*                                                                         *)
(* A C call runs a function of the program, or a residual clause that a    *)
(* perform dispatched to.  A handle opens a region, pushes a frame on the  *)
(* global stack, runs its body, pops and closes; cfg_lower brackets them,  *)
(* so a call closes its own scopes, innermost first, before it returns.    *)
(* What a call may perform is its effect row, which typecheck.rs verifies. *)
(* An evidence record points to the clauses its handler has, which need    *)
(* not be one for every operation of the effect, and to none for a handler *)
(* without clauses.  A handle that is written under another one may get no *)
(* frame at all (lower_stmt_under_handlers), though its effect counts as   *)
(* discharged.  Arguments and results are left out, and so is the version  *)
(* in an evidence record, which is always the runtime's own.               *)
(***************************************************************************)
EXTENDS Naturals, Sequences

CONSTANTS
    Effect,       \* effect labels
    Op,           \* operations
    EffectOf,     \* the effect of each operation
    Builtin,      \* operations that name a runtime builtin
    Spliced,      \* effects that a handle without a frame may discharge
    Evid,         \* addresses of evidence records
    StackMax,     \* CIELO_HANDLER_STACK_MAX
    MaxId,        \* UINT32_MAX, the last capability id before the wrap
    MaxCalls,     \* bound on the depth of the C stack
    MaxPushes,    \* bound on the handles a behaviour enters
    Null          \* the null evidence pointer

ASSUME HandlerAssumption ==
    /\ EffectOf \in [Op -> Effect]
    /\ Builtin \subseteq Op /\ Spliced \subseteq Effect
    /\ StackMax \in Nat /\ MaxId \in Nat \ {0, 1}
    /\ MaxCalls \in Nat /\ MaxPushes \in Nat
    /\ Null \notin Evid \cup Op

VARIABLES
    frames,       \* g_cielo_handlers, the whole array
    depth,        \* g_cielo_handler_depth
    nextCap,      \* g_cielo_next_capability_id
    calls,        \* the C stack: see Call
    scopes,       \* the open handles of all calls, outermost first: C locals
    live,         \* evidence records whose storage exists
    clauses,      \* the table an evidence record points to: see Table
    pushes,       \* handles entered so far
    trap          \* what cielo_trap printed, or NoTrap

vars == <<frames, depth, nextCap, calls, scopes, live, clauses, pushes, trap>>

CapId == 0 .. MaxId
NoFrame == [effect |-> Null, cap |-> 0, evidence |-> Null]
Frame == [effect : Effect, cap : CapId, evidence : Evid \cup {Null}] \cup
         [effect : Effect \cup {Null}, cap : {0}, evidence : {Null}]
Scope == [owner : Nat, effect : Effect, hcap : CapId, ev : Evid,
          phase : {"entered", "active", "popped"}]
Trap == [what : {"none", "handler stack overflow",
                 "handler pop for a capability that is not on the stack",
                 "scoped handler is no longer in scope",
                 "handler has no clause for this operation",
                 "effect performed with no handler in scope"},
         op : Op \cup {Null}]
NoTrap == [what |-> "none", op |-> Null]

(* The operations that have a clause, none for a NULL table, and what the  *)
(* clauses may perform.                                                    *)
Table == [ops : SUBSET Op, row : SUBSET Effect]
NoTable == [ops |-> {}, row |-> {}]

(* What a call may perform, what of it no frame answers for that was on    *)
(* the stack when it was called, and the evidence of the clause it runs.   *)
Call == [row : SUBSET Effect, bare : SUBSET Effect, answers : Evid \cup {Null}]

-----------------------------------------------------------------------------
top == Len(calls)
inner == Len(scopes)

(* The generated code is in a straight line from RegionEnter to            *)
(* HandlerEnter, and from HandlerExit to RegionExit.                       *)
Steady == inner > 0 => scopes[inner].phase = "active"
Running == trap = NoTrap /\ top > 0

OwnActive(e) == {k \in 1 .. inner : /\ scopes[k].owner = top
                                    /\ scopes[k].phase = "active"
                                    /\ scopes[k].effect = e}

(* The row discipline: a call performs what its row allows, or what a      *)
(* handle of its own discharges.                                           *)
Performable == calls[top].row \cup {e \in Effect : OwnActive(e) # {}}

Greatest(S) == CHOOSE x \in S : \A y \in S : y <= x

-----------------------------------------------------------------------------
(* Capability ids.  0 stands for "no capability"; the counter skips it.    *)
(* uint32_t arithmetic wraps after MaxId.                                  *)

Increment(n) == IF n = MaxId THEN 0 ELSE n + 1

(* Definitions named Faulty... are not part of the specification: each is  *)
(* the definition after it with one plausible mistake, and shows that a    *)
(* property fails when the code makes that mistake.  Here: 0 comes up.     *)
FaultyNextAfter(id) == Increment(id)

FreshId == IF nextCap = 0 THEN Increment(nextCap) ELSE nextCap

NextAfter(id) == IF Increment(id) = 0 THEN 1 ELSE Increment(id)

(* Faulty: the search stops before the outermost frame. *)
FaultyMatching(e, cap) == {i \in 2 .. depth : /\ frames[i].effect = e
                                              /\ cap # 0 => frames[i].cap = cap}

(* cielo_perform_scoped, and cielo_perform as its case cap = 0: the        *)
(* innermost frame of the effect, with that id if there is one.            *)
Matching(e, cap) == {i \in 1 .. depth : /\ frames[i].effect = e
                                        /\ cap # 0 => frames[i].cap = cap}

(* Faulty: codegen takes the outermost handle of the function. *)
FaultyPassedCap(e) ==
    IF OwnActive(e) = {} THEN 0
    ELSE scopes[CHOOSE k \in OwnActive(e) : \A j \in OwnActive(e) : k <= j].hcap

(* The id codegen passes: that of the innermost handle of the effect in    *)
(* the function that performs, if it has one.  What codegen searches is    *)
(* the list that a dataflow over the blocks computes; the brackets of      *)
(* cfg_lower give each block one list, the open handles of the call.       *)
PassedCap(e) == IF OwnActive(e) = {} THEN 0 ELSE scopes[Greatest(OwnActive(e))].hcap

-----------------------------------------------------------------------------
(* Region open; the evidence record gets its storage.  The clauses of the  *)
(* handler may perform what is discharged around the handle, and never the *)
(* handler's own effect (ReentersHandler of linearize/analysis.rs).  That  *)
(* every operation has a clause is checked nowhere.                        *)
RegionEnter(e, ev, table) ==
    /\ Running /\ Steady
    /\ pushes < MaxPushes
    /\ ev \notin live
    /\ \A o \in table.ops : EffectOf[o] = e
    /\ table.row \subseteq Performable \ {e}
    /\ table.ops = {} => table.row = {}
    /\ live' = live \cup {ev}
    /\ clauses' = [clauses EXCEPT ![ev] = table]
    /\ scopes' = Append(scopes, [owner |-> top, effect |-> e, hcap |-> 0,
                                 ev |-> ev, phase |-> "entered"])
    /\ pushes' = pushes + 1
    /\ UNCHANGED <<frames, depth, nextCap, calls, trap>>

(* cielo_handler_push_with_evidence.                                       *)
HandlerEnter ==
    /\ Running
    /\ inner > 0 /\ scopes[inner].phase = "entered"
    /\ IF depth >= StackMax
         THEN /\ trap' = [what |-> "handler stack overflow", op |-> Null]
              /\ UNCHANGED <<frames, depth, nextCap, scopes>>
         ELSE /\ frames' = [frames EXCEPT ![depth + 1] =
                   [effect |-> scopes[inner].effect, cap |-> FreshId,
                    evidence |-> scopes[inner].ev]]
              /\ depth' = depth + 1
              /\ nextCap' = NextAfter(FreshId)
              /\ scopes' = [scopes EXCEPT ![inner] =
                   [@ EXCEPT !.hcap = FreshId, !.phase = "active"]]
              /\ UNCHANGED trap
    /\ UNCHANGED <<calls, live, clauses, pushes>>

(* Faulty: pops leave the addresses behind. *)
FaultyUnwound(i) == frames

(* The frames from index i up are cleared, so that no address of evidence  *)
(* that is about to be freed stays in the array.                           *)
Unwound(i) ==
    [k \in 1 .. StackMax |->
        IF k \in i .. depth THEN [frames[k] EXCEPT !.evidence = Null, !.cap = 0]
        ELSE frames[k]]

(* Faulty: unwinds to the named frame, and leaves it there. *)
FaultyHandlerExit ==
    /\ Running /\ Steady
    /\ inner > 0 /\ scopes[inner].owner = top
    /\ LET named == {i \in 1 .. depth : frames[i].cap = scopes[inner].hcap}
       IN  /\ named # {}
           /\ frames' = Unwound(Greatest(named) + 1)
           /\ depth' = Greatest(named)
    /\ scopes' = [scopes EXCEPT ![inner].phase = "popped"]
    /\ UNCHANGED <<nextCap, calls, live, clauses, pushes, trap>>

(* cielo_handler_pop: unwinds to and including the named frame.            *)
HandlerExit ==
    /\ Running /\ Steady
    /\ inner > 0 /\ scopes[inner].owner = top
    /\ LET named == {i \in 1 .. depth : frames[i].cap = scopes[inner].hcap}
       IN  IF named = {}
             THEN /\ trap' = [what |-> "handler pop for a capability that is not on the stack",
                               op |-> Null]
                  /\ UNCHANGED <<frames, depth>>
             ELSE /\ frames' = Unwound(Greatest(named))
                  /\ depth' = Greatest(named) - 1
                  /\ UNCHANGED trap
    /\ scopes' = [scopes EXCEPT ![inner].phase = "popped"]
    /\ UNCHANGED <<nextCap, calls, live, clauses, pushes>>

(* cielo_region_close, or the end of the stack slot's use: the evidence    *)
(* and its table are gone.                                                 *)
RegionExit ==
    /\ Running
    /\ inner > 0 /\ scopes[inner].phase = "popped"
    /\ live' = live \ {scopes[inner].ev}
    /\ clauses' = [clauses EXCEPT ![scopes[inner].ev] = NoTable]
    /\ scopes' = SubSeq(scopes, 1, inner - 1)
    /\ UNCHANGED <<frames, depth, nextCap, calls, pushes, trap>>

(* A call of a function: its row is discharged where it is called, if not  *)
(* by a frame or by the caller's row, by a handle that was spliced.        *)
CallFunction(row) ==
    /\ Running /\ Steady
    /\ top < MaxCalls
    /\ row \subseteq Performable \cup Spliced
    /\ calls' = Append(calls, [row |-> row, bare |-> row \ Performable, answers |-> Null])
    /\ UNCHANGED <<frames, depth, nextCap, scopes, live, clauses, pushes, trap>>

Return ==
    /\ Running
    /\ \A k \in 1 .. inner : scopes[k].owner # top
    /\ calls' = SubSeq(calls, 1, top - 1)
    /\ UNCHANGED <<frames, depth, nextCap, scopes, live, clauses, pushes, trap>>

(* cielo_perform and cielo_perform_scoped, with the dispatch they make     *)
(* (cielo_dispatch_clause): a clause runs as a call, while its own frame   *)
(* stays on the stack.                                                     *)
Perform(o) ==
    /\ Running /\ Steady
    /\ top < MaxCalls
    /\ EffectOf[o] \in Performable
    /\ LET cap == PassedCap(EffectOf[o])
           found == Matching(EffectOf[o], cap)
           evidence == frames[Greatest(found)].evidence
       IN  CASE found = {} /\ cap # 0 ->
                  /\ trap' = [what |-> "scoped handler is no longer in scope", op |-> o]
                  /\ UNCHANGED calls
             [] found = {} /\ cap = 0 /\ o \in Builtin ->
                  UNCHANGED <<calls, trap>>
             [] found = {} /\ cap = 0 /\ o \notin Builtin ->
                  /\ trap' = [what |-> "effect performed with no handler in scope", op |-> o]
                  /\ UNCHANGED calls
             [] found # {} /\ (evidence # Null => o \notin clauses[evidence].ops) ->
                  /\ trap' = [what |-> "handler has no clause for this operation", op |-> o]
                  /\ UNCHANGED calls
             [] OTHER ->
                  /\ calls' = Append(calls, [row |-> clauses[evidence].row, bare |-> {},
                                             answers |-> evidence])
                  /\ UNCHANGED trap
    /\ UNCHANGED <<frames, depth, nextCap, scopes, live, clauses, pushes>>

-----------------------------------------------------------------------------
(* main may declare a row: its effects have no handler around them.        *)
Init ==
    /\ frames = [i \in 1 .. StackMax |-> NoFrame]
    /\ depth = 0
    /\ nextCap = 1
    /\ \E row \in SUBSET Effect : calls = <<[row |-> row, bare |-> row, answers |-> Null]>>
    /\ scopes = <<>>
    /\ live = {}
    /\ clauses = [ev \in Evid |-> NoTable]
    /\ pushes = 0
    /\ trap = NoTrap

Next ==
    \/ \E e \in Effect, ev \in Evid, table \in Table : RegionEnter(e, ev, table)
    \/ HandlerEnter
    \/ HandlerExit
    \/ RegionExit
    \/ \E row \in SUBSET Effect : CallFunction(row)
    \/ Return
    \/ \E o \in Op : Perform(o)

Spec == Init /\ [][Next]_vars

-----------------------------------------------------------------------------
TypeOK ==
    /\ frames \in [1 .. StackMax -> Frame]
    /\ depth \in 0 .. StackMax
    /\ nextCap \in 1 .. MaxId
    /\ calls \in Seq(Call)
    /\ scopes \in Seq(Scope)
    /\ live \subseteq Evid
    /\ clauses \in [Evid -> Table]
    /\ pushes \in 0 .. MaxPushes
    /\ trap \in Trap

Settled == IF inner > 0 /\ scopes[inner].phase # "active" THEN inner - 1 ELSE inner

(* The global stack is the nesting of the open handles of all C calls, in  *)
(* order and with the ids their functions hold in hcap: whatever a body, a *)
(* callee or a dispatched clause did, each pop removes the frame its own   *)
(* function pushed and no enclosing one.                                   *)
FramesAreScopes ==
    /\ depth = Settled
    /\ \A i \in 1 .. depth :
         frames[i] = [effect |-> scopes[i].effect, cap |-> scopes[i].hcap,
                      evidence |-> scopes[i].ev]

(* No entry of the array, those above the depth included, holds the        *)
(* address of an evidence record whose region was closed.                  *)
NoStaleEvidence ==
    \A i \in 1 .. StackMax :
        /\ frames[i].evidence # Null => frames[i].evidence \in live
        /\ i > depth => frames[i].evidence = Null /\ frames[i].cap = 0

(* The parts that make the properties inductive.  Only the innermost       *)
(* handle may be between two instructions, and it is the running call's.   *)
ScopesNested ==
    /\ \A k \in 1 .. inner : scopes[k].owner \in 1 .. top
    /\ \A j, k \in 1 .. inner : j < k => /\ scopes[j].phase = "active"
                                         /\ scopes[j].owner <= scopes[k].owner
    /\ ~Steady => scopes[inner].owner = top

(* Each open handle has evidence storage of its own.                       *)
EvidenceOwned ==
    /\ \A k \in 1 .. inner : scopes[k].ev \in live
    /\ \A j, k \in 1 .. inner : scopes[j].ev = scopes[k].ev => j = k

(* Ids are handed out in order, until the counter wraps.                   *)
Installed == IF inner > 0 /\ scopes[inner].phase = "entered" THEN pushes - 1 ELSE pushes

IdsFresh == Installed <= MaxId =>
    /\ nextCap = Installed + 1 \/ Installed = MaxId
    /\ \A k \in 1 .. inner : scopes[k].phase # "entered" => scopes[k].hcap \in 1 .. Installed
    /\ \A j, k \in 1 .. inner :
         /\ scopes[j].phase # "entered" /\ scopes[k].phase # "entered"
         /\ scopes[j].hcap = scopes[k].hcap
         => j = k

(* What a call or a clause may perform is discharged around it: by a frame *)
(* that is on the stack, or by none at all.                                *)
BareUpTo(d) == UNION {calls[c].bare : c \in 1 .. d}
DischargedBelow(k) ==
    BareUpTo(scopes[k].owner) \cup {scopes[j].effect : j \in 1 .. k - 1}

RowsDischarged ==
    /\ \A d \in 1 .. top : \A e \in calls[d].row \ BareUpTo(d) :
         \E k \in 1 .. inner : scopes[k].owner < d /\ scopes[k].effect = e
    /\ \A k \in 1 .. inner : clauses[scopes[k].ev].row \subseteq DischargedBelow(k)

HandlerInv == TypeOK /\ ScopesNested /\ FramesAreScopes /\ EvidenceOwned /\ NoStaleEvidence

(* The handles of an effect that have a frame.                             *)
OpenOf(e) == {k \in 1 .. Settled : scopes[k].effect = e}

(* A perform is answered by the innermost handle of its effect that has a  *)
(* frame (cielo_perform_scoped), whatever calls, clauses and other handles *)
(* of the effect lie between, with the id codegen passes or without one,   *)
(* and also when the counter has wrapped and two open handles have one id. *)
(* Until it wraps, the id of any open handle names that handle alone.      *)
PerformReachesInnermost ==
    /\ Running /\ Steady => \A e \in Effect :
         LET found == Matching(e, PassedCap(e))
         IN  /\ found = {} <=> OpenOf(e) = {}
             /\ found # {} =>
                  frames[Greatest(found)].evidence = scopes[Greatest(OpenOf(e))].ev
    /\ Installed <= MaxId => \A k \in 1 .. inner : scopes[k].phase = "active" =>
         LET found == Matching(scopes[k].effect, scopes[k].hcap)
         IN  found # {} /\ frames[Greatest(found)].evidence = scopes[k].ev

(* The ways in which a program that type checks loses an effect are these: *)
(* the stack is full; nothing with a frame discharges the effect, only     *)
(* main's row or a handle that was spliced; or the innermost handle of the *)
(* effect has no clause for the operation.  However calls, clauses and     *)
(* handles nest, no other perform and no pop traps.                        *)
LostOnlyWhereUnanswered ==
    \/ trap.what \in {"none", "handler stack overflow"}
    \/ /\ trap.what = "effect performed with no handler in scope"
       /\ trap.op \notin Builtin /\ OpenOf(EffectOf[trap.op]) = {}
       /\ EffectOf[trap.op] \in BareUpTo(top)
    \/ /\ trap.what = "handler has no clause for this operation"
       /\ LET open == OpenOf(EffectOf[trap.op])
          IN  open # {} /\ trap.op \notin clauses[scopes[Greatest(open)].ev].ops

(* A clause does not run again while it runs: what ReentersHandler refuses *)
(* to let a clause do, because its own frame is still on the stack.        *)
ClauseNotReentered ==
    \A i, j \in 1 .. top :
        calls[i].answers # Null /\ calls[i].answers = calls[j].answers => i = j
=============================================================================
