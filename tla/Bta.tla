--------------------------------- MODULE Bta ----------------------------------
(***************************************************************************)
(* Binding-time analysis (passes/bta.rs).  An expression is named by where *)
(* it occurs, [s, e, slot]: the statement, and whether e is one of its     *)
(* operands or inside one.  It is compile-time or runtime; the reasons     *)
(* that the code keeps for its report are left out, and so are the types   *)
(* that cannot persist: a cached value is a literal, and that persists.    *)
(***************************************************************************)
EXTENDS CtEval

CONSTANTS NonThunkable,     \* effects whose result is not known when compiling
          CtOnlyEffects     \* effects that compiling discharges: EffectFlags::CT_ONLY

Slots(s) == {[s |-> s, e |-> e, slot |-> TRUE] : e \in Elems(s.args)}
Inner(s) == {[s |-> s, e |-> e, slot |-> FALSE] :
               e \in UNION {Parts(a) : a \in UNION {Elems(b.args) : b \in Elems(s.args)}}}
Occurrences(stmts) == UNION {Slots(s) \cup Inner(s) : s \in stmts}

(* A statement with all that runs inside it, the clauses of its handlers   *)
(* included.                                                               *)
RECURSIVE Region(_, _)
Region(p, s) ==
    LET below == IF s.k = "Handle" THEN ClauseBodies(p.handlers[s.handler]) ELSE {}
    IN  {s} \cup UNION {Region(p, t) : t \in Children(s) \cup below}

(* The statements that a directive forces, with the innermost one.         *)
RECURSIVE Forced(_, _, _)
Forced(p, s, d) ==
    LET below == IF s.k = "Handle" THEN ClauseBodies(p.handlers[s.handler]) ELSE {}
        inner == IF s.k = "Stage" THEN s.directive ELSE d
    IN  {[s |-> s, d |-> d]} \cup UNION {Forced(p, t, inner) : t \in Children(s) \cup below}

ForcedTo(p, d) ==
    {f.s : f \in {g \in UNION {Forced(p, b, "none") : b \in FuncBodies(p)} : g.d = d}}

(* A function for compile time only says so, or declares such an effect.   *)
IsCtOnlyCall(p, f) ==
    /\ f \in DOMAIN p.funcs
    /\ p.funcs[f].ctOnly \/ p.funcs[f].effects \cap CtOnlyEffects # {}

(* The stage of each occurrence: what the cache says, unless a directive   *)
(* forces the operand.                                                     *)
StageOfExpr(p, cache) ==
    LET ct == ForcedTo(p, "comptime")
        rt == ForcedTo(p, "runtime")
        known(o) == CASE o.slot /\ o.s \in rt -> FALSE
                      [] o.slot /\ o.s \in ct -> TRUE
                      [] OTHER -> o.e \in DOMAIN cache
    IN  [o \in Occurrences(StmtsOf(p)) |-> IF known(o) THEN "Ct" ELSE "Rt"]

HasRuntimeOperand(stage, s) == \E o \in Slots(s) : stage[o] = "Rt"

(* The statements whose operands decide the stage of a Val that awaits s.  *)
RunsRuntimeOperand(stage, s) == \E t \in Graph(s) : HasRuntimeOperand(stage, t)

(* The row of a function, empty when there is no such function: handlers   *)
(* that are left behind may still call one that has gone.                  *)
RowAt(rows, f) == IF f \in DOMAIN rows THEN rows[f] ELSE {}

(* The effect row of a statement as the type checker leaves it.            *)
RECURSIVE RowOf(_, _, _)
RowOf(p, rows, s) ==
    LET below == UNION {RowOf(p, rows, t) : t \in Children(s)}
        h == p.handlers[s.handler]
    IN  CASE s.k = "Perform" -> below \cup {s.eff}
          [] s.k = "Call" -> below \cup RowAt(rows, s.fn)
          [] s.k = "Handle" -> (below \cup UNION {RowOf(p, rows, b) : b \in ClauseBodies(h)})
                                 \ {h.effect}
          [] OTHER -> below

DeclaredRows(p) == [f \in DOMAIN p.funcs |-> p.funcs[f].effects]

BlocksStaging(p, s) ==
    \/ s.k = "Perform" /\ s.eff \in NonThunkable
    \/ s.k = "Call" /\ s.row \cap NonThunkable # {}

(* The variables that are known to be bound to something of runtime.       *)
IsRuntimeBinder(p, stage, s) ==
    \/ s.k \in {"Let", "Call", "Perform", "Resume"} /\ HasRuntimeOperand(stage, s)
    \/ s.k = "Val" /\ RunsRuntimeOperand(stage, s.value)
    \/ BlocksStaging(p, s)
    \/ s.k = "Call" /\ IsCtOnlyCall(p, s.fn) /\ HasRuntimeOperand(stage, s)

RuntimeVars(p, stage) == {s.bind : s \in {t \in StmtsOf(p) : IsRuntimeBinder(p, stage, t)}}

(* Errors: compile-time-only calls with a runtime argument.                *)
IsIllegalCall(p, stage, o) ==
    /\ o.e.k = "PureCall"
    /\ IsCtOnlyCall(p, o.e.fn)
    /\ \E a \in Elems(o.e.args) : stage[[s |-> o.s, e |-> a, slot |-> FALSE]] = "Rt"

CtOnlyErrors(p, stage) ==
    {o.s : o \in {q \in DOMAIN stage : IsIllegalCall(p, stage, q)}}
    \cup {s \in StmtsOf(p) : s.k = "Call" /\ IsCtOnlyCall(p, s.fn) /\ HasRuntimeOperand(stage, s)}

(* Errors: blocks that are to be evaluated when compiling, and are not.  A *)
(* forced operand says Ct, so it is its variable that is asked.            *)
StaysRuntime(stage, vars, o) ==
    \/ o.e.k = "Var" /\ o.e.var \in vars
    \/ stage[o] = "Rt"

(* An effect that compiling discharges is what such a block may perform.   *)
EscapingRuntimeEffects(p, rows, body) == RowOf(p, rows, body) \ CtOnlyEffects

(* Faulty: what is inside an operand is not looked at. *)
FaultyBlockFails(p, stage, vars, body) ==
    \/ EscapingRuntimeEffects(p, DeclaredRows(p), body) # {}
    \/ \E s \in Region(p, body) : \E o \in Slots(s) : StaysRuntime(stage, vars, o)

BlockFails(p, stage, vars, body) ==
    \/ EscapingRuntimeEffects(p, DeclaredRows(p), body) # {}
    \/ \E o \in Occurrences(Region(p, body)) : StaysRuntime(stage, vars, o)

ComptimeBlocks(p) == {s \in StmtsOf(p) : s.k = "Stage" /\ s.directive = "comptime"}

ComptimeErrors(p, stage) ==
    {s \in ComptimeBlocks(p) : BlockFails(p, stage, RuntimeVars(p, stage), s.body)}
=============================================================================
