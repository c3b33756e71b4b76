------------------------------- MODULE CfgPlan -------------------------------
(***************************************************************************)
(* What the passes of cielo-memory decide about a program in block form:   *)
(* which values are managed (managed.rs), which are statically the only    *)
(* reference to what they name (uniqueness.rs), and the retains, releases  *)
(* and match projections that cfg_arc.rs inserts.  Pure operators over the *)
(* program; CfgArc.tla runs the result.                                    *)
(*                                                                         *)
(* A value is its CfgValueId, a number: retains and releases are emitted   *)
(* in that order.  p.facts are the values RuntimeValueFacts calls managed. *)
(***************************************************************************)
EXTENDS Cfg, FiniteSets

ASSUME ValueIdAssumption == Value \subseteq Nat /\ IsFiniteSet(Value)

AllSites(p) == UNION {{b} \X Sites(p, b) : b \in Blocks(p)}
Insts(p) == {s \in AllSites(p) : s[2] < Last(p, s[1])}
Occurrences(p) == UNION {{s} \X DOMAIN ExprAt(p, s[1], s[2]).args : s \in AllSites(p)}

ResultOf(p, b, i) == p.insts[b][i].result
DirectValue(e) == IF Len(e.args) = 1 /\ e.args[1].via = "direct" THEN {e.args[1].val} ELSE {}

(* Occurrence k of a Goto as an expression of its own.                     *)
ArgKind(e, k) == IF e.args[k].via = "direct" THEN "value" ELSE e.args[k].via

-----------------------------------------------------------------------------
(* managed.rs: facts, and what follows from them along definitions.        *)

ExprIsManaged(kind, vals, managed) ==
    \/ kind = "value" /\ vals \subseteq managed
    \/ kind \in {"call", "make", "pooled"}

ManagedStep(p, managed) ==
    managed
    \cup {ResultOf(p, s[1], s[2]) :
            s \in {t \in Insts(p) : LET e == ExprAt(p, t[1], t[2])
                                    IN  ExprIsManaged(e.kind, Elems([k \in DOMAIN e.args |-> e.args[k].val]), managed)}}
    \cup UNION {LET t == p.term[b]
                IN  {p.params[t.succ[1]][k] :
                       k \in {j \in DOMAIN t.expr.args :
                                t.kind = "goto" /\
                                ExprIsManaged(ArgKind(t.expr, j), {t.expr.args[j].val}, managed)}}
                    \cup IF t.kind = "match" /\ DirectValue(t.expr) \subseteq managed
                           THEN UNION {Params(p, t.succ[j]) : j \in 1 .. Len(t.succ) - 1}
                           ELSE {} : b \in Blocks(p)}

Classify(p) ==
    LET round[n \in Nat] == IF n = 0 THEN p.facts ELSE ManagedStep(p, round[n - 1])
    IN  round[Cardinality(Value)]

-----------------------------------------------------------------------------
(* uniqueness.rs: a value whose every definition is a constructor from     *)
(* malloc, or takes over a whole reference to one.                         *)

UsesOf(p, v) == {o \in Occurrences(p) : ExprAt(p, o[1][1], o[1][2]).args[o[2]].val = v}

(* Definitions named Faulty... are not part of the specification: each is  *)
(* the definition after it with one plausible mistake, and shows that a    *)
(* property fails when the code makes that mistake.  Here: an alias of a   *)
(* fresh constructor is fresh, however often the constructor is read.      *)
FaultyFreshExpr(p, kind, v, fresh) == kind = "make" \/ (kind = "value" /\ v \in fresh)

FreshExpr(p, kind, v, fresh) ==
    \/ kind = "make"
    \/ kind = "value" /\ v \in fresh /\ Cardinality(UsesOf(p, v)) = 1

FreshStep(p, fresh) ==
    LET byLet(v) == {s \in Insts(p) : ResultOf(p, s[1], s[2]) = v}
        intoBlock(v) == {e \in Blocks(p) \X Blocks(p) :
                           v \in Params(p, e[2]) /\ e[2] \in Successors(p, e[1])}
        letFresh(s) == LET e == ExprAt(p, s[1], s[2])
                       IN  /\ p.insts[s[1]][s[2]].kind = "let"
                           /\ FreshExpr(p, e.kind, IF e.args = <<>> THEN 0 ELSE e.args[1].val, fresh)
        edgeFresh(b, d, v) ==
            LET t == p.term[b]
                k == CHOOSE j \in DOMAIN p.params[d] : p.params[d][j] = v
            IN  t.kind = "goto" /\ FreshExpr(p, ArgKind(t.expr, k), t.expr.args[k].val, fresh)
    IN  fresh \cup {v \in Value : /\ byLet(v) # {} \/ intoBlock(v) # {}
                                  /\ \A s \in byLet(v) : letFresh(s)
                                  /\ \A e \in intoBlock(v) : edgeFresh(e[1], e[2], v)}

SolveOrigins(p) ==
    LET round[n \in Nat] == IF n = 0 THEN {} ELSE FreshStep(p, round[n - 1])
    IN  round[Cardinality(Value)]

UniqueAt(p, fresh, v, b, i) ==
    v \in fresh /\ \E k \in DOMAIN ExprAt(p, b, i).args : UsesOf(p, v) = {<< <<b, i>>, k >>}

-----------------------------------------------------------------------------
(* cfg_arc.rs.                                                             *)

(* OperandRole: a projection and an operator read, the callee of a closure *)
(* is read, and everything else takes the reference.                       *)
Role(e, k) ==
    CASE e.args[k].via = "field" -> "Read"
      [] e.args[k].via = "call" -> "Owned"
      [] e.kind \in {"read", "field"} -> "Read"
      [] e.kind = "closure" /\ k = 1 -> "Read"
      [] OTHER -> "Owned"

(* Returning a named value is not counted: it transfers its reference.     *)
Counts(p, b, i, role, v) ==
    LET e == ExprAt(p, b, i)
    IN  IF i = Last(p, b) /\ p.term[b].kind = "return" /\ DirectValue(e) # {} THEN 0
        ELSE Cardinality({k \in DOMAIN e.args : e.args[k].val = v /\ Role(e, k) = role})

ProducesOwned(kind) == kind \in {"field", "call", "make", "pooled", "closure"}

(* Faulty: as many retains as consumers, less the one that gets the        *)
(* original, although the value is still needed.                           *)
FaultyRetains(optimize, consumes, live) ==
    IF optimize THEN consumes - 1 ELSE consumes

Retains(optimize, consumes, live) ==
    IF ~optimize THEN consumes
    ELSE IF live THEN consumes ELSE consumes - 1

(* Retains of a site, all before it, and releases before and after it.     *)
PlanUses(p, optimize, managed, after, b, i) ==
    LET consumed(v) == Counts(p, b, i, "Owned", v)
        read(v) == Counts(p, b, i, "Read", v)
        dead == managed \ after[b][i]
        spent == {v \in dead : ~optimize /\ consumed(v) > 0}
        early == IF i = Last(p, b) THEN spent ELSE {}
        unused == IF i = Last(p, b) THEN {}
                  ELSE LET in == p.insts[b][i]
                       IN  {in.result} \cap
                           (IF in.kind = "let" THEN dead
                            ELSE IF ProducesOwned(in.expr.kind) THEN Value \ after[b][i] ELSE {})
    IN  [retain |-> [v \in Value |->
                       IF v \in managed /\ consumed(v) > 0
                         THEN Retains(optimize, consumed(v), v \in after[b][i]) ELSE 0],
         early |-> early,
         late |-> (spent \ early) \cup unused
                  \cup {v \in dead : consumed(v) = 0 /\ read(v) > 0}]

(* Faulty: whether the parent is read again is not looked at. *)
FaultyMode(p, optimize, managed, fresh, after, b, binder, target) ==
    IF binder \notin managed \/ binder \notin after[target][0] THEN "Borrow"
    ELSE IF ~optimize THEN "Copy"
    ELSE IF \E v \in DirectValue(p.term[b].expr) : UniqueAt(p, fresh, v, b, Last(p, b))
         THEN "MoveUnique" ELSE "Move"

Mode(p, optimize, managed, fresh, after, b, binder, target) ==
    IF binder \notin managed \/ binder \notin after[target][0] THEN "Borrow"
    ELSE IF ~optimize \/ DirectValue(p.term[b].expr) \cap after[b][Last(p, b)] # {} THEN "Copy"
    ELSE IF \E v \in DirectValue(p.term[b].expr) : UniqueAt(p, fresh, v, b, Last(p, b))
         THEN "MoveUnique" ELSE "Move"

(* Values kept alive only by a sibling branch. *)
EdgeDrops(p, managed, borrowed, in, out, b, target) ==
    IF Len(p.term[b].succ) < 2 THEN {}
    ELSE ((out[b] \ in[target]) \cap managed) \ borrowed

(* Faulty: parameters that nothing reads are kept. *)
FaultyEntryReleases(p, managed, borrowed, after, b) == {}

EntryReleases(p, managed, borrowed, after, b) ==
    ((Params(p, b) \cap managed) \ after[b][0]) \ borrowed

Plan(p, optimize) ==
    LET managed == Classify(p)
        fresh == SolveOrigins(p)
        in == LeastLiveIn(p)
        out == [b \in Blocks(p) |-> OutOf(p, in, b)]
        after == [b \in Blocks(p) |-> LiveAfter(p, out[b], b)]
        mode == [b \in Blocks(p) |->
                   IF p.term[b].kind # "match" THEN <<>>
                   ELSE [j \in 1 .. Len(p.term[b].succ) - 1 |->
                           LET target == p.term[b].succ[j]
                           IN  [k \in DOMAIN p.params[target] |->
                                  Mode(p, optimize, managed, fresh, after, b,
                                       p.params[target][k], target)]]]
        borrowed == UNION {UNION {{p.params[p.term[b].succ[j]][k] :
                                     k \in {m \in DOMAIN mode[b][j] : mode[b][j][m] = "Borrow"}} :
                                    j \in DOMAIN mode[b]} : b \in Blocks(p)}
    IN  [managed |-> managed, after |-> after, mode |-> mode,
         entry |-> [b \in Blocks(p) |-> EntryReleases(p, managed, borrowed, after, b)],
         site |-> [b \in Blocks(p) |-> [i \in Sites(p, b) |->
                     PlanUses(p, optimize, managed, after, b, i)]],
         drop |-> [b \in Blocks(p) |-> [j \in DOMAIN p.term[b].succ |->
                     EdgeDrops(p, managed, borrowed, in, out, b, p.term[b].succ[j])]]]
=============================================================================
