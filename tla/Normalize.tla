------------------------------- MODULE Normalize ------------------------------
(***************************************************************************)
(* Normalization (passes/normalize.rs): sweeps that only shrink, repeated  *)
(* until one changes nothing, then one that copies small helpers into all  *)
(* their callers, then the shrinking sweeps again.  A sweep is rewriting   *)
(* every root with x = [shrink, uses, inline, defs]: whether it shrinks,   *)
(* the variables in use, the functions to inline, as [params, expr], and   *)
(* the lets, all as they were before it.  Expressions are rewritten in     *)
(* place, so that the table of lets shows them rewritten; but a let of a   *)
(* call that is inlined gets another expression, and the table shows the   *)
(* call until the let's scope has been rewritten.                          *)
(***************************************************************************)
EXTENDS Residualize, FunctionGraph

CONSTANT MaxSpecInlineExprs     \* MAX_SPEC_INLINE_EXPRS

(* The bodies that the analyses look at: of what is reached, and of every  *)
(* handler.                                                                *)
AnalysisRoots(p) ==
    {p.funcs[f].body : f \in ReachableFunctions(p)}
    \cup UNION {ClauseBodies(h) : h \in Elems(p.handlers)}

VarUses(p) == UNION {UNION {VarsIn(e) : e \in ExprsBelow(b)} : b \in AnalysisRoots(p)}

(* The places where f is called below a statement.                         *)
CallSites(s, f) ==
    {e \in ExprsBelow(s) : e.k = "PureCall" /\ e.fn = f}
    \cup {t \in Graph(s) : t.k = "Call" /\ t.fn = f}

(* The bodies of handlers, one after the other.                            *)
HandlerBodySeq(h) == <<h.ret>> \o [i \in DOMAIN h.clauses |-> h.clauses[i].body]

CallCount(p, f) ==
    LET count(bodies) == FoldLeft(LAMBDA n, b : n + Cardinality(CallSites(b, f)), 0, bodies)
    IN  MapThenSumSet(LAMBDA g : count(<<p.funcs[g].body>>), ReachableFunctions(p))
        + FoldLeft(LAMBDA n, h : n + count(HandlerBodySeq(h)), 0, p.handlers)

(* Output is the one thing that evaluating an expression may be for.  What *)
(* a called function prints is not looked at, a called closure may print.  *)
HasObservableEffect(e) ==
    \E a \in Parts(e) : \/ a.k = "CallClosure"
                        \/ a.k = "BuiltinCall" /\ a.name = "print"

RECURSIVE NodeCount(_)
NodeCount(e) == FoldSeq(LAMBDA a, n : n + NodeCount(a), 1, e.args)

IsInlineable(e, params) ==
    \A a \in Parts(e) : \/ a.k \in {"Lit", "Unary", "Binary", "MakeEnum"}
                        \/ a.k = "Var" /\ a.var \in Elems(params)

(* Functions that are one expression over their parameters, and that are   *)
(* called once, or are small and called more often.                        *)
IsInlineCandidate(p, f, once) ==
    LET fn == p.funcs[f]
    IN  /\ CallSites(fn.body, f) = {}
        /\ fn.effects = {}
        /\ IF once THEN CallCount(p, f) = 1 ELSE CallCount(p, f) > 1
        /\ fn.body.k = "Return"
        /\ ~once => NodeCount(fn.body.args[1]) <= MaxSpecInlineExprs
        /\ IsInlineable(fn.body.args[1], fn.params)

InlineCandidates(p, once) ==
    LET candidates == {f \in ReachableFunctions(p) : IsInlineCandidate(p, f, once)}
    IN  [f \in candidates |-> [params |-> p.funcs[f].params, expr |-> p.funcs[f].body.args[1]]]

RECURSIVE Substituted(_, _)
Substituted(binding, e) ==
    IF e.k = "Var" THEN binding[e.var]
    ELSE [e EXCEPT !.args = [i \in DOMAIN e.args |-> Substituted(binding, e.args[i])]]

(* A call that is inlined takes its arguments to where the parameters are. *)
MayInline(x, f, args) == f \in DOMAIN x.inline /\ Len(x.inline[f].params) = Len(args)
InlineCall(x, f, args) ==
    Substituted(WithAll(Empty, x.inline[f].params, args), x.inline[f].expr)

RECURSIVE RewriteExpr(_, _)
RewriteParts(x, e) == [e EXCEPT !.args = [i \in DOMAIN e.args |-> RewriteExpr(x, e.args[i])]]
RewriteExpr(x, e) ==
    LET d == RewriteParts(x, e)
    IN  IF e.k = "PureCall" /\ MayInline(x, e.fn, d.args) THEN InlineCall(x, e.fn, d.args) ELSE d

RewriteArgs(x, s) == [s EXCEPT !.args = [i \in DOMAIN s.args |-> RewriteExpr(x, s.args[i])]]

(* The rewritings of a statement whose parts have been rewritten.          *)
ShrinkLet(x, s) ==
    IF x.shrink /\ s.bind \notin x.uses /\ ~HasObservableEffect(s.args[1]) THEN s.next ELSE s

MentionsVar(s, v) == \E e \in ExprsBelow(s) : v \in VarsIn(e)

ShrinkVal(x, s) ==
    CASE x.shrink /\ s.value.k = "Return" -> Let(s.bind, s.value.args[1], s.next)
      [] x.shrink /\ s.value.k = "Val" /\ ~MentionsVar(s.next, s.value.bind) ->
           Val(s.value.bind, s.value.value, Val(s.bind, s.value.next, s.next))
      [] OTHER -> s

InlineStmt(x, s) ==
    IF s.row = {} /\ MayInline(x, s.fn, s.args)
    THEN Let(s.bind, InlineCall(x, s.fn, s.args), s.next) ELSE s

ShrinkIf(x, s) ==
    LET e == Resolve(x.defs, s.args[1])
    IN  IF x.shrink /\ e.k = "Lit" /\ e.lit.t = "Bool" THEN s.arms[2 - e.lit.n] ELSE s

ShrinkMatch(x, s) ==
    LET i == PickMatchBranch(x.defs, s)
    IN  IF x.shrink /\ i # 0 THEN MaterializeMatchSelection(x.defs, s, i) ELSE s

RECURSIVE RewriteStmt(_, _)
RewriteArms(x, s) ==
    [RewriteArgs(x, s) EXCEPT !.arms = [i \in DOMAIN s.arms |-> RewriteStmt(x, s.arms[i])]]
RewriteNext(x, s) == [RewriteArgs(x, s) EXCEPT !.next = RewriteStmt(x, @)]

RewriteStmt(x, s) ==
    CASE s.k = "Return" -> RewriteArgs(x, s)
      [] s.k = "Let" -> ShrinkLet(x, RewriteNext(x, s))
      [] s.k = "Val" -> ShrinkVal(x, [RewriteNext(x, s) EXCEPT !.value = RewriteStmt(x, @)])
      [] s.k = "Call" -> InlineStmt(x, RewriteNext(x, s))
      [] s.k = "If" -> ShrinkIf(x, RewriteArms(x, s))
      [] s.k = "Match" -> ShrinkMatch(x, RewriteArms(x, s))
      [] s.k \in {"Handle", "Stage"} -> [s EXCEPT !.body = RewriteStmt(x, @)]
      [] OTHER -> RewriteNext(x, s)

(* A sweep over the functions that are reached and over all handlers.      *)
Sweep(p, shrink, uses, inline) ==
    LET context(defs) == [shrink |-> shrink, uses |-> uses, inline |-> inline, defs |-> defs]
        rewrite(defs, s) == RewriteStmt(context(defs), s)
        lets == LetValueDefs(StmtsOf(p))
        q == RewriteRoots(p, rewrite,
                          [v \in DOMAIN lets |-> RewriteParts(context(Empty), lets[v])])
    IN  [q EXCEPT !.funcs = [f \in DOMAIN p.funcs |->
           IF f \in ReachableFunctions(p) THEN q.funcs[f] ELSE p.funcs[f]]]

Shrink(p) == Sweep(p, TRUE, VarUses(p), InlineCandidates(p, TRUE))
SpeculativeInline(p) == Sweep(p, FALSE, {}, InlineCandidates(p, FALSE))
=============================================================================
