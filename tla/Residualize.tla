------------------------------ MODULE Residualize -----------------------------
(***************************************************************************)
(* Residualization (passes/residualize.rs): known values are put in place  *)
(* of their expressions, decided branches in place of their ifs and        *)
(* matches, and calls get the rows of effects that the rewritten functions *)
(* still have.  What the passes share (a match on a known constructor, the *)
(* variables bound by lets) is here too.                                   *)
(*                                                                         *)
(* The code rewrites statements in place and adds the lets it makes to the *)
(* table of known variables as it goes.  Their scope has been rewritten by *)
(* then, except in handlers, which come after all functions: they are      *)
(* rewritten with the lets of the functions as they have become.           *)
(***************************************************************************)
EXTENDS Bta

(* The expressions that lets bind, among some statements.                  *)
LetValueDefs(stmts) ==
    LET lets == {s \in stmts : s.k = "Let"}
    IN  [x \in {s.bind : s \in lets} |-> (CHOOSE s \in lets : s.bind = x).args[1]]

(* What an expression is behind the lets; those are never circular.        *)
RECURSIVE Resolve(_, _)
Resolve(defs, e) ==
    IF e.k = "Var" /\ e.var \in DOMAIN defs THEN Resolve(defs, defs[e.var]) ELSE e

(* The arm of a match on a known constructor, 0 when none is picked.       *)
PickMatchBranch(defs, s) ==
    LET e == Resolve(defs, s.args[1])
        i == IF e.k = "MakeEnum" THEN ArmOf(s, e.tag) ELSE 0
    IN  IF i \in DOMAIN s.pats /\ Len(s.pats[i].binders) # Len(e.args) THEN 0 ELSE i

(* That arm, behind lets of the fields it binds.                           *)
MaterializeMatchSelection(defs, s, i) ==
    IF i \in DOMAIN s.pats
    THEN Lets(s.pats[i].binders, Resolve(defs, s.args[1]).args, s.arms[i]) ELSE s.arms[i]

(* The operands of a statement with their known parts as literals; x is    *)
(* [ct, stage, defs].                                                      *)
RECURSIVE EmbedExpr(_, _, _, _)
EmbedExpr(x, s, e, slot) ==
    IF e \in DOMAIN x.ct /\ x.stage[[s |-> s, e |-> e, slot |-> slot]] = "Ct" THEN Lit(x.ct[e])
    ELSE [e EXCEPT !.args = [i \in DOMAIN e.args |-> EmbedExpr(x, s, e.args[i], FALSE)]]

Embedded(x, s) ==
    [s EXCEPT !.args = [i \in DOMAIN s.args |-> EmbedExpr(x, s, s.args[i], TRUE)]]

(* The arm of an if that is decided, 0 when it is not.  A condition in the *)
(* cache decides it even where a directive keeps its value out.            *)
PickIfBranch(x, s) ==
    LET c == s.args[1]
        e == Resolve(x.defs, EmbedExpr(x, s, c, TRUE))
        v == IF c \in DOMAIN x.ct THEN x.ct[c] ELSE IF e.k = "Lit" THEN e.lit ELSE None
    IN  IF v.t = "Bool" THEN 2 - v.n ELSE 0

RECURSIVE ResidualStmt(_, _)
ResidualIf(x, s) ==
    LET live == PickIfBranch(x, s)
    IN  IF live # 0 THEN ResidualStmt(x, s.arms[live])
        ELSE [Embedded(x, s) EXCEPT !.arms = [i \in DOMAIN s.arms |-> ResidualStmt(x, s.arms[i])]]

ResidualMatch(x, s) ==
    LET t == [Embedded(x, s) EXCEPT !.arms = [i \in DOMAIN s.arms |-> ResidualStmt(x, s.arms[i])]]
        i == PickMatchBranch(x.defs, t)
    IN  IF i # 0 THEN MaterializeMatchSelection(x.defs, t, i) ELSE t

ResidualStmt(x, s) ==
    CASE s.k = "Return" -> Embedded(x, s)
      [] s.k = "If" -> ResidualIf(x, s)
      [] s.k = "Match" -> ResidualMatch(x, s)
      [] s.k = "Val" -> [s EXCEPT !.value = ResidualStmt(x, @), !.next = ResidualStmt(x, @)]
      [] s.k \in {"Handle", "Stage"} -> [s EXCEPT !.body = ResidualStmt(x, @)]
      [] OTHER -> [Embedded(x, s) EXCEPT !.next = ResidualStmt(x, @)]

(* Functions first, then handlers; Rewrite gets the table of lets, which   *)
(* for handlers holds those of the functions as they have become.          *)
RewriteRoots(p, Rewrite(_, _), defs) ==
    LET inFuncs(s) == Rewrite(defs, s)
        q == WithFuncBodies(p, inFuncs)
        become == LetValueDefs(UNION {Graph(b) : b \in FuncBodies(q)}) @@ defs
        inHandlers(s) == Rewrite(become, s)
    IN  WithHandlerBodies(q, inHandlers)

ApplyCtResidualization(p, ct, stage) ==
    LET context(defs) == [ct |-> ct, stage |-> stage, defs |-> defs]
        rewrite(defs, s) == ResidualStmt(context(defs), s)
        lets == {s \in StmtsOf(p) : s.k = "Let"}
        embedded(s) == Embedded(context(Empty), s).args[1]
    IN  RewriteRoots(p, rewrite, [x \in {s.bind : s \in lets} |->
                                    embedded(CHOOSE s \in lets : s.bind = x)])

(* The effects of functions: the least rows that agree with the bodies.    *)
RECURSIVE Summaries(_, _)
Summaries(p, rows) ==
    LET again == [f \in DOMAIN p.funcs |-> RowOf(p, rows, p.funcs[f].body)]
    IN  IF again = rows THEN rows ELSE Summaries(p, again)

FunctionEffectSummary(p) == Summaries(p, [f \in DOMAIN p.funcs |-> {}])

RECURSIVE RewriteCallRows(_, _)
RewriteCallRows(rows, s) ==
    CASE s.k = "Call" -> [s EXCEPT !.row = RowAt(rows, s.fn), !.next = RewriteCallRows(rows, @)]
      [] s.k = "Val" -> [s EXCEPT !.value = RewriteCallRows(rows, @),
                                  !.next = RewriteCallRows(rows, @)]
      [] s.k \in {"If", "Match"} ->
           [s EXCEPT !.arms = [i \in DOMAIN s.arms |-> RewriteCallRows(rows, s.arms[i])]]
      [] s.k \in {"Handle", "Stage"} -> [s EXCEPT !.body = RewriteCallRows(rows, @)]
      [] s.k = "Return" -> s
      [] OTHER -> [s EXCEPT !.next = RewriteCallRows(rows, @)]

EraseFunctionEffectAnnotations(p) ==
    [p EXCEPT !.funcs = [f \in DOMAIN p.funcs |-> [p.funcs[f] EXCEPT !.effects = {}]]]

Residualized(p, ct, stage) ==
    LET q == ApplyCtResidualization(p, ct, stage)
        rowed(s) == RewriteCallRows(FunctionEffectSummary(q), s)
    IN  EraseFunctionEffectAnnotations(WithBodies(q, rowed))
=============================================================================
