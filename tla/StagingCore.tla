------------------------------ MODULE StagingCore -----------------------------
(***************************************************************************)
(* Core programs as the staging pipeline (cielo-staging) receives them.    *)
(* The statements are those of Core; here an expression is a tree, because *)
(* staging folds, copies and drops parts of expressions, and there are     *)
(* stage directives and matches that bind fields.  A function is           *)
(*                                                                         *)
(*   [params, body, effects, ctOnly, generics]                             *)
(*                                                                         *)
(* with the effects it declares, whether it is for compile time only, and  *)
(* the number of type parameters in its signature.  A call carries the     *)
(* effect row of its callee, and that of a generic one its type arguments. *)
(* A call in an expression has a site, the place in the source where it    *)
(* is written, which stands for its ExprId: equal calls in two places are  *)
(* two, and a call that inlining puts in two places remains one.           *)
(*                                                                         *)
(* A value is [t, n] with a type and a number, a constructor [t, n,        *)
(* fields] with its tag for a number, and a closure [t, n, fields] with    *)
(* its function and its captures.                                          *)
(***************************************************************************)
EXTENDS Core, SequencesExt

Int_(n)  == [t |-> "Int", n |-> n]
Bool(b)  == [t |-> "Bool", n |-> IF b THEN 1 ELSE 0]
Unit     == [t |-> "Unit", n |-> 0]
None     == [t |-> "None", n |-> 0]     \* no compile-time value

Lit(v)            == [k |-> "Lit", lit |-> v, args |-> <<>>]
Get(x)            == [k |-> "Var", var |-> x, args |-> <<>>]
Unary(o, e)       == [k |-> "Unary", op |-> o, args |-> <<e>>]
Binary(o, l, r)   == [k |-> "Binary", op |-> o, args |-> <<l, r>>]
PureCall(f, es)   == [k |-> "PureCall", fn |-> f, args |-> es, site |-> <<>>]
Builtin(b, es)    == [k |-> "BuiltinCall", name |-> b, args |-> es]
MakeEnum(g, es)   == [k |-> "MakeEnum", tag |-> g, args |-> es]
MakeClosure(f, es)  == [k |-> "MakeClosure", fn |-> f, args |-> es]
CallClosure(c, es)  == [k |-> "CallClosure", args |-> <<c>> \o es]

CallRowed(x, f, es, row, n) == Call(x, f, es, n) @@ [row |-> row]

(* Calls with type arguments.                                              *)
GenericCall(f, ts, es) == PureCall(f, es) @@ [targs |-> ts]
GenericCallRowed(x, f, ts, es, row, n) == CallRowed(x, f, es, row, n) @@ [targs |-> ts]

Stage(d, s) == [k |-> "Stage", directive |-> d, args |-> <<>>, body |-> s]

(* A match on constructors: pats[i] is the pattern [tag, binders] of arms[i]; *)
(* an arm more than there are patterns is the default.                     *)
MatchOn(e, ps, as) == [k |-> "Match", args |-> <<e>>, pats |-> ps, arms |-> as]

HasDefault(s) == Len(s.arms) > Len(s.pats)

(* The arm a tag selects, 0 when there is none.                            *)
ArmOf(s, tag) ==
    LET is == {i \in DOMAIN s.pats : s.pats[i].tag = tag}
    IN  IF is # {} THEN CHOOSE i \in is : \A j \in is : i <= j
        ELSE IF HasDefault(s) THEN Len(s.arms) ELSE 0

(* The children of a statement, in the order of StmtNode::child_stmts.     *)
ChildSeq(s) ==
    CASE s.k = "Return" -> <<>>
      [] s.k = "Val" -> <<s.value, s.next>>
      [] s.k \in {"If", "Match"} -> s.arms
      [] s.k \in {"Handle", "Stage"} -> <<s.body>>
      [] OTHER -> <<s.next>>

(* A let for each binder, in front of a statement.                         *)
RECURSIVE Lets(_, _, _)
Lets(xs, es, s) ==
    IF xs = <<>> THEN s ELSE Let(Head(xs), Head(es), Lets(Tail(xs), Tail(es), s))

RECURSIVE Parts(_)
Parts(e) == {e} \cup UNION {Parts(a) : a \in Elems(e.args)}

VarsIn(e) == {a.var : a \in {b \in Parts(e) : b.k = "Var"}}

(* The expressions of a statement and of everything below it.              *)
ExprsBelow(s) == UNION {UNION {Parts(e) : e \in Elems(t.args)} : t \in Graph(s)}

(* The bodies of a program, those of its functions and of its handlers.    *)
FuncBodies(p) == {f.body : f \in Elems(p.funcs)}
Bodies(p) == FuncBodies(p) \cup UNION {ClauseBodies(h) : h \in Elems(p.handlers)}

StmtsOf(p) == UNION {Graph(b) : b \in Bodies(p)}
ExprsOf(p) == UNION {ExprsBelow(b) : b \in Bodies(p)}

(* The bodies of functions, or of handlers, as an operator rewrites them.  *)
WithFuncBodies(p, Rewrite(_)) ==
    [p EXCEPT !.funcs = [f \in DOMAIN p.funcs |->
                           [p.funcs[f] EXCEPT !.body = Rewrite(p.funcs[f].body)]]]

WithHandlerBodies(p, Rewrite(_)) ==
    LET clause(c) == [c EXCEPT !.body = Rewrite(c.body)]
        handler(h) == [h EXCEPT !.ret = Rewrite(h.ret),
                                !.clauses = [i \in DOMAIN h.clauses |-> clause(h.clauses[i])]]
    IN  [p EXCEPT !.handlers = [i \in DOMAIN p.handlers |-> handler(p.handlers[i])]]

WithBodies(p, Rewrite(_)) == WithHandlerBodies(WithFuncBodies(p, Rewrite), Rewrite)

(* A program with the sites of its calls: the way to each from its body.   *)
RECURSIVE SitedExpr(_, _), SitedStmt(_, _)
SitedExpr(at, e) ==
    LET d == [e EXCEPT !.args = [i \in DOMAIN @ |-> SitedExpr(Append(at, i), @[i])]]
    IN  IF e.k = "PureCall" THEN [d EXCEPT !.site = at] ELSE d

SitedStmt(at, s) ==
    LET t == [s EXCEPT !.args = [i \in DOMAIN @ |-> SitedExpr(at \o <<0, i>>, @[i])]]
    IN  CASE s.k = "Return" -> t
          [] s.k = "Val" -> [t EXCEPT !.value = SitedStmt(Append(at, 1), @),
                                      !.next = SitedStmt(Append(at, 2), @)]
          [] s.k \in {"If", "Match"} ->
               [t EXCEPT !.arms = [i \in DOMAIN @ |-> SitedStmt(Append(at, i), @[i])]]
          [] s.k \in {"Handle", "Stage"} -> [t EXCEPT !.body = SitedStmt(Append(at, 1), @)]
          [] OTHER -> [t EXCEPT !.next = SitedStmt(Append(at, 1), @)]

Sited(p) == LET sited(s) == SitedStmt(<<>>, s) IN WithBodies(p, sited)
=============================================================================
