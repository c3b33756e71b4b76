--------------------------------- MODULE Core ---------------------------------
(***************************************************************************)
(* Core programs (cielo-ir/src/core.rs) as the back end receives them: no  *)
(* stage, hole or error is left.  A program is a record                    *)
(*                                                                         *)
(*   funcs    : its functions [params, body]; the first one is main        *)
(*   handlers : [effect, param, ret, clauses], where param and ret are the *)
(*              return clause and a clause is [op, params, resume, body]   *)
(*                                                                         *)
(* A statement is a tree.  Its binders are unique in the program, and so   *)
(* are its constants, so that a tree stands for its StmtId.  An expression *)
(* [base, vars] is any operator over the variables it reads: arithmetic,   *)
(* constructors and their layout make no difference to control.  The arms  *)
(* of a match bind nothing, and the last one is the default; a handle has  *)
(* no `next`, which is how cielo-lowering makes it (lib.rs:876).           *)
(***************************************************************************)
EXTENDS Operands, FiniteSets, TLC

NoVar == 0      \* an absent result, resume parameter or resume context

(* Finite maps, from the empty one.                                        *)
Empty == [x \in {} |-> 0]
With(f, x, v) == (x :> v) @@ f

RECURSIVE WithAll(_, _, _)
WithAll(f, xs, vs) ==
    IF xs = <<>> THEN f ELSE WithAll(With(f, Head(xs), Head(vs)), Tail(xs), Tail(vs))

Return(e)                == [k |-> "Return",  args |-> <<e>>]
Let(x, e, n)             == [k |-> "Let",     bind |-> x, args |-> <<e>>, next |-> n]
Val(x, s, n)             == [k |-> "Val",     bind |-> x, args |-> <<>>, value |-> s, next |-> n]
Call(x, f, as, n)        == [k |-> "Call",    bind |-> x, fn |-> f, args |-> as, next |-> n]
Perform(x, e, o, as, n)  == [k |-> "Perform", bind |-> x, eff |-> e, op |-> o, args |-> as,
                             next |-> n]
Resume(x, r, e, n)       == [k |-> "Resume",  bind |-> x, resume |-> r, args |-> <<e>>, next |-> n]
If(c, s, t)              == [k |-> "If",      args |-> <<c>>, arms |-> <<s, t>>]
Match(c, as)             == [k |-> "Match",   args |-> <<c>>, arms |-> as]
Handle(h, s)             == [k |-> "Handle",  handler |-> h, args |-> <<>>, body |-> s]

Binds(s) == s.k \in {"Let", "Val", "Call", "Perform", "Resume"}
Arms(s) == IF s.k \in {"If", "Match"} THEN Elems(s.arms) ELSE {}

Children(s) ==
    (IF Binds(s) THEN {s.next} ELSE {}) \cup Arms(s)
    \cup (IF s.k = "Val" THEN {s.value} ELSE {})
    \cup (IF s.k \in {"Handle", "Stage"} THEN {s.body} ELSE {})

(* A statement and what is below it; the clauses of its handlers are not.  *)
RECURSIVE Graph(_)
Graph(s) == {s} \cup UNION {Graph(t) : t \in Children(s)}

Reads(s) == UNION {Elems(e.vars) : e \in Elems(s.args)}

IsReturnOf(s, x) == s = Return(Var(x))

(* The bodies of a handler: of its return clause and its other clauses.    *)
ClauseBodies(h) == {h.ret} \cup {c.body : c \in Elems(h.clauses)}

(* The effects that running s may perform, through calls or directly.      *)
RECURSIVE EffectRow(_, _)
EffectRow(p, s) ==
    LET below == UNION {EffectRow(p, t) : t \in Children(s)}
    IN  CASE s.k = "Perform" -> below \cup {s.eff}
          [] s.k = "Call" -> below \cup EffectRow(p, p.funcs[s.fn].body)
          [] s.k = "Handle" ->
               (below \cup UNION {EffectRow(p, b) : b \in ClauseBodies(p.handlers[s.handler])})
                 \ {p.handlers[s.handler].effect}
          [] OTHER -> below

CallRow(p, s) == EffectRow(p, p.funcs[s.fn].body)
=============================================================================
