---------------------------- MODULE StagingMeaning ----------------------------
(***************************************************************************)
(* What a program means before, between and after the staging passes: its  *)
(* value and what it prints, or a trap.  Integers are words of the C       *)
(* runtime, whose arithmetic traps instead of wrapping (cielo_runtime.h).  *)
(* Handlers are as in Meaning: deep, and a resumption is resumed once.  A  *)
(* call whose effect row does not name an effect that is performed out of  *)
(* it gets no evidence for it, so such a perform is stuck.                 *)
(***************************************************************************)
EXTENDS StagingCore

CONSTANT WordBits   \* the width of an integer, 64 in the C runtime
ASSUME WordAssumption == WordBits \in Nat \ {0}

Trap  == [t |-> "Trap", n |-> 0]
Stuck == [t |-> "Stuck", n |-> 0]

MaxWord == 2 ^ (WordBits - 1) - 1
MinWord == -MaxWord - 1
InWord(n) == MinWord <= n /\ n <= MaxWord

(* Division that rounds to zero, as that of C and of Rust does.            *)
Magnitude(n) == IF n < 0 THEN -n ELSE n
Quotient(a, b) ==
    LET q == Magnitude(a) \div Magnitude(b) IN IF (a < 0) = (b < 0) THEN q ELSE -q
Remainder(a, b) == a - b * Quotient(a, b)

Checked(n) == IF InWord(n) THEN Int_(n) ELSE Trap

RunUnary(o, v) ==
    CASE o = "neg" -> Checked(-v.n)
      [] o = "not" -> Bool(v.n = 0)

RunBinary(o, a, b) ==
    CASE o = "add" -> Checked(a.n + b.n)
      [] o = "sub" -> Checked(a.n - b.n)
      [] o = "mul" -> Checked(a.n * b.n)
      [] o = "div" -> IF b.n = 0 THEN Trap ELSE Checked(Quotient(a.n, b.n))
      [] o = "mod" -> IF b.n = 0 THEN Trap ELSE Int_(Remainder(a.n, b.n))
      [] o = "lt"  -> Bool(a.n < b.n)
      [] o = "eq"  -> Bool(a = b)

Result(v, out) == [v |-> v, out |-> out]
Failed(r) == r.v \in {Trap, Stuck}

(* What is left to do: the rest of a Val, of a resume or of a call, and    *)
(* the handlers in force.                                                  *)
Rest(x, next, env) == [k |-> "Rest", bind |-> x, next |-> next, env |-> env]
Called(s, env) == [k |-> "Called", bind |-> s.bind, next |-> s.next, env |-> env, row |-> s.row]
InForce(h, env) == [k |-> "InForce", h |-> h, env |-> env]

Answers(p, frame, s) ==
    /\ frame.k = "InForce"
    /\ p.handlers[frame.h].effect = s.eff
    /\ \E c \in Elems(p.handlers[frame.h].clauses) : c.op = s.op

(* An effect leaves only a call whose row has it.                          *)
LetsOut(frame, eff) == frame.k = "Called" => eff \in frame.row

RECURSIVE Eval(_, _, _, _), EvalAll(_, _, _, _, _), Run(_, _, _, _, _, _), Give(_, _, _, _, _)

Enter(p, f, vs, out) ==
    Run(p, p.funcs[f].body, WithAll(Empty, p.funcs[f].params, vs), <<>>, <<>>, out)

(* The values of expressions, from left to right.                          *)
EvalAll(p, es, env, vs, out) ==
    IF es = <<>> THEN [vs |-> vs, v |-> Unit, out |-> out]
    ELSE LET r == Eval(p, Head(es), env, out)
         IN  IF Failed(r) THEN [vs |-> vs, v |-> r.v, out |-> r.out]
             ELSE EvalAll(p, Tail(es), env, Append(vs, r.v), r.out)

Apply(p, e, vs, out) ==
    CASE e.k = "Unary" -> Result(RunUnary(e.op, vs[1]), out)
      [] e.k = "Binary" -> Result(RunBinary(e.op, vs[1], vs[2]), out)
      [] e.k = "MakeEnum" -> Result([t |-> "Enum", n |-> e.tag, fields |-> vs], out)
      [] e.k = "MakeClosure" -> Result([t |-> "Fn", n |-> e.fn, fields |-> vs], out)
      [] e.k = "CallClosure" -> Enter(p, vs[1].n, vs[1].fields \o Tail(vs), out)
      [] e.k = "PureCall" -> Enter(p, e.fn, vs, out)
      [] e.k = "BuiltinCall" -> Result(Unit, IF e.name = "print" THEN out \o vs ELSE out)

Eval(p, e, env, out) ==
    CASE e.k = "Lit" -> Result(e.lit, out)
      [] e.k = "Var" -> Result(IF e.var \in DOMAIN env THEN env[e.var] ELSE Stuck, out)
      [] OTHER -> LET as == EvalAll(p, e.args, env, <<>>, out)
                  IN  IF Failed(as) THEN Result(as.v, as.out) ELSE Apply(p, e, as.vs, as.out)

(* Gives a value to what is left to do; cuts are the resumptions so far.   *)
Give(p, v, todo, cuts, out) ==
    IF todo = <<>> THEN Result(v, out)
    ELSE LET top == Last(todo)
         IN  IF top.k = "InForce"
             THEN Run(p, p.handlers[top.h].ret, With(top.env, p.handlers[top.h].param, v),
                      Front(todo), cuts, out)
             ELSE Run(p, top.next, With(top.env, top.bind, v), Front(todo), cuts, out)

RunPerform(p, s, vs, env, todo, cuts, out) ==
    LET is == {i \in DOMAIN todo : Answers(p, todo[i], s)}
        i == CHOOSE j \in is : \A m \in is : m <= j
        c == CHOOSE d \in Elems(p.handlers[todo[i].h].clauses) : d.op = s.op
        cut == [env |-> env, next |-> s.next, bind |-> s.bind, resumed |-> FALSE,
                todo |-> SubSeq(todo, i, Len(todo))]
        scope == WithAll(todo[i].env, c.params, vs)
    IN  IF is = {} \/ \E j \in DOMAIN todo : j > i /\ ~LetsOut(todo[j], s.eff)
        THEN Result(Stuck, out)
        ELSE Run(p, c.body, With(scope, c.resume, Int_(Len(cuts) + 1)), SubSeq(todo, 1, i - 1),
                 Append(cuts, cut), out)

RunResume(p, s, vs, env, todo, cuts, out) ==
    LET id == env[s.resume].n
        cut == cuts[id]
    IN  IF cut.resumed THEN Result(Stuck, out)
        ELSE Run(p, cut.next, With(cut.env, cut.bind, vs[1]),
                 Append(todo, Rest(s.bind, s.next, env)) \o cut.todo,
                 [cuts EXCEPT ![id].resumed = TRUE], out)

RunMatch(p, s, v, env, todo, cuts, out) ==
    LET i == ArmOf(s, v.n)
        bound == IF i <= Len(s.pats) THEN WithAll(env, s.pats[i].binders, v.fields) ELSE env
    IN  Run(p, s.arms[i], bound, todo, cuts, out)

RunStmt(p, s, vs, env, todo, cuts, out) ==
    CASE s.k = "Return" -> Give(p, vs[1], todo, cuts, out)
      [] s.k = "Let" -> Run(p, s.next, With(env, s.bind, vs[1]), todo, cuts, out)
      [] s.k = "Val" -> Run(p, s.value, env, Append(todo, Rest(s.bind, s.next, env)), cuts, out)
      [] s.k = "If" -> Run(p, s.arms[2 - vs[1].n], env, todo, cuts, out)
      [] s.k = "Match" -> RunMatch(p, s, vs[1], env, todo, cuts, out)
      [] s.k = "Call" ->
           Run(p, p.funcs[s.fn].body, WithAll(Empty, p.funcs[s.fn].params, vs),
               Append(todo, Called(s, env)), cuts, out)
      [] s.k = "Handle" -> Run(p, s.body, env, Append(todo, InForce(s.handler, env)), cuts, out)
      [] s.k = "Stage" -> Run(p, s.body, env, todo, cuts, out)
      [] s.k = "Perform" -> RunPerform(p, s, vs, env, todo, cuts, out)
      [] s.k = "Resume" -> RunResume(p, s, vs, env, todo, cuts, out)

Run(p, s, env, todo, cuts, out) ==
    LET as == EvalAll(p, s.args, env, <<>>, out)
    IN  IF Failed(as) THEN Result(as.v, as.out)
        ELSE RunStmt(p, s, as.vs, env, todo, cuts, as.out)

(* The value and the output of main for an argument.                       *)
Meaning(p, arg) == Enter(p, 1, <<arg>>, <<>>)
=============================================================================
