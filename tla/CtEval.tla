-------------------------------- MODULE CtEval --------------------------------
(***************************************************************************)
(* Compile-time evaluation (passes/ct_common.rs, passes/ct_eval.rs).  The  *)
(* cache maps an expression to its value; an expression whose tree is the  *)
(* same has the same value, so the cache is keyed by trees.  Literals and  *)
(* operators come first, then calls of pure functions, pass after pass,    *)
(* for as long as a pass adds one.                                         *)
(***************************************************************************)
EXTENDS StagingMeaning

CONSTANT TargetBits,    \* the word size of the target
         MaxCallDepth   \* MAX_CALL_EVAL_DEPTH
ASSUME TargetAssumption == TargetBits \in 1 .. WordBits /\ MaxCallDepth \in Nat

(* Keeps the low bits of a number, the topmost of them the sign.           *)
NormalizeInt(n) ==
    LET m == n % 2 ^ TargetBits IN IF m < 2 ^ (TargetBits - 1) THEN m ELSE m - 2 ^ TargetBits

NormalizeLiteral(v) == IF v.t = "Int" THEN Int_(NormalizeInt(v.n)) ELSE v

(* Faulty: a result that overflows wraps. *)
FaultyFoldedInt(n) == Int_(NormalizeInt(n))

(* Folds a result that fits a host word; one that does not is left to trap. *)
FoldedInt(n) == IF InWord(n) THEN Int_(NormalizeInt(n)) ELSE None

EvalUnary(o, v) ==
    CASE o = "neg" /\ v.t = "Int" -> FoldedInt(-v.n)
      [] o = "not" /\ v.t = "Bool" -> Bool(v.n = 0)
      [] OTHER -> None

EvalIntArith(o, l, r) ==
    CASE o = "add" -> FoldedInt(l + r)
      [] o = "sub" -> FoldedInt(l - r)
      [] o = "mul" -> FoldedInt(l * r)
      [] o = "div" /\ r # 0 -> FoldedInt(Quotient(l, r))
      [] o = "mod" /\ r # 0 -> FoldedInt(Remainder(l, r))
      [] OTHER -> None

EvalBinary(o, l, r) ==
    CASE l.t = "Int" /\ r.t = "Int" /\ o = "lt" -> Bool(NormalizeInt(l.n) < NormalizeInt(r.n))
      [] l.t = r.t /\ l # None /\ o = "eq" -> Bool(NormalizeLiteral(l) = NormalizeLiteral(r))
      [] l.t = "Int" /\ r.t = "Int" -> EvalIntArith(o, NormalizeInt(l.n), NormalizeInt(r.n))
      [] OTHER -> None

(* What is known of an expression by its operands alone (compute_ct_cache). *)
RECURSIVE BaseValue(_)
BaseValue(e) ==
    CASE e.k = "Lit" -> NormalizeLiteral(e.lit)
      [] e.k = "Unary" -> EvalUnary(e.op, BaseValue(e.args[1]))
      [] e.k = "Binary" -> EvalBinary(e.op, BaseValue(e.args[1]), BaseValue(e.args[2]))
      [] OTHER -> None

BaseCache(p) ==
    LET base == {e \in ExprsOf(p) : BaseValue(e) # None} IN [e \in base |-> BaseValue(e)]

RECURSIVE CallValue(_, _, _, _, _), StmtValue(_, _, _, _, _), ExprValue(_, _, _, _, _)

ArgValues(p, cache, es, env, stack) == [i \in DOMAIN es |-> ExprValue(p, cache, es[i], env, stack)]

(* A call of f, unless it has effects or is already being evaluated.       *)
CallValue(p, cache, f, vs, stack) ==
    IF \/ f \notin DOMAIN p.funcs
       \/ p.funcs[f].effects # {}
       \/ Len(p.funcs[f].params) # Len(vs)
       \/ None \in Elems(vs)
       \/ f \in Elems(stack)
       \/ Len(stack) >= MaxCallDepth
    THEN None
    ELSE StmtValue(p, cache, p.funcs[f].body, WithAll(Empty, p.funcs[f].params, vs),
                   Append(stack, f))

(* A value bound to x in front of a statement.                             *)
BoundValue(p, cache, v, x, s, env, stack) ==
    IF v = None THEN None ELSE StmtValue(p, cache, s, With(env, x, v), stack)

StmtValue(p, cache, s, env, stack) ==
    LET value(e) == ExprValue(p, cache, e, env, stack)
    IN  CASE s.k = "Return" -> value(s.args[1])
          [] s.k = "Let" -> BoundValue(p, cache, value(s.args[1]), s.bind, s.next, env, stack)
          [] s.k = "Val" -> BoundValue(p, cache, StmtValue(p, cache, s.value, env, stack),
                                       s.bind, s.next, env, stack)
          [] s.k = "If" -> LET c == value(s.args[1])
                           IN  IF c.t = "Bool" THEN StmtValue(p, cache, s.arms[2 - c.n], env, stack)
                               ELSE None
          [] s.k = "Stage" /\ s.directive = "comptime" -> StmtValue(p, cache, s.body, env, stack)
          [] OTHER -> None

ExprValue(p, cache, e, env, stack) ==
    CASE e \in DOMAIN cache -> cache[e]
      [] e.k = "Lit" -> NormalizeLiteral(e.lit)
      [] e.k = "Var" -> IF e.var \in DOMAIN env THEN env[e.var] ELSE None
      [] e.k = "Unary" -> EvalUnary(e.op, ExprValue(p, cache, e.args[1], env, stack))
      [] e.k = "Binary" -> LET vs == ArgValues(p, cache, e.args, env, stack)
                           IN  EvalBinary(e.op, vs[1], vs[2])
      [] e.k = "PureCall" ->
           CallValue(p, cache, e.fn, ArgValues(p, cache, e.args, env, stack), stack)
      [] OTHER -> None

(* The value of a call whose arguments are all in the cache.               *)
KnownCall(p, cache, e) ==
    IF e.k = "PureCall" /\ Elems(e.args) \subseteq DOMAIN cache
    THEN CallValue(p, cache, e.fn, [i \in DOMAIN e.args |-> cache[e.args[i]]], <<>>)
    ELSE None

(* One pass of fold_known_pure_calls over the expressions.                 *)
FoldKnownPureCalls(p, cache) ==
    LET new == {e \in ExprsOf(p) \ DOMAIN cache : KnownCall(p, cache, e) # None}
    IN  cache @@ [e \in new |-> KnownCall(p, cache, e)]
=============================================================================
