------------------------------ MODULE Specialize ------------------------------
(***************************************************************************)
(* Handler specialization (passes/handler_specialize.rs).  A handle around *)
(* nothing but a call gets a copy of the called function with the handler  *)
(* inside, and becomes a call of the copy.  The copies made so far are a   *)
(* function from [callee, shape] to the copy's number; two handlers have   *)
(* one shape when they differ in the names of variables alone.             *)
(*                                                                         *)
(* A copy keeps the variables of its original, as in the code.  The row of *)
(* a call that is put in place of a handle is the least one, where the     *)
(* code takes the row that the type checker gave the handle.               *)
(***************************************************************************)
EXTENDS Residualize, FunctionGraph

CONSTANTS MaxPerCallee,         \* MAX_SPECIALIZATIONS_PER_CALLEE
          MaxSpecializations    \* MAX_TOTAL_SPECIALIZATIONS
ASSUME LimitAssumption == MaxPerCallee \in Nat /\ MaxSpecializations \in Nat

NoCallee == 0

(* Whether a statement hands the variable x on and does nothing else.      *)
RECURSIVE ForwardsTail(_, _)
ForwardsTail(s, x) ==
    CASE s.k = "Return" -> s.args[1] = Get(x)
      [] s.k = "Let" -> s.args[1] = Get(x) /\ ForwardsTail(s.next, s.bind)
      [] s.k = "Val" -> ForwardsTail(s.value, x) /\ ForwardsTail(s.next, s.bind)
      [] s.k = "If" -> \A a \in Elems(s.arms) : ForwardsTail(a, x)
      [] s.k = "Match" -> HasDefault(s) /\ \A a \in Elems(s.arms) : ForwardsTail(a, x)
      [] s.k = "Stage" -> ForwardsTail(s.body, x)
      [] OTHER -> FALSE

(* The function that a statement calls on every path, in its tail.         *)
RECURSIVE WrapperCallee(_)
WrapperCallee(s) ==
    CASE s.k = "Call" -> s.fn
      [] s.k = "Let" -> WrapperCallee(s.next)
      [] s.k = "Val" /\ ForwardsTail(s.next, s.bind) -> WrapperCallee(s.value)
      [] s.k \in {"If", "Match"} ->
           LET callees == {WrapperCallee(a) : a \in Elems(s.arms)}
           IN  IF Cardinality(callees) = 1 THEN CHOOSE f \in callees : TRUE ELSE NoCallee
      [] s.k = "Stage" -> WrapperCallee(s.body)
      [] OTHER -> NoCallee

(* Variables are numbered in the order in which they are met; an arm of a  *)
(* match keeps its numbers to itself.                                      *)
Numbered(scope, xs) ==
    FoldLeft(LAMBDA known, x : IF x \in Elems(known) THEN known ELSE Append(known, x), scope, xs)
NumberOf(scope, x) == CHOOSE i \in DOMAIN scope : scope[i] = x

RECURSIVE VarSeq(_)
VarSeq(e) ==
    IF e.k = "Var" THEN <<e.var>>
    ELSE FlattenSeq([i \in DOMAIN e.args |-> VarSeq(e.args[i])])

OwnVars(s) ==
    (IF Binds(s) THEN <<s.bind>> ELSE <<>>)
    \o (IF s.k = "Resume" THEN <<s.resume>> ELSE <<>>)
    \o FlattenSeq([i \in DOMAIN s.args |-> VarSeq(s.args[i])])

RECURSIVE ShapeOfExpr(_, _), ScopeAfter(_, _), ShapeOfStmt(_, _)
ShapeOfExpr(scope, e) ==
    LET d == [e EXCEPT !.args = [i \in DOMAIN e.args |-> ShapeOfExpr(scope, e.args[i])]]
    IN  CASE e.k = "Var" -> Get(NumberOf(scope, e.var))
          [] e.k = "PureCall" -> [d EXCEPT !.site = <<>>]
          [] OTHER -> d

ScopeAfter(scope, s) ==
    LET own == Numbered(scope, OwnVars(s))
    IN  CASE s.k = "Return" -> own
          [] s.k = "Val" -> ScopeAfter(ScopeAfter(own, s.value), s.next)
          [] s.k = "If" -> ScopeAfter(ScopeAfter(own, s.arms[1]), s.arms[2])
          [] s.k = "Match" -> IF HasDefault(s) THEN ScopeAfter(own, Last(s.arms)) ELSE own
          [] s.k \in {"Handle", "Stage"} -> ScopeAfter(own, s.body)
          [] OTHER -> ScopeAfter(own, s.next)

ShapeOfArm(own, s, i) ==
    ShapeOfStmt(IF i \in DOMAIN s.pats THEN Numbered(own, s.pats[i].binders) ELSE own, s.arms[i])

ShapeOfPat(own, p) ==
    [p EXCEPT !.binders = [j \in DOMAIN p.binders |->
                             NumberOf(Numbered(own, p.binders), p.binders[j])]]

ShapeBelow(own, s) ==
    CASE s.k = "Return" -> s
      [] s.k = "Val" -> [s EXCEPT !.value = ShapeOfStmt(own, @),
                                  !.next = ShapeOfStmt(ScopeAfter(own, s.value), @)]
      [] s.k = "If" -> [s EXCEPT !.arms = <<ShapeOfStmt(own, @[1]),
                                            ShapeOfStmt(ScopeAfter(own, @[1]), @[2])>>]
      [] s.k = "Match" -> [s EXCEPT !.arms = [i \in DOMAIN @ |-> ShapeOfArm(own, s, i)],
                                    !.pats = [i \in DOMAIN @ |-> ShapeOfPat(own, @[i])]]
      [] s.k \in {"Handle", "Stage"} -> [s EXCEPT !.body = ShapeOfStmt(own, @)]
      [] OTHER -> [s EXCEPT !.next = ShapeOfStmt(own, @)]

ShapeOfStmt(scope, s) ==
    LET own == Numbered(scope, OwnVars(s))
        t == [ShapeBelow(own, s) EXCEPT
                !.args = [i \in DOMAIN s.args |-> ShapeOfExpr(own, s.args[i])]]
    IN  CASE s.k = "Resume" -> [t EXCEPT !.bind = NumberOf(own, @), !.resume = NumberOf(own, @)]
          [] Binds(s) -> [t EXCEPT !.bind = NumberOf(own, @)]
          [] OTHER -> t

ShapeOfClause(c) ==
    [op |-> c.op, arity |-> Len(c.params), resumes |-> c.resume # NoVar,
     body |-> ShapeOfStmt(c.params \o (IF c.resume = NoVar THEN <<>> ELSE <<c.resume>>), c.body)]

ShapeOfHandler(h) ==
    [effect |-> h.effect, ret |-> ShapeOfStmt(<<h.param>>, h.ret),
     clauses |-> [i \in DOMAIN h.clauses |-> ShapeOfClause(h.clauses[i])]]

(* The handles around a call, in the order in which the code meets them:   *)
(* function by function, the last child first.                             *)
RECURSIVE Wrappers(_)
Wrappers(s) ==
    LET below == Reverse(ChildSeq(s))
    IN  (IF s.k = "Handle" /\ WrapperCallee(s.body) # NoCallee THEN <<s>> ELSE <<>>)
        \o FlattenSeq([i \in DOMAIN below |-> Wrappers(below[i])])

CandidatesOf(p, f) ==
    LET ws == Wrappers(p.funcs[f].body)
    IN  [i \in DOMAIN ws |-> [inFn |-> f, handle |-> ws[i], callee |-> WrapperCallee(ws[i].body),
                              shape |-> ShapeOfHandler(p.handlers[ws[i].handler])]]

SpecializeCandidates(p) ==
    LET fs == SetToSortSeq(ReachableFunctions(p), <)
    IN  FlattenSeq([i \in DOMAIN fs |-> CandidatesOf(p, fs[i])])

(* The innermost handlers around the calls of f below a statement.         *)
RECURSIVE HandlersAround(_, _, _)
HandlersAround(s, f, nearest) ==
    (IF s.k = "Call" /\ s.fn = f THEN nearest ELSE {})
    \cup UNION {HandlersAround(t, f, IF s.k = "Handle" THEN {s.handler} ELSE nearest) :
                  t \in Children(s)}

(* Faulty: a recursive call under another handler is no obstacle. *)
FaultyHasVaryingRecursiveShapes(p, f, shape) == FALSE

HasVaryingRecursiveShapes(p, f, shape) ==
    \E h \in HandlersAround(p.funcs[f].body, f, {}) : ShapeOfHandler(p.handlers[h]) # shape

WithinLimits(made, f) ==
    /\ Cardinality(DOMAIN made) < MaxSpecializations
    /\ Cardinality({k \in DOMAIN made : k.callee = f}) < MaxPerCallee

(* The body of the callee, in which its calls of itself have become calls  *)
(* of the copy.                                                            *)
CopiedBody(p, f) ==
    LET retarget == [g \in DOMAIN p.funcs |-> IF g = f THEN Len(p.funcs) + 1 ELSE g]
    IN  RemapStmt(retarget, p.funcs[f].body)

(* A new function: the handler around that body.                           *)
SpecializedCopy(p, c) ==
    [p.funcs[c.callee] EXCEPT !.body = Handle(c.handle.handler, CopiedBody(p, c.callee))]

(* Makes the copy that a candidate asks for, unless there is one already   *)
(* or it is not to be.                                                     *)
EnsureSpecialized(p, made, c) ==
    LET key == [callee |-> c.callee, shape |-> c.shape]
        copied == [p EXCEPT !.funcs = Append(@, SpecializedCopy(p, c))]
    IN  IF \/ key \in DOMAIN made
           \/ HasVaryingRecursiveShapes(p, c.callee, c.shape)
           \/ ~WithinLimits(made, c.callee)
        THEN [p |-> p, made |-> made]
        ELSE [p |-> copied, made |-> With(made, key, Len(copied.funcs))]

(* The body of the handle, calling the copy f instead.                     *)
RECURSIVE Rewritten(_, _, _)
Rewritten(s, f, row) ==
    CASE s.k = "Call" -> [s EXCEPT !.fn = f, !.row = row]
      [] s.k = "Let" -> [s EXCEPT !.next = Rewritten(@, f, row)]
      [] s.k = "Val" -> [s EXCEPT !.value = Rewritten(@, f, row)]
      [] s.k \in {"If", "Match"} ->
           [s EXCEPT !.arms = [i \in DOMAIN @ |-> Rewritten(@[i], f, row)]]
      [] s.k = "Stage" -> [s EXCEPT !.body = Rewritten(@, f, row)]

RECURSIVE Replaced(_, _, _)
Replaced(s, old, new) ==
    CASE s = old -> new
      [] s.k = "Return" -> s
      [] s.k = "Val" -> [s EXCEPT !.value = Replaced(@, old, new), !.next = Replaced(@, old, new)]
      [] s.k \in {"If", "Match"} ->
           [s EXCEPT !.arms = [i \in DOMAIN @ |-> Replaced(@[i], old, new)]]
      [] s.k \in {"Handle", "Stage"} -> [s EXCEPT !.body = Replaced(@, old, new)]
      [] OTHER -> [s EXCEPT !.next = Replaced(@, old, new)]

(* A call of the copy in place of a handle, when there is a copy; q is     *)
(* [p, made].                                                              *)
CallOfCopy(p, handle, f) == Rewritten(handle.body, f, FunctionEffectSummary(p)[f])

RewriteDirectHandleCallsite(q, c, key) ==
    IF key \notin DOMAIN q.made THEN q
    ELSE [q EXCEPT !.p.funcs[c.inFn].body =
            Replaced(@, c.handle, CallOfCopy(q.p, c.handle, q.made[key]))]

(* One candidate: its copy, and the call in place of its handle.           *)
SpecializeHandle(p, made, c) ==
    RewriteDirectHandleCallsite(EnsureSpecialized(p, made, c), c,
                                [callee |-> c.callee, shape |-> c.shape])
=============================================================================
