-------------------------------- MODULE Oracle --------------------------------
(***************************************************************************)
(* What a Core program means: the evaluator that the repository compares   *)
(* compiled programs with (cielo-runtime/tests/runtime_diff.rs).           *)
(*                                                                         *)
(* Evaluation returns [val, konts]: the value, or Stuck, and the           *)
(* continuations that performs have captured.  Each may be resumed once.   *)
(* An answer says what consumes the value of the statement: nothing        *)
(* (Yield), the return clause of a handler, the rest of a Val or a call,   *)
(* or the resume that entered a captured continuation.                     *)
(***************************************************************************)
EXTENDS Core

Stuck == -1

Done == [k |-> "Yield"]
Boundary(outer) == [k |-> "ResumeBoundary", outer |-> outer]
HandlerReturn(h, env, stack, outer) ==
    [k |-> "HandlerReturn", h |-> h, env |-> env, stack |-> stack, outer |-> outer]
Bind(x, next, env, stack, outer) ==
    [k |-> "Bind", bind |-> x, next |-> next, env |-> env, stack |-> stack, outer |-> outer]

(* A continuation that does not stop at its handler.                       *)
FaultyCaptured(ans, h) == ans

(* The part of an answer up to handler h, which then yields to a resume.   *)
RECURSIVE Captured(_, _)
Captured(ans, h) ==
    IF ans.k = "HandlerReturn" /\ ans.h = h THEN [ans EXCEPT !.outer = Boundary(@)]
    ELSE [ans EXCEPT !.outer = Captured(@, h)]

RECURSIVE Eval(_, _, _, _, _, _), Answer(_, _, _, _), EvalPerform(_, _, _, _, _, _),
          EvalResume(_, _, _, _, _, _)

Answer(p, val, ans, konts) ==
    CASE ans.k \in {"Yield", "ResumeBoundary"} -> [val |-> val, konts |-> konts]
      [] ans.k = "HandlerReturn" ->
           Eval(p, p.handlers[ans.h].ret, With(ans.env, p.handlers[ans.h].param, val), ans.stack,
                konts, ans.outer)
      [] ans.k = "Bind" ->
           Eval(p, ans.next, With(ans.env, ans.bind, val), ans.stack, konts, ans.outer)

Eval(p, s, env, stack, konts, ans) ==
    LET val == ValueOf(s.args[1], env)
    IN  CASE s.k = "Return" -> Answer(p, val, ans, konts)
          [] s.k = "Let" -> Eval(p, s.next, With(env, s.bind, val), stack, konts, ans)
          [] s.k = "Val" ->
               Eval(p, s.value, env, stack, konts, Bind(s.bind, s.next, env, stack, ans))
          [] s.k \in {"If", "Match"} ->
               Eval(p, s.arms[Selected(val, Len(s.arms))], env, stack, konts, ans)
          [] s.k = "Call" ->
               LET f == p.funcs[s.fn]
               IN  Eval(p, f.body,
                        WithAll(Empty, f.params, [i \in DOMAIN s.args |-> ValueOf(s.args[i], env)]),
                        stack, konts, Bind(s.bind, s.next, env, stack, ans))
          [] s.k = "Handle" ->
               Eval(p, s.body, env,
                    Append(stack, [h |-> s.handler, env |-> env, answer |-> ans]), konts,
                    HandlerReturn(s.handler, env, stack, ans))
          [] s.k = "Perform" -> EvalPerform(p, s, env, stack, konts, ans)
          [] s.k = "Resume" -> EvalResume(p, s, env, stack, konts, ans)

(* The innermost handler with a clause for the operation runs it in the    *)
(* scope of the handle, under the handlers around the handle.              *)
EvalPerform(p, s, env, stack, konts, ans) ==
    LET frames == {i \in DOMAIN stack : /\ p.handlers[stack[i].h].effect = s.eff
                                        /\ \E c \in Elems(p.handlers[stack[i].h].clauses) : c.op = s.op}
        i == CHOOSE j \in frames : \A m \in frames : m <= j
        c == CHOOSE d \in Elems(p.handlers[stack[i].h].clauses) : d.op = s.op
        kont == [env |-> env, stack |-> stack, next |-> s.next, bind |-> s.bind,
                 answer |-> Captured(ans, stack[i].h), used |-> FALSE]
        clauseEnv == WithAll(stack[i].env, c.params, [j \in DOMAIN s.args |-> ValueOf(s.args[j], env)])
    IN  IF frames = {} THEN [val |-> Stuck, konts |-> konts]
        ELSE Eval(p, c.body, With(clauseEnv, c.resume, Len(konts) + 1), SubSeq(stack, 1, i - 1),
                  Append(konts, kont), stack[i].answer)

EvalResume(p, s, env, stack, konts, ans) ==
    LET id == env[s.resume]
        kont == konts[id]
        r == Eval(p, kont.next, With(kont.env, kont.bind, ValueOf(s.args[1], env)), kont.stack,
                  [konts EXCEPT ![id].used = TRUE], kont.answer)
    IN  IF kont.used THEN [val |-> Stuck, konts |-> konts]
        ELSE IF r.val = Stuck THEN r
        ELSE Eval(p, s.next, With(env, s.bind, r.val), stack, r.konts, ans)

(* The value of main for an argument.                                      *)
Meaning(p, arg) ==
    Eval(p, p.funcs[1].body, [x \in Elems(p.funcs[1].params) |-> arg], <<>>, <<>>, Done).val
=============================================================================
