-------------------------------- MODULE Meaning -------------------------------
(***************************************************************************)
(* What a Core program means, stated without its compiler: handlers are    *)
(* deep and a resumption may be resumed once.  What is left to do is a     *)
(* stack of frames, the rest of a Val or of a call and the handlers that   *)
(* are in force; a perform cuts the stack at the handler that answers it,  *)
(* and resuming puts the cut part back on top of the rest of the clause.   *)
(***************************************************************************)
EXTENDS Core

Stuck == -1

Rest(x, next, env) == [k |-> "Rest", bind |-> x, next |-> next, env |-> env]
InForce(h, env) == [k |-> "InForce", h |-> h, env |-> env]

Answers(p, frame, s) ==
    /\ frame.k = "InForce"
    /\ p.handlers[frame.h].effect = s.eff
    /\ \E c \in Elems(p.handlers[frame.h].clauses) : c.op = s.op

ValuesOf(es, env) == [i \in DOMAIN es |-> ValueOf(es[i], env)]

RECURSIVE Run(_, _, _, _, _), Give(_, _, _, _)

(* Gives a value to what is left to do; cuts are the resumptions so far.   *)
Give(p, val, todo, cuts) ==
    IF todo = <<>> THEN val
    ELSE LET top == todo[Len(todo)]
             rest == SubSeq(todo, 1, Len(todo) - 1)
         IN  IF top.k = "Rest" THEN Run(p, top.next, With(top.env, top.bind, val), rest, cuts)
             ELSE Run(p, p.handlers[top.h].ret,
                      With(top.env, p.handlers[top.h].param, val), rest, cuts)

RunPerform(p, s, env, todo, cuts) ==
    LET is == {i \in DOMAIN todo : Answers(p, todo[i], s)}
        i == CHOOSE j \in is : \A m \in is : m <= j
        c == CHOOSE d \in Elems(p.handlers[todo[i].h].clauses) : d.op = s.op
        cut == [env |-> env, next |-> s.next, bind |-> s.bind, resumed |-> FALSE,
                todo |-> SubSeq(todo, i, Len(todo))]
        scope == WithAll(todo[i].env, c.params, ValuesOf(s.args, env))
    IN  IF is = {} THEN Stuck
        ELSE Run(p, c.body, With(scope, c.resume, Len(cuts) + 1), SubSeq(todo, 1, i - 1),
                 Append(cuts, cut))

RunResume(p, s, env, todo, cuts) ==
    LET id == env[s.resume]
        cut == cuts[id]
    IN  IF cut.resumed THEN Stuck
        ELSE Run(p, cut.next, With(cut.env, cut.bind, ValueOf(s.args[1], env)),
                 Append(todo, Rest(s.bind, s.next, env)) \o cut.todo,
                 [cuts EXCEPT ![id].resumed = TRUE])

Run(p, s, env, todo, cuts) ==
    CASE s.k = "Return" -> Give(p, ValueOf(s.args[1], env), todo, cuts)
      [] s.k = "Let" -> Run(p, s.next, With(env, s.bind, ValueOf(s.args[1], env)), todo, cuts)
      [] s.k = "Val" -> Run(p, s.value, env, Append(todo, Rest(s.bind, s.next, env)), cuts)
      [] s.k \in {"If", "Match"} ->
           Run(p, s.arms[Selected(ValueOf(s.args[1], env), Len(s.arms))], env, todo, cuts)
      [] s.k = "Call" ->
           Run(p, p.funcs[s.fn].body, WithAll(Empty, p.funcs[s.fn].params, ValuesOf(s.args, env)),
               Append(todo, Rest(s.bind, s.next, env)), cuts)
      [] s.k = "Handle" -> Run(p, s.body, env, Append(todo, InForce(s.handler, env)), cuts)
      [] s.k = "Perform" -> RunPerform(p, s, env, todo, cuts)
      [] s.k = "Resume" -> RunResume(p, s, env, todo, cuts)

(* The value of main for an argument.                                      *)
Meaning(p, arg) ==
    Run(p, p.funcs[1].body, WithAll(Empty, p.funcs[1].params, <<arg>>), <<>>, <<>>)
=============================================================================
