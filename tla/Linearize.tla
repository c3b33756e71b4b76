------------------------------ MODULE Linearize -------------------------------
(***************************************************************************)
(* Core to linear statements (linearize/lowering.rs).  A handler is erased *)
(* by splicing its clauses and the continuations they resume into the      *)
(* handled body; what a call performs is left to a table of clauses that   *)
(* the runtime dispatches to.                                              *)
(*                                                                         *)
(* The operators thread the state of the lowering:                         *)
(*                                                                         *)
(*   lin    : the arena of linear statements; an id is a position in it    *)
(*   done   : the id of each Core statement lowered outside of handlers    *)
(*   fresh  : the next variable                                            *)
(*   labels : how many labels each resumption has handed out               *)
(*   errors : the diagnostics that refuse the program                      *)
(*                                                                         *)
(* and return it with the id of the statement they made.                   *)
(***************************************************************************)
EXTENDS Resumes

CONSTANTS
    InlineBudget,       \* HANDLER_INLINE_STMT_BUDGET
    Thunkable           \* effects declared so that a call may be delayed: is_thunkable

NoResumption == 0

(* What a return answers to: the statement it is lowered to, the return    *)
(* clause of the handler, or the rest of an enclosing Val.                 *)
Yield == [k |-> "Yield"]
HandlerReturn == [k |-> "HandlerReturn"]
Bind(x, next, ctx, outer) ==
    [k |-> "Bind", bind |-> x, next |-> next, ctx |-> ctx, outer |-> outer]

(* The clause that is being spliced, and within which clause.              *)
NoCtx == [resume |-> NoVar]

Push(st, node) ==
    [st |-> [st EXCEPT !.lin = Append(@, node)], id |-> Len(st.lin) + 1]
Fail(st, error) == [st EXCEPT !.errors = @ \cup {error}]

LReturn(e) == [k |-> "Return", args |-> <<e>>]
LLet(x, e, n) == [k |-> "Let", bind |-> x, args |-> <<e>>, next |-> n]
LVal(x, v, n) == [k |-> "Val", bind |-> x, args |-> <<>>, value |-> v, next |-> n]
LError == [k |-> "Error", args |-> <<>>]
LCall(p, s, n) ==
    [k |-> "Call", bind |-> s.bind, fn |-> s.fn, args |-> s.args, next |-> n,
     convention |-> CASE CallRow(p, s) = {} -> "Pure"
                      [] ~ CallRow(p, s) \subseteq Thunkable -> "Control"
                      [] OTHER -> "Direct"]

(* Binds a result that the program discards.                               *)
Named(st, x) ==
    IF x # NoVar THEN [st |-> st, var |-> x]
    ELSE [st |-> [st EXCEPT !.fresh = @ + 1], var |-> st.fresh]

LChildren(lin, i) ==
    LET s == lin[i]
    IN  (IF s.k \in {"Let", "Val", "Call", "Perform", "ResumeJump"} THEN {s.next} ELSE {})
        \cup (IF s.k = "Val" THEN {s.value} ELSE {})
        \cup (IF s.k \in {"If", "Match"} THEN Elems(s.arms) ELSE {})
        \cup (IF s.k = "Handle" THEN {s.body} \cup {c.body : c \in Elems(s.clauses)} ELSE {})
        \cup (IF s.k = "Resumption" THEN {s.clause, s.next} ELSE {})

RECURSIVE LContains(_, _, _)
LContains(lin, i, eff) ==
    \/ lin[i].k = "Perform" /\ lin[i].eff = eff
    \/ \E j \in LChildren(lin, i) : LContains(lin, j, eff)

ClausesFor(h, op) == SelectSeq(h.clauses, LAMBDA c : c.op = op)

(* The innermost of the enclosing handlers hs for an effect.               *)
Answering(p, hs, eff) ==
    LET is == {i \in DOMAIN hs : p.handlers[hs[i]].effect = eff}
    IN  p.handlers[hs[CHOOSE i \in is : \A j \in is : j <= i]]

EffectsOf(p, hs) == {p.handlers[h].effect : h \in Elems(hs)}

RECURSIVE Lower(_, _, _), LowerArms(_, _, _, _), Under(_, _, _, _, _, _),
          UnderArms(_, _, _, _, _, _, _), BindParams(_, _, _), TailBody(_, _, _, _),
          TailArms(_, _, _, _, _), Residual(_, _, _, _, _), Installed(_, _, _, _)

-----------------------------------------------------------------------------
(* Outside of handlers: lower_stmt.                                        *)

Memo(s, r) == [r EXCEPT !.st.done = With(@, s, r.id)]

Lower(p, s, st) ==
    IF s \in DOMAIN st.done THEN [st |-> st, id |-> st.done[s]]
    ELSE Memo(s,
      CASE s.k = "Return" -> Push(st, s)
        [] s.k \in {"Let", "Perform"} ->
             LET n == Lower(p, s.next, st) IN Push(n.st, [s EXCEPT !.next = n.id])
        [] s.k = "Call" -> LET n == Lower(p, s.next, st) IN Push(n.st, LCall(p, s, n.id))
        [] s.k = "Val" ->
             LET v == Lower(p, s.value, st)
                 n == Lower(p, s.next, v.st)
             IN  Push(n.st, LVal(s.bind, v.id, n.id))
        [] s.k \in {"If", "Match"} ->
             LET as == LowerArms(p, s.arms, <<>>, st) IN Push(as.st, [s EXCEPT !.arms = as.ids])
        [] s.k = "Resume" -> Lower(p, s.next, Fail(st, "ResumeOutsideHandler"))
        [] s.k = "Handle" ->
             LET h == p.handlers[s.handler]
             IN  IF h.effect \notin EffectRow(p, s.body) /\ IsReturnOf(h.ret, h.param)
                 THEN Lower(p, s.body, st)
                 ELSE Installed(p, s, h, Under(p, s.body, <<s.handler>>, st, NoCtx, HandlerReturn)))

LowerArms(p, arms, ids, st) ==
    IF Len(ids) = Len(arms) THEN [st |-> st, ids |-> ids]
    ELSE LET a == Lower(p, arms[Len(ids) + 1], st)
         IN  LowerArms(p, arms, Append(ids, a.id), a.st)

(* The lowered body of a handle, below a handler if the runtime needs one. *)
Installed(p, s, h, body) ==
    IF CallsPerforming(p, s.body, h.effect) \/ LContains(body.st.lin, body.id, h.effect)
    THEN Residual(p, h, 1, <<>>, body)
    ELSE body

(* The table of clauses for a handler, or none at all.                     *)
Residual(p, h, i, clauses, body) ==
    IF i > Len(h.clauses)
    THEN Push(body.st, [k |-> "Handle", args |-> <<>>, eff |-> h.effect, clauses |-> clauses,
                        body |-> body.id])
    ELSE LET c == h.clauses[i]
         IN  IF Blockers(p, h, c) # {}
             THEN [body EXCEPT !.st = Fail(@, "HandledEffectLeak")]
             ELSE LET t == TailBody(p, c.body, c.resume, body.st)
                  IN  Residual(p, h, i + 1,
                               Append(clauses, [op |-> c.op, params |-> c.params, body |-> t.id]),
                               [body EXCEPT !.st = t.st])

(* A clause that returns the argument of its resumption.                   *)
TailBody(p, s, r, st) ==
    CASE s.k = "Resume" /\ s.resume = r -> Push(st, LReturn(s.args[1]))
      [] s.k = "Let" ->
           LET n == TailBody(p, s.next, r, st) IN Push(n.st, [s EXCEPT !.next = n.id])
      [] s.k = "Val" ->
           IF IsReturnOf(s.next, s.bind) THEN TailBody(p, s.value, r, st)
           ELSE LET v == Lower(p, s.value, st)
                    n == TailBody(p, s.next, r, v.st)
                IN  Push(n.st, LVal(s.bind, v.id, n.id))
      [] s.k \in {"If", "Match"} ->
           LET as == TailArms(p, s.arms, r, <<>>, st) IN Push(as.st, [s EXCEPT !.arms = as.ids])
      [] OTHER -> Lower(p, s, st)

TailArms(p, arms, r, ids, st) ==
    IF Len(ids) = Len(arms) THEN [st |-> st, ids |-> ids]
    ELSE LET a == TailBody(p, arms[Len(ids) + 1], r, st)
         IN  TailArms(p, arms, r, Append(ids, a.id), a.st)

-----------------------------------------------------------------------------
(* Inside of the handlers hs, the innermost last: lower_stmt_under_handlers.*)

(* Feeds the value of r, which has answered something else, to ans.        *)
JoinAnswer(p, r, hs, ans) ==
    IF ans.k # "Bind" THEN r
    ELSE LET n == Under(p, ans.next, hs, r.st, ans.ctx, ans.outer)
         IN  Push(n.st, LVal(ans.bind, r.id, n.id))

UnderReturn(p, s, hs, st, ans) ==
    LET h == p.handlers[hs[Len(hs)]]
        n == IF ans.k = "Bind" THEN Under(p, ans.next, hs, st, ans.ctx, ans.outer)
             ELSE Lower(p, h.ret, st)
    IN  CASE ans.k = "Yield" -> Push(st, s)
          [] ans.k = "HandlerReturn" -> Push(n.st, LLet(h.param, s.args[1], n.id))
          [] ans.k = "Bind" -> Push(n.st, LLet(ans.bind, s.args[1], n.id))

(* The clause with its parameters bound: lower_matching_clause.            *)
Spliced(p, c, args, hs, st, ctx) ==
    LET body == Under(p, c.body, hs, st, ctx, Yield)
    IN  BindParams(c.params, args, body)

BindParams(params, args, r) ==
    IF params = <<>> THEN r
    ELSE LET n == BindParams(Tail(params), Tail(args), r)
         IN  Push(n.st, LLet(Head(params), Head(args), n.id))

(* What a clause does to the state before it is spliced.                   *)
Opened(c, policy, st) ==
    LET st1 == IF Qualifier(c) = "Multi" THEN Fail(st, "MultiShotResume") ELSE st
    IN  IF policy = "Defunctionalise" THEN [st1 EXCEPT !.labels = Append(@, 0)] ELSE st1

(* The context in which clause c of a perform s resumes.                   *)
ContextOf(s, c, policy, st, ctx, ans) ==
    IF c.resume = NoVar THEN NoCtx
    ELSE [resume |-> c.resume, result |-> s.bind, next |-> s.next, answer |-> ans,
          convention |-> Convention(c), policy |-> policy, outer |-> ctx,
          resumption |-> IF policy = "Defunctionalise" THEN Len(st.labels) ELSE NoResumption]

(* The clause and, with more than one resume, one copy of what follows.    *)
PerformBy(p, s, hs, clause, policy, ctx, ans) ==
    LET shared == policy = "Defunctionalise"
        next == Under(p, s.next, hs, clause.st, IF shared THEN ctx ELSE NoCtx, ans)
        x == Named(next.st, s.bind)
    IN  CASE policy = "Inline" -> clause
          [] policy = "Join" -> Push(x.st, LVal(x.var, clause.id, next.id))
          [] policy = "Defunctionalise" ->
               Push(x.st, [k |-> "Resumption", args |-> <<>>, clause |-> clause.id, bind |-> x.var,
                           next |-> next.id, resumption |-> clause.resumption])

SplicedBy(p, s, hs, c, policy, st, ctx, ans) ==
    PerformBy(p, s, hs,
              Spliced(p, c, s.args, hs, st, ContextOf(s, c, policy, st, ctx, ans))
                @@ [resumption |-> Len(st.labels)],
              policy, ctx, ans)

UnderPerform(p, s, hs, st, ctx, ans) ==
    LET c == ClausesFor(Answering(p, hs, s.eff), s.op)[1]
        policy == ErasePolicy(p, c)
    IN  SplicedBy(p, s, hs, c, policy, Opened(c, policy, st), ctx, ans)

UnderResume(p, s, hs, st, ctx, ans) ==
    CASE ctx.resume # s.resume ->
           Under(p, s.next, hs, Fail(st, "ResumeOutsideClause"), ctx, ans)
      [] ctx.resume = s.resume /\ ctx.policy = "Join" -> Push(st, LReturn(s.args[1]))
      [] ctx.resume = s.resume /\ ctx.policy = "Defunctionalise" ->
           LET label == st.labels[ctx.resumption]
               n == Under(p, s.next, hs, [st EXCEPT !.labels[ctx.resumption] = @ + 1], NoCtx, ans)
           IN  Push(n.st, [k |-> "ResumeJump", args |-> s.args, bind |-> s.bind,
                           resumption |-> ctx.resumption, label |-> label, next |-> n.id])
      [] ctx.resume = s.resume /\ ctx.policy = "Inline" ->
           LET c == Under(p, ctx.next, hs, st, ctx.outer, ctx.answer)
               resumed == IF ctx.result = NoVar THEN c
                          ELSE Push(c.st, LLet(ctx.result, s.args[1], c.id))
               inTail == IsReturnOf(s.next, s.bind)
               direct == ctx.convention = "Direct"
               st1 == IF direct /\ ~inTail THEN Fail(resumed.st, "DirectResumeNonTail")
                      ELSE resumed.st
               n == Under(p, s.next, hs, st1, NoCtx, ans)
           IN  IF direct /\ inTail /\ ans.k # "Bind" THEN resumed
               ELSE Push(n.st, LVal(s.bind, resumed.id, n.id))

UnderVal(p, s, hs, st, ctx, ans) ==
    IF Splices(s.value, EffectsOf(p, hs), ctx.resume)
    THEN Under(p, s.value, hs, st, ctx, Bind(s.bind, s.next, ctx, ans))
    ELSE LET v == Under(p, s.value, hs, st, ctx, Yield)
             n == Under(p, s.next, hs, v.st, ctx, ans)
         IN  Push(n.st, LVal(s.bind, v.id, n.id))

Under(p, s, hs, st, ctx, ans) ==
    CASE Len(st.lin) > InlineBudget -> Push(Fail(st, "InlineBudgetExceeded"), LError)
      [] OTHER ->
           CASE s.k = "Return" -> UnderReturn(p, s, hs, st, ans)
             [] s.k = "Perform" /\ s.eff \in EffectsOf(p, hs) ->
                  IF ClausesFor(Answering(p, hs, s.eff), s.op) = <<>>
                  THEN Under(p, s.next, hs, Fail(st, "MissingHandlerClause"), ctx, ans)
                  ELSE UnderPerform(p, s, hs, st, ctx, ans)
             [] s.k = "Resume" -> UnderResume(p, s, hs, st, ctx, ans)
             [] s.k = "Val" -> UnderVal(p, s, hs, st, ctx, ans)
             [] s.k = "Let" \/ (s.k = "Perform" /\ s.eff \notin EffectsOf(p, hs)) ->
                  LET n == Under(p, s.next, hs, st, ctx, ans)
                  IN  Push(n.st, [s EXCEPT !.next = n.id])
             [] s.k = "Call" ->
                  LET n == Under(p, s.next, hs, st, ctx, ans) IN Push(n.st, LCall(p, s, n.id))
             [] s.k \in {"If", "Match"} ->
                  LET as == UnderArms(p, s.arms, hs, <<>>, st, ctx, ans)
                  IN  Push(as.st, [s EXCEPT !.arms = as.ids])
             [] s.k = "Handle" ->
                  JoinAnswer(p, Under(p, s.body, Append(hs, s.handler), st, ctx, HandlerReturn),
                             hs, ans)

UnderArms(p, arms, hs, ids, st, ctx, ans) ==
    IF Len(ids) = Len(arms) THEN [st |-> st, ids |-> ids]
    ELSE LET a == Under(p, arms[Len(ids) + 1], hs, st, ctx, ans)
         IN  UnderArms(p, arms, hs, Append(ids, a.id), a.st, ctx, ans)

-----------------------------------------------------------------------------
(* lower_program, for a program whose functions are all reachable.         *)

AllVars(p) ==
    LET bodies == {f.body : f \in Elems(p.funcs)} \cup UNION {ClauseBodies(h) : h \in Elems(p.handlers)}
        clauses == UNION {Elems(h.clauses) : h \in Elems(p.handlers)}
        stmts == UNION {Graph(b) : b \in bodies}
    IN  UNION {Reads(s) : s \in stmts} \cup {s.bind : s \in {t \in stmts : Binds(t)}}
        \cup UNION {Elems(f.params) : f \in Elems(p.funcs)} \cup {h.param : h \in Elems(p.handlers)}
        \cup UNION {Elems(c.params) \cup {c.resume} : c \in clauses}

RECURSIVE LowerFunctions(_, _, _)
LowerFunctions(p, functions, st) ==
    IF Len(functions) = Len(p.funcs) THEN [st |-> st, functions |-> functions]
    ELSE LET f == p.funcs[Len(functions) + 1]
             body == Lower(p, f.body, st)
         IN  LowerFunctions(p, Append(functions, [params |-> f.params, body |-> body.id]), body.st)

FirstFresh(vars) == 1 + CHOOSE x \in vars : \A y \in vars : y <= x

LinearOf(result) ==
    [lin |-> result.st.lin, functions |-> result.functions, errors |-> result.st.errors]

Linear(p) ==
    LinearOf(LowerFunctions(p, <<>>,
               [lin |-> <<>>, done |-> Empty, labels |-> <<>>, errors |-> {},
                fresh |-> FirstFresh(AllVars(p))]))
=============================================================================
