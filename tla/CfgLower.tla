------------------------------- MODULE CfgLower -------------------------------
(***************************************************************************)
(* Linear statements to blocks (cfg_lower.rs), and the conditions under    *)
(* which the result is valid (cfg.rs).                                     *)
(*                                                                         *)
(* A block is [params, insts, term]; values are numbered from 1, and a     *)
(* variable without a binding in scope is the value Unbound.  An operand   *)
(* is an expression over values.  A terminator has its successors in succ  *)
(* and their number of arguments in arity.                                 *)
(*                                                                         *)
(* The state of the lowering:                                              *)
(*   blocks, values, regions : what has been made                          *)
(*   memo    : the block of a statement, an exit and what it sees in scope *)
(*   clauses : residual clauses [handler, op, params, entry], whose        *)
(*             functions come after those of the program                   *)
(*   open    : resumptions whose clause is being lowered, each with its    *)
(*             entry, the value it resumes with and its arms               *)
(***************************************************************************)
EXTENDS Linearize, Regions

Unbound == 0

ExitReturn == [k |-> "Return"]
ExitYield(b) == [k |-> "Yield", to |-> b]

In(scope, e) ==
    Op(e.base, [i \in DOMAIN e.vars |->
                  IF e.vars[i] \in DOMAIN scope THEN scope[e.vars[i]] ELSE Unbound])
InAll(scope, es) == [i \in DOMAIN es |-> In(scope, es[i])]

Values(c, n) == [i \in 1 .. n |-> c.values + i]
Make(c, n) == [c EXCEPT !.values = @ + n]

Add(c, params, insts, term) ==
    [c |-> [c EXCEPT !.blocks = Append(@, [params |-> params, insts |-> insts, term |-> term])],
     b |-> Len(c.blocks) + 1]

Term(kind, args, succ, arity) == [k |-> kind, args |-> args, succ |-> succ, arity |-> arity]
ToBlock(b, args) == Term("Goto", args, <<b>>, Len(args))
Trap == Term("Unreachable", <<>>, <<>>, 0)

SetExit(e, exit) ==
    IF exit.k = "Return" THEN Term("Return", <<e>>, <<>>, 0) ELSE ToBlock(exit.to, <<e>>)

(* The free variables of each statement of an arena: children come first.  *)
FreeVars(lin) ==
    LET free[i \in 1 .. Len(lin)] ==
          LET s == lin[i]
              read == UNION {Elems(e.vars) : e \in Elems(s.args)}
          IN  read
              \cup (IF "next" \in DOMAIN s THEN free[s.next] \ {s.bind} ELSE {})
              \cup (IF s.k = "Val" THEN free[s.value] ELSE {})
              \cup (IF s.k = "Resumption" THEN free[s.clause] ELSE {})
              \cup (IF s.k = "Handle" THEN free[s.body] ELSE {})
              \cup (IF s.k \in {"If", "Match"} THEN UNION {free[j] : j \in Elems(s.arms)} ELSE {})
    IN  free

(* MemoKey, had it taken a statement and an exit to be enough.             *)
FaultyMemoKey(g, i, exit, scope) == <<i, exit>>
(* A block serves a statement again with the same exit, where the variables*)
(* that the statement reads are bound to the same values.                  *)
MemoKey(g, i, exit, scope) == <<i, exit, [x \in g.free[i] \cap DOMAIN scope |-> scope[x]]>>

RECURSIVE Blk(_, _, _, _, _), BlkArms(_, _, _, _, _, _), BlkClauses(_, _, _, _, _)

(* s.next behind a block whose parameter is the result of s.               *)
Continue(g, s, exit, scope, c) ==
    LET result == c.values + 1
        next == Blk(g, s.next, exit, With(scope, s.bind, result), Make(c, 1))
    IN  [result |-> result, r |-> Add(next.c, <<result>>, <<>>, ToBlock(next.b, <<>>))]

BlkLet(g, s, exit, scope, c) ==
    LET result == c.values + 1
        next == Blk(g, s.next, exit, With(scope, s.bind, result), Make(c, 1))
    IN  Add(next.c, <<>>, <<[k |-> "Let", result |-> result, expr |-> In(scope, s.args[1])]>>,
            ToBlock(next.b, <<>>))

BlkVal(g, s, exit, scope, c) ==
    LET k == Continue(g, s, exit, scope, c).r
    IN  Blk(g, s.value, ExitYield(k.b), scope, k.c)

BlkCall(g, s, exit, scope, c) ==
    LET k == Continue(g, s, exit, scope, c).r
    IN  Add(k.c, <<>>, <<>>,
            Term("Call", InAll(scope, s.args), <<k.b>>, 1)
              @@ [fn |-> s.fn, convention |-> s.convention])

BlkPerform(g, s, exit, scope, c) ==
    LET next == Blk(g, s.next, exit, scope, c)
        k == IF s.bind # NoVar THEN Continue(g, s, exit, scope, c).r
             ELSE Add(next.c, <<>>, <<>>, ToBlock(next.b, <<>>))
    IN  Add(k.c, <<>>, <<>>,
            Term("Perform", InAll(scope, s.args), <<k.b>>, IF s.bind = NoVar THEN 0 ELSE 1)
              @@ [eff |-> s.eff, op |-> s.op])

BlkBranch(g, s, exit, scope, c) ==
    LET arms == BlkArms(g, s, <<>>, exit, scope, c)
    IN  Add(arms.c, <<>>, <<>>,
            Term(IF s.k = "If" THEN "Branch" ELSE "Match", InAll(scope, s.args), arms.bs, 0))

(* Each arm of a match but the default has a block of its own for binders. *)
BlkArms(g, s, bs, exit, scope, c) ==
    IF Len(bs) = Len(s.arms) THEN [c |-> c, bs |-> bs]
    ELSE LET arm == Blk(g, s.arms[Len(bs) + 1], exit, scope, c)
             r == IF s.k = "Match" /\ Len(bs) + 1 < Len(s.arms)
                  THEN Add(arm.c, <<>>, <<>>, ToBlock(arm.b, <<>>)) ELSE arm
         IN  BlkArms(g, s, Append(bs, r.b), exit, scope, r.c)

(* The clauses of a handler, each a function that starts from an empty     *)
(* scope and a memo of its own, with parameters of its own.                *)
BlkClauses(g, s, i, handler, c) ==
    IF i > Len(s.clauses) THEN c
    ELSE LET cl == s.clauses[i]
             n == Len(cl.params)
             params == Values(c, n)
             bound == Values(Make(c, n), n)
             body == Blk(g, cl.body, ExitReturn, WithAll(Empty, cl.params, bound),
                         [Make(c, 2 * n) EXCEPT !.memo = Empty])
             entry == Add(body.c, params,
                          [j \in 1 .. n |-> [k |-> "Let", result |-> bound[j], expr |-> Var(params[j])]],
                          ToBlock(body.b, <<>>))
         IN  BlkClauses(g, s, i + 1, handler,
                        [entry.c EXCEPT !.memo = c.memo,
                           !.clauses = Append(@, [handler |-> handler, op |-> cl.op,
                                                  params |-> params, entry |-> entry.b])])

(* The handler and its region: opened before the body and closed behind it.*)
BlkHandle(g, s, exit, scope, c) ==
    LET id == Len(c.regions) + 1
        c1 == BlkClauses(g, s, 1, id, [c EXCEPT !.regions = Append(@, [effect |-> s.eff])])
        forwarded == c1.values + 1
        after == Add(Make(c1, 1), <<forwarded>>, Closing(id), SetExit(Var(forwarded), exit))
        body == Blk(g, s.body, ExitYield(after.b), scope, after.c)
    IN  Add(body.c, <<>>, Opening(id), ToBlock(body.b, <<>>))

(* The successors of the switch on labels: the arms in order, and at each  *)
(* label without an arm and at the end a block that is never reached.      *)
Labelled(arms, default) ==
    LET width == IF DOMAIN arms = {} THEN 0
                 ELSE 1 + CHOOSE l \in DOMAIN arms : \A m \in DOMAIN arms : m <= l
    IN  Append([i \in 1 .. width |-> IF i - 1 \in DOMAIN arms THEN arms[i - 1] ELSE default], default)

(* One copy of a continuation: the clause jumps to its entry with a label, *)
(* and its end switches on the label.                                      *)
BlkResumption(g, s, exit, scope, c) ==
    LET argument == c.values + 1
        label == c.values + 2
        resumed == c.values + 3
        entry == Add(Make(c, 3), <<argument, label>>, <<>>, Trap)
        dispatch == Add(entry.c, <<resumed>>, <<>>, Trap)
        body == Blk(g, s.next, ExitYield(dispatch.b), With(scope, s.bind, argument), dispatch.c)
        during == [body.c EXCEPT
                     !.blocks[entry.b].term = ToBlock(body.b, <<>>),
                     !.open = With(@, s.resumption,
                                     [entry |-> entry.b, resumed |-> resumed, arms |-> Empty])]
        clause == Blk(g, s.clause, exit, scope, during)
        default == Add(clause.c, <<>>, <<>>, Trap)
        targets == Labelled(clause.c.open[s.resumption].arms, default.b)
    IN  [c |-> [default.c EXCEPT
                  !.blocks[dispatch.b].term = Term("Switch", <<Var(label)>>, targets, 0),
                  !.open = [r \in DOMAIN c.open |-> IF r = s.resumption THEN c.open[r] ELSE @[r]]],
         b |-> clause.b]

BlkResumeJump(g, s, exit, scope, c) ==
    IF s.resumption \notin DOMAIN c.open
    THEN Add(c, <<>>, <<[k |-> "Error"]>>, SetExit(Op(0, <<>>), exit))
    ELSE LET open == c.open[s.resumption]
             after == Blk(g, s.next, exit, With(scope, s.bind, open.resumed), c)
         IN  Add([after.c EXCEPT !.open[s.resumption].arms = With(@, s.label, after.b)],
                 <<>>, <<>>, ToBlock(open.entry, <<In(scope, s.args[1]), Op(s.label, <<>>)>>))

(* lower_stmt: g is the arena with its free variables, c the state.        *)
Blk(g, i, exit, scope, c) ==
    LET s == g.lin[i]
        key == MemoKey(g, i, exit, scope)
        made == CASE s.k = "Return" ->
                       Add(c, <<>>, <<>>, SetExit(In(scope, s.args[1]), exit))
                  [] s.k = "Let" -> BlkLet(g, s, exit, scope, c)
                  [] s.k = "Val" -> BlkVal(g, s, exit, scope, c)
                  [] s.k = "Call" -> BlkCall(g, s, exit, scope, c)
                  [] s.k = "Perform" -> BlkPerform(g, s, exit, scope, c)
                  [] s.k \in {"If", "Match"} -> BlkBranch(g, s, exit, scope, c)
                  [] s.k = "Handle" -> BlkHandle(g, s, exit, scope, c)
                  [] s.k = "Resumption" -> BlkResumption(g, s, exit, scope, c)
                  [] s.k = "ResumeJump" -> BlkResumeJump(g, s, exit, scope, c)
                  [] s.k = "Error" ->
                       Add(c, <<>>, <<[k |-> "Error"]>>, SetExit(Op(0, <<>>), exit))
    IN  IF key \in DOMAIN c.memo THEN [c |-> c, b |-> c.memo[key]]
        ELSE [made EXCEPT !.c.memo = With(@, key, made.b)]

-----------------------------------------------------------------------------
(* Whole programs.                                                         *)

RECURSIVE BlkFunctions(_, _, _, _)
BlkFunctions(g, linear, functions, c) ==
    IF Len(functions) = Len(linear.functions) THEN [c |-> c, functions |-> functions]
    ELSE LET f == linear.functions[Len(functions) + 1]
             params == Values(c, Len(f.params))
             body == Blk(g, f.body, ExitReturn, WithAll(Empty, f.params, params),
                         [Make(c, Len(f.params)) EXCEPT !.memo = Empty])
             entry == Add(body.c, params, <<>>, ToBlock(body.b, <<>>))
         IN  BlkFunctions(g, linear, Append(functions, [params |-> params, entry |-> entry.b]), entry.c)

(* The functions of the clauses come last; a handler finds its clauses in  *)
(* tables, as <<op, function>>.                                            *)
Finished(r) ==
    [blocks |-> r.c.blocks, values |-> r.c.values, regions |-> r.c.regions,
     functions |-> r.functions \o [i \in DOMAIN r.c.clauses |->
                                     [params |-> r.c.clauses[i].params, entry |-> r.c.clauses[i].entry]],
     tables |-> [h \in DOMAIN r.c.regions |->
                   {<<r.c.clauses[i].op, Len(r.functions) + i>> :
                      i \in {j \in DOMAIN r.c.clauses : r.c.clauses[j].handler = h}}]]

Lowered(linear) ==
    Finished(BlkFunctions([lin |-> linear.lin, free |-> FreeVars(linear.lin)], linear, <<>>,
                          [blocks |-> <<>>, values |-> 0, regions |-> <<>>, memo |-> Empty,
                           clauses |-> <<>>, open |-> Empty]))

(* The compiler: errors, or blocks whose regions are placed.               *)
Compiled(p) ==
    LET linear == Linear(p)
    IN  (IF linear.errors = {} THEN Place(Lowered(linear)) ELSE Empty)
        @@ [errors |-> linear.errors]

-----------------------------------------------------------------------------
(* validate.                                                               *)

Assigned(block) == {block.insts[i].result : i \in {j \in DOMAIN block.insts : block.insts[j].k = "Let"}}
Defined(block) == Elems(block.params) \cup Assigned(block)

RECURSIVE From(_, _)
From(cfg, seen) ==
    LET next == seen \cup UNION {Elems(cfg.blocks[b].term.succ) : b \in seen}
    IN  IF next = seen THEN seen ELSE From(cfg, next)

(* The values that every path from entry to the end of a block defines.    *)
RECURSIVE OnExit(_, _, _)
OnExit(cfg, entry, out) ==
    LET preds(b) == {a \in DOMAIN out : b \in Elems(cfg.blocks[a].term.succ)}
        all == UNION {Defined(cfg.blocks[b]) : b \in DOMAIN out}
        step == [b \in DOMAIN out |->
                   IF b = entry THEN out[b]
                   ELSE {v \in all : \A a \in preds(b) : v \in out[a]} \cup Defined(cfg.blocks[b])]
    IN  IF step = out THEN out ELSE OnExit(cfg, entry, step)

DefinedBefore(cfg, entry, out, b) ==
    LET preds == {a \in DOMAIN out : b \in Elems(cfg.blocks[a].term.succ)}
    IN  IF preds = {} THEN {} ELSE {v \in UNION {out[a] : a \in preds} : \A a \in preds : v \in out[a]}

ReadsDefined(cfg, entry) ==
    LET blocks == From(cfg, {entry})
        all == UNION {Defined(cfg.blocks[b]) : b \in blocks}
        out == OnExit(cfg, entry,
                      [b \in blocks |-> IF b = entry THEN Defined(cfg.blocks[b]) ELSE all])
    IN  \A b \in blocks :
          LET block == cfg.blocks[b]
              before == DefinedBefore(cfg, entry, out, b) \cup Elems(block.params)
              uptoInst(i) == before \cup {block.insts[j].result :
                                            j \in {m \in 1 .. i - 1 : block.insts[m].k = "Let"}}
          IN  /\ \A i \in DOMAIN block.insts :
                   block.insts[i].k = "Let" => Elems(block.insts[i].expr.vars) \subseteq uptoInst(i)
              /\ \A e \in Elems(block.term.args) :
                   Elems(e.vars) \subseteq uptoInst(Len(block.insts) + 1)

SinglyAssigned(cfg) ==
    LET lets == UNION {{<<b, i>> : i \in {j \in DOMAIN cfg.blocks[b].insts :
                                            cfg.blocks[b].insts[j].k = "Let"}} :
                         b \in DOMAIN cfg.blocks}
    IN  Cardinality({cfg.blocks[at[1]].insts[at[2]].result : at \in lets}) = Cardinality(lets)

EdgesFit(cfg) ==
    \A b \in DOMAIN cfg.blocks :
      \A t \in Elems(cfg.blocks[b].term.succ) :
        /\ t \in DOMAIN cfg.blocks
        /\ Len(cfg.blocks[t].params) = cfg.blocks[b].term.arity

Valid(cfg) ==
    /\ SinglyAssigned(cfg)
    /\ EdgesFit(cfg)
    /\ \A f \in Elems(cfg.functions) : ReadsDefined(cfg, f.entry)
=============================================================================
