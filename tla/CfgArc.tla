------------------------------- MODULE CfgArc -------------------------------
(***************************************************************************)
(* The C that cfg_codegen.rs emits for one function, with the retains,     *)
(* releases and projections that cfg_arc.rs planned (CfgPlan.tla), running *)
(* on counted cells.  Each retain or release, each operand and the effect  *)
(* of each site is a step; C leaves the order of the operands of a nested  *)
(* call or initializer open, and so does the model.                        *)
(*                                                                         *)
(* A called function keeps the ABI of cfg_arc.rs: it consumes its          *)
(* arguments and returns an owned reference, to one of them or to a cell   *)
(* of its own.  Cells are not reused: a reference to freed memory is       *)
(* recognised whenever it is followed.  Counts do not saturate here;       *)
(* CieloArc.tla is about their width.                                      *)
(***************************************************************************)
EXTENDS CfgShape

CONSTANTS
    Programs,   \* the functions that are run; the last block is the entry
    Heaps,      \* what their caller passes: [env, born, count, kids, others]
    MaxCells,   \* bound on the cells of a run
    Unit        \* every value that owns nothing

Cell == 1 .. MaxCells
Pool == 0       \* an immortal constructor of the constant pool, without fields
Index == 1 .. 2
Ref == Cell \cup {Pool, Unit}

ASSUME UnitAssumption == Unit \notin Nat /\ MaxCells \in Nat
ASSUME ProgramAssumption == \A p \in Programs : WellFormed(p)

(* A caller passes one reference with each managed parameter of the entry, *)
(* and its counts are right.                                               *)
HeapFor(p, h) ==
    LET passed == Params(p, Len(p.params)) \cap Classify(p)
    IN  /\ h.env \in [Value -> Ref] /\ h.born \in 0 .. MaxCells
        /\ h.count \in [Cell -> Nat] /\ h.others \in [Cell -> Nat]
        /\ h.kids \in [Cell -> [Index -> Ref]]
        /\ \A v \in Reads(p) \ Classify(p) : h.env[v] \notin Cell
        /\ \A k \in Cell :
             /\ k > h.born => h.count[k] = 0 /\ h.kids[k] = [i \in Index |-> Unit]
             /\ h.count[k] = h.others[k] + Cardinality({f \in Cell \X Index : h.kids[f[1]][f[2]] = k})
                              + Cardinality({v \in passed : h.env[v] = k})

ASSUME HeapAssumption == \A p \in Programs, h \in Heaps : HeapFor(p, h)

VARIABLES
    prog, optimize, plan,
    block, site,
    stage,      \* entry, site, pre, eval, post, edge or done
    todo,       \* retains and releases of this stage that are still to run
    pending,    \* operands of the site that are still to evaluate
    held,       \* what the evaluated ones gave: C temporaries
    edge,       \* the successor that the terminator has taken
    env,        \* the C local of each value
    born,       \* cells 1 .. born have been allocated
    count, kids,
    zombies,    \* cells on the drop stack
    others,     \* references to each cell that are the callers' own
    fault       \* a freed cell was followed

control == <<block, site, stage, edge>>
planned == <<prog, optimize, plan, others>>
heap == <<born, count, kids, zombies, fault>>
vars == <<planned, control, todo, pending, held, env, heap>>

term == prog.term[block]
AtTerm == site = Last(prog, block)
expr == ExprAt(prog, block, site)
here == plan.site[block][site]

Least(S) == CHOOSE x \in S : \A y \in S : x <= y
Releases(S) == [retain |-> [v \in Value |-> 0], release |-> S]

-----------------------------------------------------------------------------
(* The heap.                                                               *)

Kid(c, i) == IF c \in Cell THEN kids[c][i] ELSE Unit

Occurs(refs, c) == Cardinality({k \in DOMAIN refs : refs[k] = c})

Retained(refs) == [c \in Cell |-> count[c] + Occurs(refs, c)]

Dropped(refs) ==
    [c \in Cell |-> IF count[c] < Occurs(refs, c) THEN 0 ELSE count[c] - Occurs(refs, c)]

Died == {c \in Cell : count[c] > 0 /\ count'[c] = 0}

(* Following a reference to a freed cell, or dropping one too many.        *)
Freed(c) == c \in Cell /\ count[c] = 0
Short(refs) == \E c \in Cell : count[c] < Occurs(refs, c)
Touch(S) == fault' = (fault \/ \E c \in S : Freed(c))
Follow(refs) == fault' = (fault \/ Short(refs))

Drop(refs) ==
    /\ count' = Dropped(refs)
    /\ zombies' = zombies \cup Died
    /\ Follow(refs)

Allocate(fields, counts) ==
    /\ born < MaxCells
    /\ born' = born + 1
    /\ count' = [counts EXCEPT ![born + 1] = 1]
    /\ kids' = [kids EXCEPT ![born + 1] =
                  [i \in Index |-> IF i \in DOMAIN fields THEN fields[i] ELSE Unit]]

(* The loop of cielo_arc_destroy_and_dispose, for one cell.                *)
Reap ==
    /\ zombies # {}
    /\ LET z == Least(zombies)
       IN  /\ count' = Dropped(kids[z])
           /\ zombies' = (zombies \ {z}) \cup Died
           /\ Follow(kids[z])
           /\ kids' = [kids EXCEPT ![z] = [i \in Index |-> Unit]]
    /\ UNCHANGED <<planned, control, todo, pending, held, env, born>>

(* A call with the owned arguments args; res is what it returns.           *)
Called(args, res) ==
    /\ \/ /\ res = born + 1
          /\ Allocate(<<>>, Dropped(args))
       \/ \E k \in DOMAIN args :
            /\ res = args[k]
            /\ count' = Dropped([args EXCEPT ![k] = Unit])
            /\ UNCHANGED <<born, kids>>
    /\ zombies' = zombies \cup Died

Results(args) == Elems(args) \cup {born + 1}

-----------------------------------------------------------------------------
(* The retains and releases of a stage, in the order of their values.      *)

Waiting == {v \in Value : todo.retain[v] > 0} \cup todo.release

RetainOp ==
    /\ zombies = {} /\ Waiting # {}
    /\ LET v == Least(Waiting)
       IN  /\ todo.retain[v] > 0
           /\ todo' = [todo EXCEPT !.retain[v] = @ - 1]
           /\ count' = Retained(<<env[v]>>)
           /\ Touch({env[v]})
    /\ UNCHANGED <<planned, control, pending, held, env, born, kids, zombies>>

ReleaseOp ==
    /\ zombies = {} /\ Waiting # {}
    /\ LET v == Least(Waiting)
       IN  /\ todo.retain[v] = 0
           /\ todo' = [todo EXCEPT !.release = @ \ {v}]
           /\ Drop(<<env[v]>>)
    /\ UNCHANGED <<planned, control, pending, held, env, born, kids>>

At(s) == stage = s /\ Waiting = {} /\ zombies = {}

EnterBlock ==
    /\ At("entry")
    /\ stage' = "site" /\ site' = 1
    /\ UNCHANGED <<planned, block, edge, todo, pending, held, env, heap>>

StartSite ==
    /\ At("site")
    /\ stage' = "pre"
    /\ todo' = [retain |-> here.retain, release |-> here.early]
    /\ UNCHANGED <<planned, block, site, edge, pending, held, env, heap>>

StartEval ==
    /\ At("pre")
    /\ stage' = "eval"
    /\ pending' = DOMAIN expr.args
    /\ held' = [k \in DOMAIN expr.args |-> Unit]
    /\ UNCHANGED <<planned, block, site, edge, todo, env, heap>>

-----------------------------------------------------------------------------
(* Operands.  The arguments of a terminator are C statements, in order.    *)

Operand(k) ==
    LET v == expr.args[k].val
    IN  /\ At("eval")
        /\ k \in pending
        /\ expr.kind = "args" => k = Least(pending)
        /\ pending' = pending \ {k}
        /\ \/ /\ expr.args[k].via = "direct"
              /\ held' = [held EXCEPT ![k] = env[v]]
              /\ UNCHANGED heap
           \/ /\ expr.args[k].via = "field"
              /\ held' = [held EXCEPT ![k] = Kid(env[v], 1)]
              /\ count' = Retained(<<Kid(env[v], 1)>>)
              /\ Touch({env[v]})
              /\ UNCHANGED <<born, kids, zombies>>
           \/ /\ expr.args[k].via = "call"
              /\ \E res \in Results(<<env[v]>>) :
                   Called(<<env[v]>>, res) /\ held' = [held EXCEPT ![k] = res]
              /\ Follow(<<env[v]>>)
        /\ UNCHANGED <<planned, control, todo, env>>

Evaluated(kinds) == At("eval") /\ pending = {} /\ expr.kind \in kinds

-----------------------------------------------------------------------------
(* Instructions.                                                           *)

Bind(res) ==
    /\ env' = [env EXCEPT ![prog.insts[block][site].result] = res]
    /\ stage' = "post"
    /\ todo' = Releases(here.late)
    /\ UNCHANGED <<planned, block, site, edge, pending, held>>

Alias ==
    /\ ~AtTerm /\ Evaluated({"value"})
    /\ Bind(held[1])
    /\ UNCHANGED heap

(* An operator of scalars or strings, or an Eval that discards a value.    *)
Scalar ==
    /\ ~AtTerm /\ Evaluated({"read"})
    /\ Bind(Unit)
    /\ Touch(Elems(held))
    /\ UNCHANGED <<born, count, kids, zombies>>

Project ==
    /\ ~AtTerm /\ Evaluated({"field"})
    /\ Bind(Kid(held[1], 1))
    /\ count' = Retained(<<Kid(held[1], 1)>>)
    /\ Touch({held[1]})
    /\ UNCHANGED <<born, kids, zombies>>

LoadPooled ==
    /\ ~AtTerm /\ Evaluated({"pooled"})
    /\ Bind(Pool)
    /\ UNCHANGED heap

Make ==
    /\ ~AtTerm /\ Evaluated({"make"})
    /\ Bind(born + 1)
    /\ Allocate(held, count)
    /\ UNCHANGED <<zombies, fault>>

(* A closure reads its captures and calls; it is not consumed itself.      *)
Call ==
    /\ ~AtTerm /\ Evaluated({"call", "closure"})
    /\ LET args == IF expr.kind = "call" THEN held ELSE Tail(held)
       IN  /\ \E res \in Results(args) : Called(args, res) /\ Bind(res)
           /\ fault' = (fault \/ Short(args) \/ \E k \in DOMAIN held : Freed(held[k]))

-----------------------------------------------------------------------------
(* Terminators.                                                            *)

Leave(e) ==
    /\ edge' = e
    /\ stage' = "post"
    /\ todo' = Releases(here.late)
    /\ UNCHANGED <<planned, block, site, pending, held>>

Returning ==
    /\ AtTerm /\ Evaluated({"args"}) /\ term.kind = "return"
    /\ Leave(0)
    /\ UNCHANGED <<env, heap>>

Goto ==
    /\ AtTerm /\ Evaluated({"args"}) /\ term.kind = "goto"
    /\ Leave(1)
    /\ env' = [v \in Value |->
                 LET into == {k \in DOMAIN held : prog.params[term.succ[1]][k] = v}
                 IN  IF into = {} THEN env[v] ELSE held[CHOOSE k \in into : TRUE]]
    /\ UNCHANGED heap

Branch ==
    /\ AtTerm /\ Evaluated({"read"}) /\ term.kind = "branch"
    /\ \E e \in DOMAIN term.succ : Leave(e)
    /\ UNCHANGED <<env, heap>>

(* The last successor is the default; a constructor may be of any variant. *)
Match ==
    /\ AtTerm /\ Evaluated({"read"}) /\ term.kind = "match"
    /\ \E e \in DOMAIN term.succ :
         /\ e < Len(term.succ) => held[1] # Unit
         /\ Leave(e)
         /\ IF e = Len(term.succ) THEN UNCHANGED <<env, count, kids>>
            ELSE LET c == held[1]
                     binders == prog.params[term.succ[e]]
                     mode == plan.mode[block][e]
                     sole == c \in Cell /\ count[c] = 1
                     taken == {k \in DOMAIN mode : mode[k] = "MoveUnique" \/ (mode[k] = "Move" /\ sole)}
                     copied == [k \in DOMAIN mode |->
                                  IF mode[k] = "Borrow" \/ k \in taken THEN Unit ELSE Kid(c, k)]
                 IN  /\ env' = [v \in Value |->
                                  LET into == {k \in DOMAIN binders : binders[k] = v}
                                  IN  IF into = {} THEN env[v] ELSE Kid(c, CHOOSE k \in into : TRUE)]
                     /\ count' = Retained(copied)
                     /\ kids' = [d \in Cell |-> [i \in Index |->
                                   IF d = c /\ i \in taken THEN Unit ELSE kids[d][i]]]
    /\ Touch({held[1]})
    /\ UNCHANGED <<born, zombies>>

(* A call or a perform as a terminator; its result is the successor's      *)
(* parameter.                                                              *)
CallOrPerform ==
    /\ AtTerm /\ Evaluated({"args"}) /\ term.kind = "call"
    /\ Leave(1)
    /\ \E res \in Results(held) :
         Called(held, res) /\ env' = [env EXCEPT ![prog.params[term.succ[1]][1]] = res]
    /\ Follow(held)

-----------------------------------------------------------------------------
NextSite ==
    /\ At("post") /\ ~AtTerm
    /\ stage' = "site" /\ site' = site + 1
    /\ UNCHANGED <<planned, block, edge, todo, pending, held, env, heap>>

Finish ==
    /\ At("post") /\ AtTerm /\ term.kind = "return"
    /\ stage' = "done"
    /\ UNCHANGED <<planned, block, site, edge, todo, pending, held, env, heap>>

(* The block that plan_edge_drops puts on the edge.                        *)
TakeEdge ==
    /\ At("post") /\ AtTerm /\ term.kind # "return"
    /\ stage' = "edge"
    /\ todo' = Releases(plan.drop[block][edge])
    /\ UNCHANGED <<planned, block, site, edge, pending, held, env, heap>>

CrossEdge ==
    /\ At("edge")
    /\ block' = term.succ[edge] /\ site' = 0 /\ edge' = 0
    /\ stage' = "entry"
    /\ todo' = Releases(plan.entry[term.succ[edge]])
    /\ UNCHANGED <<planned, pending, held, env, heap>>

Stopped == At("done") /\ UNCHANGED vars

Init ==
    /\ prog \in Programs
    /\ optimize \in BOOLEAN
    /\ plan = Plan(prog, optimize)
    /\ block = Len(prog.params) /\ site = 0 /\ edge = 0
    /\ stage = "entry"
    /\ todo = Releases(plan.entry[block])
    /\ pending = {} /\ held = <<>>
    /\ \E h \in Heaps : /\ env = h.env /\ born = h.born /\ count = h.count
                        /\ kids = h.kids /\ others = h.others
    /\ zombies = {}
    /\ fault = FALSE

Next ==
    \/ Reap \/ RetainOp \/ ReleaseOp
    \/ EnterBlock \/ StartSite \/ StartEval
    \/ stage = "eval" /\ \E k \in pending : Operand(k)
    \/ Alias \/ Scalar \/ Project \/ LoadPooled \/ Make \/ Call
    \/ Returning \/ Goto \/ Branch \/ Match \/ CallOrPerform
    \/ NextSite \/ Finish \/ TakeEdge \/ CrossEdge
    \/ Stopped

Spec == Init /\ [][Next]_vars

-----------------------------------------------------------------------------
(* The generated code never follows a reference to a cell that it, or a    *)
(* function it called, has already given back.                             *)
NoUseAfterFree == ~fault

(* Between two sites the count of a cell is the number of live values that *)
(* name it, plus the fields that do, plus what the callers hold: whatever  *)
(* path was taken, nothing has leaked and nothing is owed.                 *)
FieldRefs(c) == Cardinality({f \in Cell \X Index : kids[f[1]][f[2]] = c})

CountsFollowLiveness ==
    \A c \in Cell :
       /\ At("site") =>
            count[c] = others[c] + FieldRefs(c)
              + Cardinality({v \in plan.after[block][site - 1] \cap plan.managed : env[v] = c})
       /\ At("done") => count[c] = others[c] + FieldRefs(c) + Occurs(held, c)

(* What the uniqueness query proved, and the stats build asserts: a field  *)
(* is moved without a test only out of a cell that nobody else refers to.  *)
UniqueIsSole ==
    At("eval") /\ pending = {} /\ AtTerm /\ term.kind = "match" /\ held[1] # Unit =>
        \A e \in DOMAIN plan.mode[block] :
           (\E k \in DOMAIN plan.mode[block][e] : plan.mode[block][e][k] = "MoveUnique")
             => held[1] \in Cell /\ count[held[1]] = 1

(* A field leaves a constructor only when no caller and no value that is   *)
(* read later can see the constructor without it.                          *)
TakesAreDead ==
    [][\A c \in Cell : count[c] > 0 /\ kids'[c] # kids[c] =>
         /\ count[c] = 1 /\ others[c] = 0
         /\ \A v \in plan.after[block][site] : env[v] # c]_vars
=============================================================================
