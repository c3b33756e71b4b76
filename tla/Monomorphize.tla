----------------------------- MODULE Monomorphize -----------------------------
(***************************************************************************)
(* Monomorphization (passes/monomorphize.rs): a copy of a generic function *)
(* for every list of type arguments that a call asks for.  The work in     *)
(* progress is a record                                                    *)
(*                                                                         *)
(*   [p, queue, instances, walked, errors]                                 *)
(*                                                                         *)
(* with the program, the bodies still to be walked, the functions made so  *)
(* far by [callee, types], the functions that are walked as they stand,    *)
(* and the diagnostics.  A body [source, target, types] is of source; it   *)
(* is copied into target, unless that is source itself.                    *)
(*                                                                         *)
(* A type is [c, n, args]: a parameter of the function by its number, or a *)
(* constructor applied to types.                                           *)
(***************************************************************************)
EXTENDS FunctionGraph

CONSTANTS MaxTypeDepth,     \* MAX_TYPE_ARG_DEPTH
          MaxInstances,     \* MAX_INSTANCES
          VarSpan           \* above all variables of the source program
ASSUME InstanceAssumption == MaxTypeDepth \in Nat /\ MaxInstances \in Nat /\ VarSpan \in Nat

Param(i)   == [c |-> "param", n |-> i, args |-> <<>>]
Con(c, ts) == [c |-> c, n |-> 0, args |-> ts]

RECURSIVE TypeDepth(_), SubstituteType(_, _)
TypeDepth(t) ==
    IF t.args = <<>> THEN 0
    ELSE 1 + FoldSeq(LAMBDA a, d : IF TypeDepth(a) > d THEN TypeDepth(a) ELSE d, 0, t.args)

SubstituteType(types, t) ==
    IF t.c = "param" THEN IF t.n \in DOMAIN types THEN types[t.n] ELSE t
    ELSE [t EXCEPT !.args = [i \in DOMAIN t.args |-> SubstituteType(types, t.args[i])]]

IsGeneric(p, f) == p.funcs[f].generics > 0

(* The calls below a statement, those in its handlers included, in the     *)
(* order of the stack; the body of a closure is not a part of it.          *)
RECURSIVE ExprSites(_), CallSitesIn(_, _)
ExprSites(e) ==
    (IF e.k = "PureCall" THEN <<e>> ELSE <<>>)
    \o FlattenSeq([i \in DOMAIN e.args |-> ExprSites(e.args[i])])

HandlerSeq(p, s) ==
    LET h == p.handlers[s.handler]
    IN  IF s.k = "Handle" THEN <<h.ret>> \o [i \in DOMAIN h.clauses |-> h.clauses[i].body]
        ELSE <<>>

CallSitesIn(p, s) ==
    LET below == Reverse(HandlerSeq(p, s) \o ChildSeq(s))
    IN  (IF s.k = "Call" THEN <<s>> ELSE <<>>)
        \o FlattenSeq([i \in DOMAIN s.args |-> ExprSites(s.args[i])])
        \o FlattenSeq([i \in DOMAIN below |-> CallSitesIn(p, below[i])])

(* Faulty: the caller's own types are not put in. *)
FaultyTypesAt(site, types) == site.targs

TypesAt(site, types) == [i \in DOMAIN site.targs |-> SubstituteType(types, site.targs[i])]

(* A function that is not generic is walked once, as it stands.            *)
EnqueueInPlace(m, f) ==
    IF f \in m.walked THEN m
    ELSE [m EXCEPT !.walked = @ \cup {f},
                   !.queue = Append(@, [source |-> f, target |-> f, types |-> <<>>])]

(* The copy's own parameters are declared with it, its body comes later.   *)
Fresh(target, x) == IF x = NoVar THEN NoVar ELSE VarSpan * target + x

Declared(p, f) ==
    LET target == Len(p.funcs) + 1
    IN  [p.funcs[f] EXCEPT !.generics = 0,
                           !.params = [i \in DOMAIN @ |-> Fresh(target, @[i])]]

EnsureInstance(m, f, types) ==
    LET key == [callee |-> f, types |-> types]
        target == Len(m.p.funcs) + 1
    IN  CASE key \in DOMAIN m.instances -> m
          [] key \notin DOMAIN m.instances /\ \E t \in Elems(types) : TypeDepth(t) > MaxTypeDepth ->
               [m EXCEPT !.errors = @ \cup {"MONO_POLYMORPHIC_RECURSION"}]
          [] key \notin DOMAIN m.instances /\ Cardinality(DOMAIN m.instances) >= MaxInstances ->
               [m EXCEPT !.errors = @ \cup {"MONO_INSTANCE_LIMIT"}]
          [] OTHER ->
               [m EXCEPT !.p.funcs = Append(@, Declared(m.p, f)),
                         !.instances = With(@, key, target),
                         !.queue = Append(@, [source |-> f, target |-> target, types |-> types])]

ResolveSite(m, types, site) ==
    IF IsGeneric(m.p, site.fn) THEN EnsureInstance(m, site.fn, TypesAt(site, types))
    ELSE EnqueueInPlace(m, site.fn)

ResolveSites(m, sites, types) ==
    FoldLeft(LAMBDA acc, site : ResolveSite(acc, types, site), m, sites)

(* Where a call goes: the rewrites of a body, with its types.              *)
TargetOf(m, types, site) ==
    LET key == [callee |-> site.fn, types |-> TypesAt(site, types)]
    IN  IF IsGeneric(m.p, site.fn) /\ key \in DOMAIN m.instances
        THEN m.instances[key] ELSE site.fn

(* A body with its calls rewritten, and renamed where it is copied; x is   *)
(* [m, types, target, handlers].                                           *)
RenamedVar(x, v) == IF x.target = 0 THEN v ELSE Fresh(x.target, v)
RenamedVars(x, vs) == [i \in DOMAIN vs |-> RenamedVar(x, vs[i])]

RECURSIVE CloneExpr(_, _), CloneStmt(_, _)
CloneExpr(x, e) ==
    LET d == [e EXCEPT !.args = [i \in DOMAIN e.args |-> CloneExpr(x, e.args[i])]]
    IN  CASE e.k = "Var" -> [d EXCEPT !.var = RenamedVar(x, @)]
          [] e.k = "PureCall" -> [d EXCEPT !.fn = TargetOf(x.m, x.types, e)]
          [] OTHER -> d

ClonePat(x, pat) == [pat EXCEPT !.binders = RenamedVars(x, @)]

CloneBelow(x, s) ==
    CASE s.k = "Return" -> s
      [] s.k = "Val" -> [s EXCEPT !.value = CloneStmt(x, @), !.next = CloneStmt(x, @)]
      [] s.k = "If" -> [s EXCEPT !.arms = [i \in DOMAIN @ |-> CloneStmt(x, @[i])]]
      [] s.k = "Match" -> [s EXCEPT !.arms = [i \in DOMAIN @ |-> CloneStmt(x, @[i])],
                                    !.pats = [i \in DOMAIN @ |-> ClonePat(x, @[i])]]
      [] s.k = "Handle" -> [s EXCEPT !.body = CloneStmt(x, @), !.handler = x.handlers[@]]
      [] s.k = "Stage" -> [s EXCEPT !.body = CloneStmt(x, @)]
      [] s.k = "Resume" -> [s EXCEPT !.next = CloneStmt(x, @), !.resume = RenamedVar(x, @)]
      [] OTHER -> [s EXCEPT !.next = CloneStmt(x, @)]

CloneStmt(x, s) ==
    LET t == [CloneBelow(x, s) EXCEPT
                !.args = [i \in DOMAIN s.args |-> CloneExpr(x, s.args[i])]]
        u == IF Binds(s) THEN [t EXCEPT !.bind = RenamedVar(x, @)] ELSE t
    IN  IF s.k = "Call" THEN [u EXCEPT !.fn = TargetOf(x.m, x.types, s)] ELSE u

CloneClause(x, c) ==
    [c EXCEPT !.params = RenamedVars(x, @), !.resume = RenamedVar(x, @), !.body = CloneStmt(x, @)]

CloneHandler(x, h) ==
    [h EXCEPT !.param = RenamedVar(x, @), !.ret = CloneStmt(x, @),
              !.clauses = [i \in DOMAIN @ |-> CloneClause(x, @[i])]]

(* The handlers that belong to a body, those in clauses included.          *)
RECURSIVE OwnHandlers(_, _)
OwnHandlers(p, s) ==
    LET here == HandlersIn(s)
    IN  here \cup UNION {UNION {OwnHandlers(p, b) : b \in ClauseBodies(p.handlers[h])} : h \in here}

(* A body that is walked as it stands, and one that is copied.             *)
ApplyInPlace(m, job) ==
    LET own == OwnHandlers(m.p, m.p.funcs[job.source].body)
        x == [m |-> m, types |-> <<>>, target |-> 0, handlers |-> [h \in own |-> h]]
    IN  [m EXCEPT !.p.funcs[job.source].body = CloneStmt(x, @),
                  !.p.handlers = [h \in DOMAIN @ |->
                                    IF h \in own THEN CloneHandler(x, @[h]) ELSE @[h]]]

CloneBody(m, job) ==
    LET old == SetToSeq(OwnHandlers(m.p, m.p.funcs[job.source].body))
        x == [m |-> m, types |-> job.types, target |-> job.target,
              handlers |-> [h \in Elems(old) |->
                              Len(m.p.handlers) + CHOOSE i \in DOMAIN old : old[i] = h]]
    IN  [m EXCEPT !.p.funcs[job.target].body = CloneStmt(x, m.p.funcs[job.source].body),
                  !.p.handlers = @ \o [i \in DOMAIN old |-> CloneHandler(x, m.p.handlers[old[i]])]]

StartMono(p) ==
    LET m == [p |-> p, queue |-> <<>>, instances |-> Empty, walked |-> {}, errors |-> {}]
    IN  CASE \A f \in DOMAIN p.funcs : ~IsGeneric(p, f) -> m
          [] IsGeneric(p, 1) -> [m EXCEPT !.errors = {"MONO_GENERIC_ENTRYPOINT"}]
          [] OTHER -> EnqueueInPlace(m, 1)

(* One round of the loop: the body at the head of the queue.               *)
WalkBody(m0) ==
    LET job == Head(m0.queue)
        sites == CallSitesIn(m0.p, m0.p.funcs[job.source].body)
        m == ResolveSites([m0 EXCEPT !.queue = Tail(@)], sites, job.types)
    IN  IF job.source = job.target THEN ApplyInPlace(m, job) ELSE CloneBody(m, job)

(* After the loop: nothing generic may be left.                            *)
FinishMono(m) ==
    LET generic == \E f \in DOMAIN m.p.funcs : IsGeneric(m.p, f)
        q == IF generic THEN PruneUnreachable(m.p) ELSE m.p
    IN  [m EXCEPT !.p = q,
                  !.errors = @ \cup (IF \E f \in DOMAIN q.funcs : IsGeneric(q, f)
                                     THEN {"MONO_UNSPECIALIZED_FUNCTION"} ELSE {})]
=============================================================================
