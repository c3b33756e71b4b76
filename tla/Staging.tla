-------------------------------- MODULE Staging --------------------------------
(***************************************************************************)
(* The staging pipeline, from a typed program to the one that lowering to  *)
(* blocks receives (cielo-db/src/queries/staging.rs, queries/runtime.rs):  *)
(*                                                                         *)
(*   "mono"     bodies are walked and generic functions copied             *)
(*   "fold"     the cache of values known when compiling grows             *)
(*   "classify" stages are assigned, and errors reported                   *)
(*   "special"  handles around calls become calls of copies, and the       *)
(*              functions that are not reached go                          *)
(*   "shrink"   sweeps, until one changes nothing                          *)
(*   "inline"   the one sweep that copies small functions                  *)
(*   "reshrink" sweeps again                                               *)
(*   "done", or "refused" after an error                                   *)
(*                                                                         *)
(* The queries go on after an error, and it is the driver that stops; what *)
(* they make of a refused program is left out.                             *)
(***************************************************************************)
EXTENDS Monomorphize, Specialize, Normalize, ConstantTable

CONSTANTS Sources,          \* the programs that are staged
          Inputs,           \* the arguments of main that their meaning is taken for
          MaxShrinkIters    \* MAX_SHRINK_ITERS
ASSUME ShrinkAssumption == MaxShrinkIters \in Nat \ {0}

VARIABLES source,   \* the program as it was
          phase,    \* the step of the pipeline that comes next: mono, fold, classify,
                    \* special, shrink, inline, reshrink; or done, or refused
          mono,     \* the work of monomorphization
          core,     \* the program as it is
          ct,       \* the values known when compiling, by expression
          todo,     \* the handles still to be specialized
          made,     \* the specialized functions, by callee and shape
          sweeps,   \* the sweeps of this phase so far
          table     \* the table of constants

vars == <<source, phase, mono, core, ct, todo, made, sweeps, table>>

NoTable == [entries |-> <<>>, used |-> 0]

Init ==
    /\ source \in Sources
    /\ phase = "mono"
    /\ mono = StartMono(source)
    /\ core = source
    /\ ct = Empty
    /\ todo = <<>>
    /\ made = Empty
    /\ sweeps = 0
    /\ table = NoTable

(* One body of the queue.                                                  *)
Walk ==
    /\ phase = "mono"
    /\ mono.queue # <<>>
    /\ mono' = WalkBody(mono)
    /\ UNCHANGED <<source, phase, core, ct, todo, made, sweeps, table>>

(* The program without its generic functions, and what is known of its     *)
(* expressions by their operands alone.                                    *)
EndMono ==
    /\ phase = "mono"
    /\ mono.queue = <<>>
    /\ mono' = FinishMono(mono)
    /\ core' = mono'.p
    /\ ct' = IF mono'.errors = {} THEN BaseCache(core') ELSE Empty
    /\ phase' = IF mono'.errors = {} THEN "fold" ELSE "refused"
    /\ UNCHANGED <<source, todo, made, sweeps, table>>

(* A pass over the calls of pure functions; the last one adds nothing.     *)
FoldCalls ==
    /\ phase = "fold"
    /\ ct' = FoldKnownPureCalls(core, ct)
    /\ phase' = IF ct' = ct THEN "classify" ELSE "fold"
    /\ UNCHANGED <<source, mono, core, todo, made, sweeps, table>>

(* Stages, their errors, and the residual program with its constants.      *)
Classify ==
    /\ phase = "classify"
    /\ \E stage \in {StageOfExpr(core, ct)} :
          IF CtOnlyErrors(core, stage) = {} /\ ComptimeErrors(core, stage) = {}
          THEN /\ core' = Residualized(core, ct, stage)
               /\ table' = BuildConstantTable(core')
               /\ todo' = SpecializeCandidates(core')
               /\ phase' = "special"
          ELSE /\ phase' = "refused"
               /\ UNCHANGED <<core, table, todo>>
    /\ UNCHANGED <<source, mono, ct, made, sweeps>>

SpecializeOne ==
    /\ phase = "special"
    /\ todo # <<>>
    /\ \E q \in {SpecializeHandle(core, made, Head(todo))} : core' = q.p /\ made' = q.made
    /\ todo' = Tail(todo)
    /\ UNCHANGED <<source, phase, mono, ct, sweeps, table>>

Prune ==
    /\ phase = "special"
    /\ todo = <<>>
    /\ core' = PruneUnreachable(core)
    /\ table' = BuildConstantTable(core')
    /\ phase' = "shrink"
    /\ UNCHANGED <<source, mono, ct, todo, made, sweeps>>

(* Faulty: inlining starts over after every round. *)
FaultyAfterShrink == "inline"

AfterShrink == IF phase = "shrink" THEN "inline" ELSE "done"


(* The phase is over when a sweep has changed nothing, or when there have  *)
(* been as many as there may be.                                           *)
ShrinkEnds == core' = core \/ sweeps + 1 = MaxShrinkIters

(* Faulty: the table of the program before the sweeps is kept. *)
FaultyTableAfterShrink == table

TableAfterShrink == IF phase' = "done" THEN BuildConstantTable(core') ELSE table

ShrinkOnce ==
    /\ phase \in {"shrink", "reshrink"}
    /\ core' = Shrink(core)
    /\ IF ShrinkEnds
       THEN phase' = AfterShrink /\ sweeps' = 0
       ELSE phase' = phase /\ sweeps' = sweeps + 1
    /\ table' = TableAfterShrink
    /\ UNCHANGED <<source, mono, ct, todo, made>>

InlineOnce ==
    /\ phase = "inline"
    /\ core' = SpeculativeInline(core)
    /\ phase' = "reshrink"
    /\ UNCHANGED <<source, mono, ct, todo, made, sweeps, table>>

Next ==
    \/ Walk \/ EndMono \/ FoldCalls \/ Classify \/ SpecializeOne \/ Prune
    \/ ShrinkOnce \/ InlineOnce

(* The pipeline is one thread that runs until it ends.  This is the weak   *)
(* fairness of Next: a step is possible, and changes something, as long as *)
(* the pipeline has not ended.  (TLC computes ENABLED without remembering  *)
(* the values of definitions, which takes too long for these steps.)       *)
Ended == phase \in {"done", "refused"}
Fairness == []<>Ended \/ []<><<Next>>_vars

Spec == Init /\ [][Next]_vars /\ Fairness
-----------------------------------------------------------------------------
(* What every pass owes: main gives the same value and prints the same.  A *)
(* trap is the one thing that may be lost (normalize.rs keeps an unused    *)
(* expression for its output only), with what comes after it.              *)
Agrees(was, is) == IF was.v = Trap THEN IsPrefix(was.out, is.out) ELSE is = was

StagingKeepsMeaning ==
    phase # "refused" => \A arg \in Inputs : Agrees(Meaning(source, arg), Meaning(core, arg))

(* A value known when compiling is the one that running the expression     *)
(* gives, and running it would not have trapped or printed: what was given *)
(* up half-way (an overflow, a recursion, a call too deep) is not cached.  *)
FoldedIsRun ==
    phase \in {"fold", "classify"} =>
        \A e \in DOMAIN ct : Eval(core, e, Empty, <<>>) = Result(ct[e], <<>>)

(* A comptime block that is accepted has been evaluated but for its last   *)
(* operators: no operand computes with what is only known at run time, and *)
(* no effect leaves the block but those that compiling discharges.         *)
IsResidue(e) == e.k = "Var" \/ \A a \in Elems(e.args) : a.k = "Lit"

BlocksAreFolded ==
    phase = "special" =>
        \A b \in ComptimeBlocks(core) :
            /\ \A s \in Region(core, b.body), i \in 1 .. 3 :
                   i \in DOMAIN s.args => IsResidue(s.args[i])
            /\ EscapingRuntimeEffects(core, FunctionEffectSummary(core), b.body) = {}

(* The instances that a program calls for: the contexts [fn, types] that   *)
(* calls lead to from main.  Types that are too deep are not followed.     *)
CallsBelow(p, s) ==
    LET region == Region(p, s)
    IN  {t \in region : t.k = "Call"} \cup {e \in UNION {ExprsBelow(t) : t \in region} : e.k = "PureCall"}

ContextsFrom(p, c) ==
    {[fn |-> s.fn, types |-> IF IsGeneric(p, s.fn)
                             THEN [i \in DOMAIN s.targs |-> SubstituteType(c.types, s.targs[i])]
                             ELSE <<>>] :
       s \in CallsBelow(p, p.funcs[c.fn].body)}

TooDeep(c) == \E t \in Elems(c.types) : TypeDepth(t) > MaxTypeDepth

RECURSIVE ContextsOf(_, _)
ContextsOf(p, cs) ==
    LET more == cs \cup UNION {ContextsFrom(p, c) : c \in {d \in cs : ~TooDeep(d)}}
    IN  IF more = cs THEN cs ELSE ContextsOf(p, more)

Contexts(p) == ContextsOf(p, {[fn |-> 1, types |-> <<>>]})
Wanted(p) ==
    {[callee |-> c.fn, types |-> c.types] :
        c \in {d \in Contexts(p) : IsGeneric(p, d.fn) /\ ~TooDeep(d)}}

(* Monomorphization makes each wanted instance, once, and nothing else,    *)
(* and stops: it complains of a type that is too deep exactly when a call  *)
(* needs one, and of too many instances exactly when there are.            *)
InstancesAreWanted ==
    phase # "mono" /\ ~IsGeneric(source, 1) =>
        LET instances == DOMAIN mono.instances
        IN  /\ instances \subseteq Wanted(source)
            /\ \A k, l \in instances : mono.instances[k] = mono.instances[l] => k = l
            /\ IF Cardinality(Wanted(source)) > MaxInstances
               THEN "MONO_INSTANCE_LIMIT" \in mono.errors
               ELSE /\ instances = Wanted(source)
                    /\ ("MONO_POLYMORPHIC_RECURSION" \in mono.errors)
                          <=> \E c \in Contexts(source) : TooDeep(c)

(* The table of constants that lowering gets is that of the final program, *)
(* not of one before it: no entry is stale, twice there or not worth its   *)
(* place, and each constant that is refused has no room left.              *)
IsWorthIt(es, key) ==
    \/ UseCount(es, key) >= 2
    \/ key.k = "MakeEnum" /\ EstimatedBytes(key) >= LargeBytes

PoolIsMaximal ==
    phase = "done" =>
        LET es == AllExprs(core)
            worth == {k \in Elems(es) : (IsScalarKey(k) \/ IsCtorKey(k)) /\ IsWorthIt(es, k)}
        IN  /\ Elems(table.entries) \subseteq worth
            /\ Cardinality(Elems(table.entries)) = Len(table.entries)
            /\ table.used = FoldSeq(LAMBDA k, n : KeyBytes(k) + n, 0, table.entries)
            /\ \A k \in worth \ Elems(table.entries) : ~Fits(table, k)

(* Whatever is called, made a closure of or installed below main exists,   *)
(* and after pruning nothing else does: no id of a function that has moved *)
(* or gone is left in a body that runs.                                    *)
RECURSIVE LiveFrom(_, _, _)
LiveFrom(p, fs, hs) ==
    LET bodies == {p.funcs[f].body : f \in fs \cap DOMAIN p.funcs}
                    \cup UNION {ClauseBodies(p.handlers[h]) : h \in hs}
        fs2 == fs \cup UNION {CalleesIn(b) : b \in bodies}
        hs2 == hs \cup UNION {HandlersIn(b) : b \in bodies}
    IN  IF fs2 = fs /\ hs2 = hs THEN fs ELSE LiveFrom(p, fs2, hs2)

LiveCallsExist ==
    LET live == LiveFrom(core, {1}, {})
    IN  /\ live \subseteq DOMAIN core.funcs
        /\ phase = "shrink" /\ sweeps = 0 => live = DOMAIN core.funcs


(* Staging ends, whatever the program: with a program or with an error.    *)
Ends == <>Ended
=============================================================================
