----------------------------- MODULE FunctionGraph ----------------------------
(***************************************************************************)
(* Which functions a program reaches from main, its first function, and    *)
(* what is left of it without the others (cielo-ir/src/function_graph.rs). *)
(* The functions that are kept move up into the places of those that are   *)
(* not, so every reference to one has to be renamed.                       *)
(***************************************************************************)
EXTENDS StagingCore

(* The handlers that are installed below a statement.                      *)
HandlersIn(s) == {t.handler : t \in {u \in Graph(s) : u.k = "Handle"}}

CalleesIn(s) ==
    {t.fn : t \in {u \in Graph(s) : u.k = "Call"}}
    \cup {e.fn : e \in {a \in ExprsBelow(s) : a.k \in {"PureCall", "MakeClosure"}}}

(* Everything reached from a set of [funcs, handlers], handlers' own       *)
(* bodies included.                                                        *)
RECURSIVE ReachedFrom(_, _, _)
ReachedFrom(p, fs, hs) ==
    LET bodies == {p.funcs[f].body : f \in fs} \cup UNION {ClauseBodies(p.handlers[h]) : h \in hs}
        fs2 == fs \cup UNION {CalleesIn(b) : b \in bodies}
        hs2 == hs \cup UNION {HandlersIn(b) : b \in bodies}
    IN  IF fs2 = fs /\ hs2 = hs THEN fs ELSE ReachedFrom(p, fs2, hs2)

ReachableFunctions(p) == ReachedFrom(p, {1}, {})

(* Faulty: the references keep the numbers from before. *)
FaultyDenseRemap(p, kept) ==
    [f \in DOMAIN p.funcs |-> IF f \in kept THEN f ELSE Len(p.funcs) + 1]

(* The number of a function among those that are kept; one past the end    *)
(* for a function that is not.                                             *)
DenseRemap(p, kept) ==
    [f \in DOMAIN p.funcs |->
       IF f \in kept THEN Cardinality({g \in kept : g <= f}) ELSE Len(p.funcs) + 1]

(* One past the end is also where a call goes that had no function before. *)
RemapFunc(m, f) == IF f \in DOMAIN m THEN m[f] ELSE Len(m) + 1

RECURSIVE RemapExpr(_, _), RemapStmt(_, _)
RemapExpr(m, e) ==
    LET d == [e EXCEPT !.args = [i \in DOMAIN e.args |-> RemapExpr(m, e.args[i])]]
    IN  IF e.k \in {"PureCall", "MakeClosure"} THEN [d EXCEPT !.fn = RemapFunc(m, @)] ELSE d

RemapBelow(m, s) ==
    CASE s.k = "Return" -> s
      [] s.k \in {"If", "Match"} ->
           [s EXCEPT !.arms = [i \in DOMAIN s.arms |-> RemapStmt(m, s.arms[i])]]
      [] s.k \in {"Handle", "Stage"} -> [s EXCEPT !.body = RemapStmt(m, @)]
      [] s.k = "Val" -> [s EXCEPT !.value = RemapStmt(m, @), !.next = RemapStmt(m, @)]
      [] OTHER -> [s EXCEPT !.next = RemapStmt(m, @)]

RemapStmt(m, s) ==
    LET t == [RemapBelow(m, s) EXCEPT
                !.args = [i \in DOMAIN s.args |-> RemapExpr(m, s.args[i])]]
    IN  IF s.k = "Call" THEN [t EXCEPT !.fn = RemapFunc(m, @)] ELSE t

PruneUnreachable(p) ==
    LET kept == ReachableFunctions(p)
        remapped(s) == RemapStmt(DenseRemap(p, kept), s)
        q == WithBodies(p, remapped)
        order == SetToSortSeq(kept, <)
    IN  [q EXCEPT !.funcs = [i \in DOMAIN order |-> q.funcs[order[i]]]]
=============================================================================
