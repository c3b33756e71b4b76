---------------------------- MODULE ConstantTable -----------------------------
(***************************************************************************)
(* The table of constants (passes/constant_table.rs): literals and         *)
(* constructors of literals that are worth a static object, as long as the *)
(* budget lasts.  A program here has no strings.  The expressions counted  *)
(* are those of the program; the code also counts the ones that earlier    *)
(* passes left behind in its arena.                                        *)
(***************************************************************************)
EXTENDS StagingCore

CONSTANTS MaxEntryBytes,    \* MAX_CONST_ENTRY_BYTES
          MaxPoolBytes,     \* MAX_CONST_POOL_BYTES
          LargeBytes        \* LARGE_SERIALIZABLE_POOL_BYTES
ASSUME PoolAssumption == {MaxEntryBytes, MaxPoolBytes, LargeBytes} \subseteq Nat

ValueBytes == 16
CtorBytes == 32

(* Every expression of the program, as often as it occurs.                 *)
RECURSIVE ExprSeq(_), StmtExprSeq(_)
ExprSeq(e) == <<e>> \o FlattenSeq([i \in DOMAIN e.args |-> ExprSeq(e.args[i])])
StmtExprSeq(s) ==
    FlattenSeq([i \in DOMAIN s.args |-> ExprSeq(s.args[i])])
    \o FlattenSeq([i \in DOMAIN ChildSeq(s) |-> StmtExprSeq(ChildSeq(s)[i])])

HandlerExprSeq(h) ==
    StmtExprSeq(h.ret)
    \o FlattenSeq([i \in DOMAIN h.clauses |-> StmtExprSeq(h.clauses[i].body)])

AllExprs(p) ==
    FlattenSeq([f \in DOMAIN p.funcs |-> StmtExprSeq(p.funcs[f].body)])
    \o FlattenSeq([h \in DOMAIN p.handlers |-> HandlerExprSeq(p.handlers[h])])

(* A key is a literal, or a constructor all of whose fields have keys.     *)
IsScalarKey(e) == e.k = "Lit" /\ e.lit.t \in {"Int", "Bool"}

RECURSIVE IsFieldKey(_)
IsFieldKey(e) ==
    \/ e.k = "Lit"
    \/ e.k = "MakeEnum" /\ \A a \in Elems(e.args) : IsFieldKey(a)
IsCtorKey(e) == e.k = "MakeEnum" /\ IsFieldKey(e)

UseCount(es, key) == Cardinality({i \in DOMAIN es : es[i] = key})

RECURSIVE EstimatedBytes(_)
FieldBytes(e) ==
    CASE e.k = "MakeEnum" -> EstimatedBytes(e)
      [] e.k = "Lit" -> IF e.lit.t = "Int" THEN 8 ELSE 1
EstimatedBytes(e) ==
    ValueBytes + CtorBytes + ValueBytes * Len(e.args)
    + FoldSeq(LAMBDA a, n : FieldBytes(a) + n, 0, e.args)

KeyBytes(key) == IF key.k = "Lit" THEN ValueBytes ELSE EstimatedBytes(key)

(* The keys that are worth an entry: scalars first, in their order.        *)
QualifyingScalars(es) == {k \in Elems(es) : IsScalarKey(k) /\ UseCount(es, k) >= 2}
QualifyingCtors(es) ==
    {k \in Elems(es) : IsCtorKey(k) /\ (UseCount(es, k) >= 2 \/ EstimatedBytes(k) >= LargeBytes)}

ScalarBelow(a, b) ==
    \/ a.lit.t = "Bool" /\ b.lit.t = "Int"
    \/ a.lit.t = b.lit.t /\ a.lit.n < b.lit.n

Fits(table, key) ==
    /\ KeyBytes(key) <= MaxEntryBytes
    /\ table.used + KeyBytes(key) <= MaxPoolBytes

TryReserve(table, key) ==
    IF Fits(table, key)
    THEN [entries |-> Append(table.entries, key), used |-> table.used + KeyBytes(key)]
    ELSE table

BuildConstantTable(p) ==
    LET es == AllExprs(p)
        keys == SetToSortSeq(QualifyingScalars(es), ScalarBelow) \o SetToSeq(QualifyingCtors(es))
    IN  FoldLeft(TryReserve, [entries |-> <<>>, used |-> 0], keys)
=============================================================================
