------------------------------ MODULE MCCfgArc ------------------------------
(***************************************************************************)
(* Small functions f(a, b, c), a and b managed and c a scalar, for CfgArc. *)
(* The entry block hands control to the body, as lowering makes it; blocks *)
(* are numbered successors first.  Templates: a straight line, a branch    *)
(* whose arms join, a match, a match after a join, a call as a terminator, *)
(* and a continuation that two resume sites share.                         *)
(***************************************************************************)
EXTENDS CfgArc, TLC

a == 1
b == 2
c == 3
x == 4
y == 5
p == 6
u == 7
w == 8
z == 9              \* a discarded scalar, or the label of a resume site
MCValue == 1 .. 9

D(v) == [val |-> v, via |-> "direct"]
F(v) == [val |-> v, via |-> "field"]
C(v) == [val |-> v, via |-> "call"]
E(kind, args) == [kind |-> kind, args |-> args]
Let(r, e) == [kind |-> "let", result |-> r, expr |-> e]
Eval(r, e) == [kind |-> "eval", result |-> r, expr |-> e]
Term(kind, args, succ) == [kind |-> kind, succ |-> succ,
    expr |-> E(IF kind \in {"branch", "match"} THEN "read" ELSE "args", args)]
Return(o) == Term("return", <<o>>, <<>>)

(* Everything but c is managed by its type or for want of one, except a    *)
(* first instruction's result that the passes have to find out about.      *)
MCUntyped(blocks) ==
    {i \in 1 .. Len(blocks) : /\ blocks[i][2] # <<>> /\ blocks[i][2][1].kind = "let"
                              /\ blocks[i][2][1].expr.kind \in {"make", "call"}}

(* blocks: sequence of <<params, insts, term>>, without the entry.         *)
Prog(blocks) ==
    LET n == Len(blocks)
        get(k) == [i \in 1 .. n + 1 |->
                     IF i <= n THEN blocks[i][k]
                     ELSE << <<a, b, c>>, <<>>, Term("goto", <<>>, <<n>>) >>[k]]
    IN  [params |-> get(1), insts |-> get(2), term |-> get(3),
         facts |-> MCValue \ ({c} \cup {blocks[i][2][1].result : i \in MCUntyped(blocks)})]

(* First instructions, and second ones that also see x.                    *)
E1 == {E("value", <<D(a)>>), E("field", <<D(a)>>), E("make", <<D(a), D(b)>>),
       E("make", <<D(a), D(a)>>), E("call", <<D(a)>>), E("closure", <<D(a), D(b)>>),
       E("pooled", <<>>)}
I2 == {Let(y, E("value", <<D(x)>>)), Let(y, E("field", <<D(x)>>)),
       Let(y, E("make", <<D(a), D(x)>>)), Let(y, E("make", <<D(x), D(x)>>)),
       Let(y, E("make", <<F(x), D(x)>>)), Let(y, E("call", <<C(x), F(a)>>)),
       Let(y, E("closure", <<D(x), D(x)>>)), Let(y, E("closure", <<D(a), C(x)>>)),
       Eval(y, E("call", <<D(x), D(a)>>)), Eval(z, E("read", <<D(x), D(a)>>))}

Straight ==
    {Prog(<< << <<>>, <<Let(x, e), i>>, Return(o) >> >>) :
       e \in E1, i \in I2, o \in {D(a), D(x), F(x), C(b)}}
    \cup {Prog(<< << <<>>, <<Let(x, e), i>>, Return(D(y)) >> >>) :
            e \in E1, i \in {j \in I2 : j.kind = "let"}}

Branching ==
    {Prog(<< << <<p>>, join[1], Return(join[2]) >>,
             << <<>>, <<>>, Term("goto", <<no>>, <<1>>) >>,
             << <<>>, <<Let(y, E("make", <<D(yes), D(b)>>))>>, Term("goto", <<D(y)>>, <<1>>) >>,
             << <<>>, <<Let(x, e)>>, Term("branch", <<D(c)>>, <<3, 2>>) >> >>) :
       e \in {E("value", <<D(a)>>), E("make", <<D(a), D(b)>>), E("call", <<D(a)>>)},
       yes \in {a, x}, no \in {D(b), F(x), C(a), D(c)},
       join \in {<< <<>>, D(p)>>, << <<>>, D(a)>>, << <<>>, D(c)>>,
                 << <<Eval(z, E("read", <<D(p)>>))>>, D(a)>>}}

(* The arm of a match is a block that forwards to the arm's body.          *)
Arms(args, onMatch, otherwise, scrutinee, before) ==
    << << <<>>, <<>>, Return(otherwise) >>,
       << <<>>, args, Return(onMatch) >>,
       << <<u, w>>, <<>>, Term("goto", <<>>, <<2>>) >>,
       << before[1], before[2], Term("match", <<D(scrutinee)>>, <<3, 1>>) >> >>

Matching ==
    {Prog(Arms(args, result, otherwise, x, << <<>>, <<Let(x, e)>> >>)) :
       e \in {E("value", <<D(a)>>), E("make", <<D(a), D(b)>>), E("call", <<D(a)>>),
              E("pooled", <<>>)},
       args \in {<<>>, <<Let(y, E("make", <<D(u), D(w)>>))>>, <<Let(y, E("make", <<D(u), D(x)>>))>>},
       result \in {D(u), D(a)}, otherwise \in {D(b), D(x), D(c)}}
    \cup {Prog(Arms(<<Let(p, E("make", <<D(u), D(again)>>))>>, D(p), D(b), y,
                    << <<>>, <<Let(x, E("make", <<D(a), D(b)>>)), Let(y, E("value", <<D(x)>>))>> >>)) :
            again \in {x, w}}

(* What is matched arrives over two edges.                                 *)
JoinMatching ==
    {Prog(Arms(<<>>, D(u), otherwise, p, << <<p>>, <<>> >>)
          \o << << <<>>, <<Let(y, e)>>, Term("goto", <<D(y)>>, <<4>>) >>,
                << <<>>, <<Let(x, E("make", <<D(a), D(b)>>))>>, Term("goto", <<D(x)>>, <<4>>) >>,
                << <<>>, <<>>, Term("branch", <<D(c)>>, <<6, 5>>) >> >>) :
       e \in {E("make", <<D(b), D(b)>>), E("pooled", <<>>), E("value", <<D(a)>>)},
       otherwise \in {D(p), D(a), D(c)}}

Calling ==
    {Prog(<< << <<y>>, <<>>, Return(o) >>,
             << <<>>, <<Let(x, e)>>, Term("call", args, <<1>>) >> >>) :
       e \in {E("value", <<D(a)>>), E("make", <<D(a), D(b)>>)},
       args \in {<<D(x)>>, <<D(x), D(a)>>, <<D(x), D(x)>>, <<F(x), D(b)>>},
       o \in {D(y), D(a), D(x), D(c)}}

(* A continuation that two resume sites share: the sites jump to its entry *)
(* with a label, and its end dispatches on the label.                      *)
Sharing ==
    {Prog(<< << <<p, z>>, <<>>, Term("goto", <<>>, <<3>>) >>,
             << <<u>>, <<>>, Term("branch", <<D(z)>>, <<6, 4>>) >>,
             << <<>>, <<Let(y, k)>>, Term("goto", <<D(y)>>, <<2>>) >>,
             << <<>>, <<>>, Return(first) >>,
             << <<>>, <<>>, Term("goto", <<one, D(c)>>, <<1>>) >>,
             << <<>>, <<>>, Return(second) >>,
             << <<>>, <<>>, Term("goto", <<two, D(c)>>, <<1>>) >>,
             << <<>>, <<Let(x, e)>>, Term("branch", <<D(c)>>, <<7, 5>>) >> >>) :
       e \in {E("value", <<D(a)>>), E("make", <<D(a), D(b)>>)},
       one \in {D(a), D(x)}, two \in {D(b), F(x)},
       k \in {E("value", <<D(p)>>), E("make", <<D(p), D(a)>>), E("call", <<D(p)>>)},
       first \in {D(u), D(x), D(c)}, second \in {D(u), D(a)}}

All == Straight \cup Branching \cup Matching \cup JoinMatching \cup Calling
       \cup Sharing

MCPrograms == {pr \in All : Unnested(pr)}
MCNested == {Prog(<< << <<>>, <<Let(y, e)>>, Return(D(y)) >> >>) :
               e \in {E("make", <<C(a), F(a)>>), E("closure", <<D(a), C(a)>>)}}

(* a points to cell 1, whose first field is cell 2.  b is a cell of its    *)
(* own, or the same one; the caller may keep a reference to a.             *)
MCHeap(alias, kept) ==
    [env |-> [v \in Value |-> CASE v = a -> 1
                                [] v = b -> (IF alias THEN 1 ELSE 3)
                                [] OTHER -> Unit],
     born |-> 3,
     count |-> [k \in Cell |-> CASE k = 1 -> 1 + (IF alias THEN 1 ELSE 0) + (IF kept THEN 1 ELSE 0)
                                 [] k = 2 -> 1
                                 [] k = 3 -> IF alias THEN 0 ELSE 1
                                 [] OTHER -> 0],
     kids |-> [k \in Cell |-> IF k = 1 THEN <<2, Unit>> ELSE <<Unit, Unit>>],
     others |-> [k \in Cell |-> IF k = 1 /\ kept THEN 1 ELSE 0]]
MCHeaps == {MCHeap(FALSE, FALSE), MCHeap(TRUE, FALSE), MCHeap(FALSE, TRUE)}
=============================================================================
