----------------------------- MODULE MCLiveness -----------------------------
(***************************************************************************)
(* Small programs for CfgLiveness: every block has one instruction.  A     *)
(* value is defined once, by a parameter or an instruction, and there are  *)
(* at most two uses.  Lowering pushes a statement's continuation before    *)
(* the statement, so successors mostly have the smaller index; a shared    *)
(* resumption's blocks come before their arms, and a cycle is what the     *)
(* analysis has to survive although lowering makes none.                   *)
(***************************************************************************)
EXTENDS CfgLiveness
CONSTANTS v, w, None

Read(vals) ==
    [kind |-> "read",
     args |-> [k \in 1 .. Cardinality(vals) |->
                 [val |-> IF Cardinality(vals) = 1 THEN CHOOSE x \in vals : TRUE
                          ELSE IF k = 1 THEN v ELSE w,
                  via |-> "direct"]]]

(* def : value -> <<block, "param" or "inst">>; use : set of <<block, site, value>> *)
MCProgram(succ, def, use) ==
    LET size == Len(succ)
        read(b, i) == Read({x \in DOMAIN def : <<b, i, x>> \in use})
        defined(b, how) == {x \in DOMAIN def : def[x] = <<b, how>>}
        pick(S) == CHOOSE x \in S : TRUE
    IN  [params |-> [b \in 1 .. size |->
                       IF defined(b, "param") = {} THEN <<>>
                       ELSE IF Cardinality(defined(b, "param")) = 2 THEN <<v, w>>
                       ELSE <<pick(defined(b, "param"))>>],
         insts |-> [b \in 1 .. size |->
                      <<[kind |-> "let",
                         result |-> IF defined(b, "inst") = {} THEN None ELSE pick(defined(b, "inst")),
                         expr |-> read(b, 1)]>>],
         term |-> [b \in 1 .. size |->
                     [kind |-> "branch", succ |-> succ[b], expr |-> read(b, 2)]]]

Family(graphs, size, values) ==
    {MCProgram(succ, def, use) :
        succ \in graphs,
        def \in {d \in [values -> (1 .. size) \X {"param", "inst"}] :
                   \A x, y \in values : x # y /\ d[x] = d[y] => d[x][2] = "param"},
        use \in {{s, t} : s, t \in (1 .. size) \X {1, 2} \X values}}

(* Down a chain; a branch that skips a block; a join before its arms; a    *)
(* cycle.  With four blocks: a diamond, and a shared resumption.           *)
MCPrograms ==
    Family({<< <<>>, <<1>>, <<2>> >>, << <<>>, <<1>>, <<1, 2>> >>,
            << <<2>>, <<>>, <<2, 1>> >>, << <<>>, <<1, 3>>, <<2>> >>}, 3, {v, w})
    \cup Family({<< <<>>, <<1>>, <<1>>, <<3, 2>> >>, << <<2>>, <<3, 4>>, <<>>, <<3>> >>}, 4, {v})
=============================================================================
