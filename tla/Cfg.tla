--------------------------------- MODULE Cfg ---------------------------------
(***************************************************************************)
(* Programs in block form (cielo-ir/src/cfg.rs), as the reference-counting *)
(* passes of cielo-memory read them.  A program is a record                *)
(*                                                                         *)
(*   params : for each block, the values its parameters define             *)
(*   insts  : for each block, its instructions                             *)
(*   term   : for each block, its terminator                               *)
(*                                                                         *)
(* An instruction [kind, result, expr] is a "let" or an "eval"; the others *)
(* define and use nothing.  A terminator [kind, expr, succ] lists its      *)
(* successors in order; the arm of a match has its binders as parameters.  *)
(* An expression [kind, args] holds the occurrences of values in it.  Each *)
(* occurrence [val, via] is an operand itself ("direct"), or the operand   *)
(* of a field projection ("field") or a call ("call") nested in place.     *)
(* Deeper nesting, operators and literals make no difference to ownership. *)
(***************************************************************************)
EXTENDS Naturals, Sequences

CONSTANT Value      \* CfgValueIds

Elems(s) == {s[k] : k \in DOMAIN s}

Blocks(p) == DOMAIN p.params

(* The sites of a block: its instructions, and then its terminator.        *)
Last(p, b) == Len(p.insts[b]) + 1
Sites(p, b) == 1 .. Last(p, b)

ExprAt(p, b, i) == IF i = Last(p, b) THEN p.term[b].expr ELSE p.insts[b][i].expr

Uses(p, b, i) == {o.val : o \in Elems(ExprAt(p, b, i).args)}

Defs(p, b, i) == IF i = Last(p, b) THEN {} ELSE {p.insts[b][i].result}

Params(p, b) == Elems(p.params[b])

Successors(p, b) == Elems(p.term[b].succ)

(* Blocks and sites are numbered, and edges and values exist.              *)
Numbered(p) ==
    /\ Len(p.params) \in Nat /\ Blocks(p) = 1 .. Len(p.params)
    /\ \A b \in Blocks(p) : /\ Successors(p, b) \subseteq Blocks(p)
                            /\ Len(p.insts[b]) \in Nat /\ DOMAIN p.insts[b] = 1 .. Len(p.insts[b])
                            /\ \A i \in Sites(p, b) : Uses(p, b, i) \subseteq Value

(* What a block reads before it defines it, and what it defines.           *)
Exposed(p, b) ==
    {v \in Value : \E i \in Sites(p, b) : /\ v \in Uses(p, b, i) \ Params(p, b)
                                          /\ \A j \in 1 .. i - 1 : v \notin Defs(p, b, j)}

BlockDefs(p, b) == Params(p, b) \cup UNION {Defs(p, b, i) : i \in Sites(p, b)}

-----------------------------------------------------------------------------
(* Liveness, as the least solution of its equations.                       *)

OutOf(p, in, b) == UNION {in[s] : s \in Successors(p, b)}

InOf(use, def, out) == use \cup (out \ def)

(* A value travels backwards along a path without repeated blocks, so as   *)
(* many rounds as there are blocks reach the least solution.               *)
LeastLiveIn(p) ==
    LET use == [b \in Blocks(p) |-> Exposed(p, b)]
        def == [b \in Blocks(p) |-> BlockDefs(p, b)]
        round[n \in Nat] ==
          IF n = 0 THEN [b \in Blocks(p) |-> {}]
          ELSE LET last == round[n - 1]
               IN  [b \in Blocks(p) |-> InOf(use[b], def[b], OutOf(p, last, b))]
    IN  round[Len(p.params)]

(* Values needed after site i of block b, given those live out of it: the  *)
(* backward scan of find_last_uses.  Site 0 is the entry of the block.     *)
LiveAfter(p, out, b) ==
    LET after[i \in 0 .. Last(p, b)] ==
          IF i = Last(p, b) THEN out
          ELSE (after[i + 1] \ Defs(p, b, i + 1)) \cup Uses(p, b, i + 1)
    IN  after
=============================================================================
