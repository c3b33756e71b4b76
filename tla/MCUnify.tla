------------------------------- MODULE MCUnify -------------------------------
(***************************************************************************)
(* An instance of Unify: lists and pairs of which Int, List[Int] and       *)
(* Pair[Int, List[Int]] are interned, and written types of depth one over  *)
(* variables; deeper types arise by binding.                               *)
(***************************************************************************)
EXTENDS Unify, TLC

CONSTANTS IntTy, ListInt, PairInt, List, Pair

MCShape ==
    (ListInt :> [name |-> List, args |-> <<IntTy>>]) @@
    (PairInt :> [name |-> Pair, args |-> <<IntTy, ListInt>>])
MCSize == (IntTy :> 0) @@ (ListInt :> 1) @@ (PairInt :> 2)

MCWritten ==
    {[name |-> List, args |-> <<n>>] : n \in Var} \cup
    {[name |-> Pair, args |-> s] : s \in {t \in Var \X Var : t[1] # t[2]}}

MCSymmetry == Permutations(Var) \cup Permutations(App)
==============================================================================
