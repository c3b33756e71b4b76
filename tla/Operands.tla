------------------------------- MODULE Operands --------------------------------
(***************************************************************************)
(* Expressions over variables or over values of blocks, what they evaluate *)
(* to, and which way a branch on one goes.                                 *)
(***************************************************************************)
EXTENDS Integers, Sequences

Elems(s) == {s[i] : i \in DOMAIN s}

Var(x) == [base |-> 0, vars |-> <<x>>]
Op(n, xs) == [base |-> n, vars |-> xs]

(* The value of an expression; Var(x) has the value of x.                  *)
ValueOf(e, env) ==
    LET upto[n \in Nat] == IF n = 0 THEN e.base ELSE 3 * upto[n - 1] + env[e.vars[n]]
    IN  upto[Len(e.vars)]

(* Which of n arms a value selects; the first of two is the true one.      *)
Selected(v, n) == n - (v % n)
=============================================================================
