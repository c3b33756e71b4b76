----------------------------- MODULE MCHandlers -----------------------------
(* Instances of CieloHandlers for TLC: operations a1 and a2 of A, b of B.   *)
EXTENDS CieloHandlers, TLC
CONSTANTS A, B, a1, a2, b
MCEffectOf == [o \in Op |-> IF o = b THEN B ELSE A]
MCSymmetry == Permutations(Evid) \cup Permutations(Op \ {b})
=============================================================================
