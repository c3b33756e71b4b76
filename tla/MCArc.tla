------------------------------- MODULE MCArc -------------------------------
(* A small instance of CieloArc for TLC: two malloc cells that are made     *)
(* again after they were freed, counts of two bits, a pooled string, and a  *)
(* pooled constructor with the string in a field.                           *)
EXTENDS CieloArc, TLC
CONSTANTS Text, Box
MCPooledField == [f \in Pooled \X Index |-> IF f = <<Box, 1>> THEN Text ELSE Unit]
MCSymmetry == Permutations(Root) \cup Permutations(Heap)
=============================================================================
