--------------------------- MODULE MCOperatorDemo ---------------------------
(***************************************************************************)
(* Small instances of OperatorDemo for TLC.                                *)
(***************************************************************************)
EXTENDS OperatorDemo, TLC

CONSTANTS oa, ob, k1, k2, k3, c1, c2

Renamings == Permutations(Operator) \cup Permutations(Key) \cup Permutations(Observation)
=============================================================================
