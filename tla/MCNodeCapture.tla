---------------------------- MODULE MCNodeCapture ----------------------------
(***************************************************************************)
(* Small instances of NodeCapture for TLC.                                 *)
(***************************************************************************)
EXTENDS NodeCapture, TLC

CONSTANTS w1, w2, k1, k2, k3, a1, a2

Renamings == Permutations(Worker) \cup Permutations(Key) \cup Permutations(Address)
=============================================================================
