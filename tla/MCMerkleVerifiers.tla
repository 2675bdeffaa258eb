------------------------- MODULE MCMerkleVerifiers -------------------------
(***************************************************************************)
(* Small instances of MerkleVerifiers for TLC: entries are numbers.        *)
(***************************************************************************)
EXTENDS MerkleVerifiers

CONSTANTS
    MaxDistinct,    \* bound: lines of a log whose entries all differ
    MaxRepeating    \* bound: lines of a log over two entries

MCEntry == 1 .. MaxDistinct

(* Every shape of tree once, and small logs that repeat their entries, as the
   log of a node does after a retry. *)
MCLogs ==
    {[i \in 1 .. n |-> i] : n \in 1 .. MaxDistinct}
       \cup UNION {[1 .. n -> {1, 2}] : n \in 1 .. MaxRepeating}
=============================================================================
