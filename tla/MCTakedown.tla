----------------------------- MODULE MCTakedown -----------------------------
(***************************************************************************)
(* Small instances of Takedown: r1 and r2 carry the same request_id with   *)
(* different contents, r3 has its own, and forged does not verify.         *)
(***************************************************************************)
EXTENDS Takedown, TLC

CONSTANTS r1, r2, r3, forged, id1, id2, w1, w2

MCIdOf == [r \in Request |-> IF r \in {r1, r2} THEN id1 ELSE id2]

Workers == Permutations({w1, w2})
=============================================================================
