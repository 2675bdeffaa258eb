-------------------------- MODULE MCDiscoveryAudit --------------------------
(***************************************************************************)
(* Small instances of DiscoveryAudit for TLC.                              *)
(***************************************************************************)
EXTENDS DiscoveryAudit, TLC

CONSTANTS w1, w2, w3

Workers == Permutations(Worker)

Issued(operator, updated, expires) ==
    [operator_id |-> operator, updated_at |-> updated, expires_at |-> expires, genuine |-> TRUE]

(* Revision b1 lists two descriptors of one operator, a forged one and one that
   expires early; b2 lists the node itself, and an operator out of order. *)
MCListed(b) ==
    IF b = "b1"
    THEN <<Issued("p", 0, 1), Issued("q", 0, 1), Issued("p", 1, 2),
           [Issued("p", 2, 3) EXCEPT !.genuine = FALSE]>>
    ELSE <<Issued("self", 0, 1), Issued("q", 1, 2), Issued("q", 0, 1)>>
=============================================================================
