--------------------------- MODULE MCReplication ---------------------------
(***************************************************************************)
(* Small instances of Replication for TLC.  o1 and o2 carry the same bytes *)
(* of page a, captured at different times; o3 has the same URL as another  *)
(* type of resource, page b.                                               *)
(***************************************************************************)
EXTENDS Replication

CONSTANTS o1, o2, o3, a, b, n1, n2, n3

MCObjectOf == [o \in Observation |-> IF o = o3 THEN b ELSE a]

MCObserverOf == [o \in Observation |-> "observer"]

MCContentOf == [o \in Observation |-> IF o = o3 THEN "other" ELSE "same"]

MCArchiveOf == [o \in Observation |-> o]

MCCapturedAt == [o \in Observation |-> IF o = o1 THEN 0 ELSE 601]

MCUrlOf == [x \in Object |-> "url"]

(* n1 pulls from n2, and the mirror n3 from n1. *)
Chain == {<<n1, n2>>, <<n3, n1>>}

(* n1 serves the mirror n3. *)
OneMirror == {<<n3, n1>>}
=============================================================================
