---------------------------- MODULE MCIngestNode ----------------------------
(***************************************************************************)
(* Small instances of IngestNode for TLC.                                  *)
(*                                                                         *)
(* o1, o2 and o3 are Observations of one page, a.  o1 and o3 carry the     *)
(* same bytes, captured 601 seconds apart by one Observer; o2 is what      *)
(* another Observer saw 300 seconds after o1 (the edge of the window) and  *)
(* 301 before o3.  bad is a manifest whose signature does not verify.      *)
(* o4 is an Observation of a second page, b.                               *)
(***************************************************************************)
EXTENDS IngestNode, TLC

CONSTANTS o1, o2, o3, o4, bad,      \* Observations
          a, b,                     \* Objects
          w1, w2                    \* Workers

PagesOf(o) == IF o = o4 THEN b ELSE a

MCObjectOf == [o \in Observation |-> PagesOf(o)]

MCObserverOf == [o \in Observation |-> IF o = o2 THEN "observer-b" ELSE "observer-a"]

MCContentOf ==
    [o \in Observation |->
       CASE o = o1 -> "c1" [] o = o2 -> "c2" [] o = o3 -> "c1" [] OTHER -> "c4"]

SameContent == [o \in Observation |-> "c1"]

(* Every capture writes a new archive: its WARC headers are its own. *)
MCArchiveOf == [o \in Observation |-> <<"archive of", o>>]

MCArchive == {<<"archive of", o>> : o \in Observation}

MCCapturedAt ==
    [o \in Observation |->
       CASE o = o1 -> 0 [] o = o2 -> 300 [] o = o3 -> 601 [] OTHER -> 700]

(* canonical_url leaves the resource type out, object_id does not. *)
MCUrlOf == [x \in Object |-> <<"url of", x>>]

MCUrl == {<<"url of", x>> : x \in Object} \cup {<<"url of", "both">>}

OneUrl == [x \in Object |-> <<"url of", "both">>]

Workers == Permutations({w1, w2})
=============================================================================
