-------------------------- MODULE ObservationStore --------------------------
(***************************************************************************)
(* What an OIN node promises about Observations, with no threads, files or *)
(* transactions: an accepted Observation stays, an accepted pair is only   *)
(* ever related by its one correct classification, and by the time the     *)
(* node has answered "created" for two Observations of one Object, the     *)
(* relation between them is on record.                                     *)
(***************************************************************************)
EXTENDS Observations

VARIABLES
    accepted,   \* the Observations the node holds
    links,      \* the classified pairs
    answered    \* the Observations some "created" answer was sent for

storeVars == <<accepted, links, answered>>

StoreTypeOK ==
    /\ accepted \subseteq Signed
    /\ answered \subseteq accepted
    /\ \A r \in links : \E a, b \in accepted :
          SameObject(a, b) /\ r = ConflictRow(a, b)

StoreInit ==
    /\ accepted = {}
    /\ links = {}
    /\ answered = {}

(* The pairs on record. *)
Related(rows, a, b) == \E r \in rows : r.pair = {a, b}

(* A verified Observation is stored, for good. *)
Accept(o) ==
    /\ o \in Signed
    /\ accepted' = accepted \cup {o}
    /\ UNCHANGED <<links, answered>>

(* Relations between stored Observations are added, and o is answered once
   it is related to every Observation of its Object answered before it. *)
Answer(o) ==
    /\ o \in accepted
    /\ \E new \in SUBSET {s \in accepted : SameObject(s, o)} :
          links' = links \cup {ConflictRow(s, o) : s \in new}
    /\ \A s \in answered : SameObject(s, o) => Related(links', s, o)
    /\ answered' = answered \cup {o}
    /\ UNCHANGED accepted

StoreNext == \E o \in Observation : Accept(o) \/ Answer(o)

StoreSpec == StoreInit /\ [][StoreNext]_storeVars
=============================================================================
