---------------------------- MODULE Observations ----------------------------
(***************************************************************************)
(* The signed Observations a node handles, and the pure rules over them.   *)
(*                                                                         *)
(* An Observation is a manifest that observation/service.py built: its     *)
(* identifier is the hash of its own content, so the identifier stands for *)
(* the whole manifest and every field is a function of it.  Hashes are     *)
(* taken to be injective: a content hash is a member of Content, an        *)
(* archive hash (with its format) a member of Archive.                     *)
(***************************************************************************)
EXTENDS Integers

CONSTANTS
    Observation,    \* manifests, each named by its observation_id
    Object,         \* object_id values
    Observer,       \* observer_id values, each the hash of one public key
    Content,        \* raw_content_hash values
    Archive,        \* storage keys: archive hash and format
    Url,            \* canonical_url values
    Signed,         \* the manifests whose identifier and signature verify
    objectOf,       \* manifest["object"]["object_id"]
    observerOf,     \* manifest["observer"]["observer_id"]
    contentOf,      \* manifest["content"]["raw_content_hash"]
    archiveOf,      \* archive_key(manifest)
    capturedAt,     \* manifest["capture"]["captured_at"], in seconds
    urlOf,          \* manifest["object"]["canonical_url"], one per Object
    Evidence        \* the kinds of timestamp evidence that requests bring

ASSUME ObservationAssumption ==
    /\ Observation # {}
    /\ Signed \subseteq Observation
    /\ objectOf \in [Observation -> Object]
    /\ observerOf \in [Observation -> Observer]
    /\ contentOf \in [Observation -> Content]
    /\ archiveOf \in [Observation -> Archive]
    /\ capturedAt \in [Observation -> Int]
    /\ urlOf \in [Object -> Url]
    /\ Evidence # {}
    /\ Evidence \subseteq {"none", "local-declaration", "rfc3161"}

(* The window, in seconds, inside which two captures count as simultaneous. *)
SimultaneousWindow == 300

Classification ==
    {"identical_content", "observation_divergence", "temporal_variation"}

(* What is known of timestamp evidence: "rfc3161" is a token that verifies for
   its manifest, "local-declaration" any other evidence, "none" its absence. *)
Declared == Evidence \ {"none"}

(* Mutation: the sign of the distance is kept. *)
CapturedSoonAfter(a, b) == capturedAt[a] - capturedAt[b] <= SimultaneousWindow

(* The distance between the captures, bounds included in the window. *)
Simultaneous(a, b) ==
    /\ capturedAt[a] - capturedAt[b] <= SimultaneousWindow
    /\ capturedAt[b] - capturedAt[a] <= SimultaneousWindow

(* How two Observations of one Object relate. *)
Classify(a, b) ==
    IF contentOf[a] = contentOf[b] THEN "identical_content"
    ELSE IF Simultaneous(a, b) THEN "observation_divergence"
    ELSE "temporal_variation"

(* Only different Observers can be candidates for a conflict. *)
ConflictCandidate(a, b) ==
    /\ Classify(a, b) = "observation_divergence"
    /\ observerOf[a] # observerOf[b]

(* The row of the conflicts table for two Observations.  The code sorts the
   two identifiers, so the row is keyed by the unordered pair. *)
ConflictRow(a, b) ==
    [pair |-> {a, b},
     classification |-> Classify(a, b),
     is_conflict_candidate |-> ConflictCandidate(a, b)]

(* The Observations a row could relate to o. *)
SameObject(a, b) == a # b /\ objectOf[a] = objectOf[b]
=============================================================================
