----------------------------- MODULE NodeCapture -----------------------------
(***************************************************************************)
(* The capture endpoints of a node, from the gate to the stored bundle:    *)
(* fetching a page hop by hop (capture/http_capture.py), texts and files   *)
(* (capture/text_capture.py), the node's key, which the first request that *)
(* needs it creates (identity/keys.py), the evidence of a time-stamp       *)
(* authority (timestamp/rfc3161.py), and what verifiers make of the bundle *)
(* that is exported from the node (BundleVerifiers).                       *)
(*                                                                         *)
(* ingest() is one step here, which may save a proof that does not verify: *)
(* IngestNode models it and says when.  URLs are not modelled: whether the *)
(* host of one resolves to public addresses is asked before a connection,  *)
(* the connection resolves the host again, and nothing is said here about  *)
(* where it leads.                                                         *)
(***************************************************************************)
EXTENDS BundleVerifiers, PublicGate

CONSTANTS
    Worker,         \* the threads of the pool
    Key,            \* key pairs that can be generated
    NoKey,
    MaxRedirects,   \* DEFAULT_MAX_REDIRECTS: 5 in the code
    MaxRestarts     \* bound

ASSUME CaptureAssumption ==
    /\ IsFiniteSet(Worker)
    /\ Key \cap {NoKey, "none", "torn"} = {}
    /\ MaxRedirects \in Nat
    /\ MaxRestarts \in Nat

VARIABLES
    keyFile,        \* observer-private.pem: a key, "none" or "torn"
    usedKeys,       \* key pairs generated
    pc,             \* the next step of the thread
    job,            \* its local variables
    stored,         \* the Observations stored, as a bundle would have them
    restarts

vars == <<gateVars, keyFile, usedKeys, pc, job, stored, restarts>>

-----------------------------------------------------------------------------

KeyFile == Key \cup {"none", "torn"}

(* What a thread works on: a page, a text or file, or GET /v1/node. *)
Job == [source : Source \cup {"node_info"}, hops : 0 .. MaxRedirects,
        key : Key \cup {NoKey}, stamp : Stamp]

(* The evidence is a local declaration until the authority replies. *)
Asked(source) ==
    [source |-> source, hops |-> 0, key |-> NoKey, stamp |-> "declared"]

NoJob == Asked("node_info")

Steps == {"idle", "fetch", "find_key", "create_key", "fill_key", "load_key", "stamp", "ingest"}

Stored == [bundle : Bundle, key : Key]

TypeOK ==
    /\ GateTypeOK
    /\ keyFile \in KeyFile
    /\ usedKeys \subseteq Key
    /\ pc \in [Worker -> Steps]
    /\ job \in [Worker -> Job]
    /\ stored \subseteq Stored
    /\ restarts \in 0 .. MaxRestarts

Init ==
    /\ GateInit
    /\ keyFile = "none"
    /\ usedKeys = {}
    /\ pc = [w \in Worker |-> "idle"]
    /\ job = [w \in Worker |-> NoJob]
    /\ stored = {}
    /\ restarts = 0

At(w, step) == pc[w] = step

GoTo(w, step) == pc' = [pc EXCEPT ![w] = step]

Finish(w) == GoTo(w, "idle") /\ job' = [job EXCEPT ![w] = NoJob]

-----------------------------------------------------------------------------
(* requests *)

RequestPage(w, a) ==
    /\ At(w, "idle")
    /\ Pass(a)
    /\ job' = [job EXCEPT ![w] = Asked("page")]
    /\ GoTo(w, "fetch")
    /\ UNCHANGED <<keyFile, usedKeys, stored, restarts>>

RequestText(w, a) ==
    /\ At(w, "idle")
    /\ Pass(a)
    /\ job' = [job EXCEPT ![w] = Asked("text")]
    /\ GoTo(w, "find_key")
    /\ UNCHANGED <<keyFile, usedKeys, stored, restarts>>

(* A GET is not counted; it needs the key as well. *)
RequestNodeInfo(w) ==
    /\ At(w, "idle")
    /\ GoTo(w, "find_key")
    /\ UNCHANGED <<gateVars, keyFile, usedKeys, job, stored, restarts>>

(* 413, 400 or 422 come after the count. *)
Refused(a) ==
    /\ Pass(a)
    /\ UNCHANGED <<keyFile, usedKeys, pc, job, stored, restarts>>

TurnedAway(a) ==
    /\ TooMany(a)
    /\ UNCHANGED <<keyFile, usedKeys, pc, job, stored, restarts>>

-----------------------------------------------------------------------------
(* capture_url *)

(* validate_capture_url, before every connection, finds the URL of the request
   or of a redirect malformed, or its host not public only. *)
RejectUrl(w) ==
    /\ At(w, "fetch")
    /\ Finish(w)
    /\ UNCHANGED <<gateVars, keyFile, usedKeys, stored, restarts>>

(* Mutation: the limit is compared after the redirect. *)
MayFollowOneMore(w) == job[w].hops <= MaxRedirects

MayFollow(w) == job[w].hops < MaxRedirects

(* The client itself follows no redirects. *)
FollowRedirect(w) ==
    /\ At(w, "fetch")
    /\ MayFollow(w)
    /\ job' = [job EXCEPT ![w].hops = @ + 1]
    /\ UNCHANGED <<gateVars, keyFile, usedKeys, pc, stored, restarts>>

(* The page, of a size that is allowed. *)
ReadPage(w) ==
    /\ At(w, "fetch")
    /\ GoTo(w, "find_key")
    /\ UNCHANGED <<gateVars, keyFile, usedKeys, job, stored, restarts>>

(* No answer, too large an answer, or one redirect too many. *)
FetchFails(w) ==
    /\ At(w, "fetch")
    /\ Finish(w)
    /\ UNCHANGED <<gateVars, keyFile, usedKeys, stored, restarts>>

-----------------------------------------------------------------------------
(* observer_key *)

(* Mutation: a key is created whether there is one or not. *)
KeyNotLookedFor == FALSE

KeyExists == keyFile # "none"

FindKey(w) ==
    /\ At(w, "find_key")
    /\ GoTo(w, IF KeyExists THEN "load_key" ELSE "create_key")
    /\ UNCHANGED <<gateVars, keyFile, usedKeys, job, stored, restarts>>

(* The key is generated and its file opened, which makes it empty. *)
CreateKey(w) ==
    /\ At(w, "create_key")
    /\ \E k \in Key \ usedKeys :
          /\ usedKeys' = usedKeys \cup {k}
          /\ job' = [job EXCEPT ![w].key = k]
    /\ keyFile' = "torn"
    /\ GoTo(w, "fill_key")
    /\ UNCHANGED <<gateVars, stored, restarts>>

FillKey(w) ==
    /\ At(w, "fill_key")
    /\ keyFile' = job[w].key
    /\ GoTo(w, "load_key")
    /\ UNCHANGED <<gateVars, usedKeys, job, stored, restarts>>

LoadKey(w) ==
    /\ At(w, "load_key")
    /\ keyFile \in Key
    /\ IF job[w].source = "node_info"
       THEN Finish(w)
       ELSE /\ job' = [job EXCEPT ![w].key = keyFile]
            /\ \/ GoTo(w, "ingest")
               \/ job[w].source = "page" /\ GoTo(w, "stamp")
    /\ UNCHANGED <<gateVars, keyFile, usedKeys, stored, restarts>>

(* A file cut short is no key: 500, or 400 for a text or file, and nothing ever
   rewrites it. *)
LoadTorn(w) ==
    /\ At(w, "load_key")
    /\ keyFile \notin Key
    /\ Finish(w)
    /\ UNCHANGED <<gateVars, keyFile, usedKeys, stored, restarts>>

-----------------------------------------------------------------------------
(* the evidence, and what is stored *)

(* The whole reply of the authority is kept, with the certificate that
   OIN_TSA_CA_PEM names if that file is there.  Without a reply the declaration
   stays. *)
ObtainToken(w) ==
    /\ At(w, "stamp")
    /\ \E s \in Reply \cup {"declared"} : job' = [job EXCEPT ![w].stamp = s]
    /\ GoTo(w, "ingest")
    /\ UNCHANGED <<gateVars, keyFile, usedKeys, stored, restarts>>

(* Two threads that append to the log together give both lines one index, and
   the proof of one of them does not verify. *)
LogProofs == {"sound"} \cup {p \in {"unsound"} : Cardinality(Worker) > 1}

BundleOf(w, proof) ==
    [source |-> job[w].source, stamp |-> job[w].stamp, proof |-> proof, changed |-> {}]

Ingest(w) ==
    /\ At(w, "ingest")
    /\ \E proof \in LogProofs :
          stored' = stored \cup {[bundle |-> BundleOf(w, proof), key |-> job[w].key]}
    /\ Finish(w)
    /\ UNCHANGED <<gateVars, keyFile, usedKeys, restarts>>

(* Refused, or a step raises: a key that was being written stays torn. *)
Fail(w) ==
    /\ pc[w] \in {"create_key", "fill_key", "load_key", "stamp", "ingest"}
    /\ Finish(w)
    /\ UNCHANGED <<gateVars, keyFile, usedKeys, stored, restarts>>

Restart ==
    /\ restarts < MaxRestarts
    /\ restarts' = restarts + 1
    /\ pc' = [w \in Worker |-> "idle"]
    /\ job' = [w \in Worker |-> NoJob]
    /\ Forget
    /\ UNCHANGED <<keyFile, usedKeys, stored>>

TimePasses ==
    Tick /\ UNCHANGED <<keyFile, usedKeys, pc, job, stored, restarts>>

Next ==
    \/ \E w \in Worker :
          \/ \E a \in Address : RequestPage(w, a) \/ RequestText(w, a)
          \/ RequestNodeInfo(w)
          \/ RejectUrl(w) \/ FollowRedirect(w) \/ ReadPage(w) \/ FetchFails(w)
          \/ FindKey(w) \/ CreateKey(w) \/ FillKey(w) \/ LoadKey(w) \/ LoadTorn(w)
          \/ ObtainToken(w) \/ Ingest(w) \/ Fail(w)
    \/ \E a \in Address : Refused(a) \/ TurnedAway(a)
    \/ Restart
    \/ TimePasses

Spec == Init /\ [][Next]_vars

-----------------------------------------------------------------------------

Creating(w) == pc[w] \in {"create_key", "fill_key"}

Settled == keyFile \in Key /\ \A w \in Worker : ~ Creating(w)

(* A node does not change its identity: once its key file is whole and no
   thread is between finding none and writing one, the file stays as it is,
   over restarts too.  (While threads are there, two may write one each.) *)
KeyIsKept ==
    [][Settled => Settled' /\ keyFile' = keyFile]_vars

(* The keys that ever signed an Observation are no more than the threads that
   can be between finding no file and writing one. *)
KeysBoundedByThreads ==
    Cardinality({s.key : s \in stored}) <= Cardinality(Worker)

(* What GET /v1/verify answers VALID for is VALID to the offline verifier too:
   without the node of origin either will do
   (docs/Deployment_and_Operations.md:44). *)
NodeAndOfflineAgree ==
    \A s \in stored : NodeValid(s.bundle) => OfflineValid(s.bundle)
=============================================================================
