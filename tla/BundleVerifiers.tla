--------------------------- MODULE BundleVerifiers ---------------------------
(***************************************************************************)
(* What an offline bundle carries and the verdicts of the two programs     *)
(* that check one: verifier/offline.py and the node (GET /v1/verify).      *)
(*                                                                         *)
(* Hashes are injective and signatures are sound, so a check fails when    *)
(* one of the parts it relates was changed after it was written.  Changing *)
(* any field of the signed statement breaks its identifier and its         *)
(* signature, whatever else it breaks; the model keeps these two.  Of      *)
(* evidence.json the verifiers read very little, and of a file that is not *)
(* there nothing: it is optional.                                          *)
(***************************************************************************)

(* The parts of a bundle, as a change of one of them shows.  imprint is the
   hash in evidence.json that the time-stamp is over, token the third-party
   token with its certificate, and remark whatever else that file says, which
   no verifier reads.  observer_public is a file of its own that none reads. *)
Part == {"statement", "signature", "archive", "imprint", "token", "remark",
         "observer_public"}

(* Pages are captured over HTTP; texts and files come with the request. *)
Source == {"page", "text"}

(* Third-party evidence is the whole reply of the authority or the bare token
   in it, with or without the certificate of the authority. *)
Reply == {"reply", "reply_and_ca"}
Token == {"token", "token_and_ca"}
WithCa == {"reply_and_ca", "token_and_ca"}
ThirdParty == Reply \cup Token
Stamp == {"none", "declared", "unknown_kind"} \cup ThirdParty

(* The proof of inclusion: none in the bundle, one that leads to the root of
   its checkpoint, or one that does not. *)
Proof == {"none", "sound", "unsound"}

Bundle == [source : Source, stamp : Stamp, proof : Proof, changed : SUBSET Part]

-----------------------------------------------------------------------------

ArchiveBound(b) == "archive" \notin b.changed

ManifestId(b) == "statement" \notin b.changed

ObserverSignature(b) == {"statement", "signature"} \cap b.changed = {}

(* The identifier of an Object is a hash over its canonical URL.  Texts and
   files get one over the identifier the client gives, or over a fresh one, and
   carry a URL that is no part of it. *)
ObjectIdentity(b) == b.source = "page"

(* message_imprint is compared with the hash of the statement and its
   signature. *)
Imprint(b) == {"statement", "signature", "imprint"} \cap b.changed = {}

(* The entry of the proof names the statement with its signature. *)
LogProof(b) == b.proof = "sound" /\ {"statement", "signature"} \cap b.changed = {}

-----------------------------------------------------------------------------
(* verifier/offline.py *)

(* openssl is told that the file holds a bare token. *)
OpensslTakes(b) == b.stamp \in Token /\ "token" \notin b.changed

OfflineTimestamp(b) ==
    CASE b.stamp = "none" -> "NOT_PRESENT"
      [] b.stamp # "none" /\ ~ Imprint(b) -> "INVALID"
      [] b.stamp = "declared" /\ Imprint(b) -> "DECLARED_ONLY"
      [] b.stamp = "unknown_kind" /\ Imprint(b) -> "UNSUPPORTED"
      [] b.stamp \in ThirdParty \ WithCa /\ Imprint(b) -> "INDETERMINATE"
      [] b.stamp \in WithCa /\ Imprint(b) ->
            IF OpensslTakes(b) THEN "VALID" ELSE "INVALID"

Mandatory(b) ==
    ArchiveBound(b) /\ ManifestId(b) /\ ObserverSignature(b) /\ ObjectIdentity(b)

TimestampOk(b) ==
    OfflineTimestamp(b) \in {"VALID", "NOT_PRESENT", "DECLARED_ONLY", "INDETERMINATE"}

OfflineValid(b) == Mandatory(b) /\ (b.proof # "none" => LogProof(b)) /\ TimestampOk(b)

(* GET /v1/verify: the archive, the manifest and the proof. *)
NodeValid(b) ==
    ArchiveBound(b) /\ ManifestId(b) /\ ObserverSignature(b) /\ LogProof(b)

(* The demo's name for an offline verdict. *)
VerificationStatus(b) ==
    CASE OfflineValid(b) -> "VERIFIED"
      [] ~ OfflineValid(b) /\ ~ ObserverSignature(b) -> "INVALID_SIGNATURE"
      [] ~ OfflineValid(b) /\ ObserverSignature(b) /\ ~ (ArchiveBound(b) /\ ManifestId(b)) -> "INVALID_BINDING"
      [] OTHER -> "MALFORMED_ARTIFACT"
=============================================================================
