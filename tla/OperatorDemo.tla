---------------------------- MODULE OperatorDemo ----------------------------
(***************************************************************************)
(* The operators of the network demo (network-demo/tools/operator.py).     *)
(* Each keeps a directory: keys, identity, descriptor, evidence bundles,   *)
(* an index of manifests, receipts, exports.  A command works on the       *)
(* directory of one operator, one command at a time, and is a sequence of  *)
(* file operations that may stop anywhere; commands of different operators *)
(* interleave, and meet in the export files they write and read.           *)
(*                                                                         *)
(* An Observation is named by what was captured; each capture is one.  The *)
(* default file name is used for exports, so exports[o][b] is the file of  *)
(* operator o for Observation b.                                           *)
(***************************************************************************)
EXTENDS BundleVerifiers, Integers, Sequences, FiniteSets

CONSTANTS
    Operator,       \* the directories
    Key,            \* key pairs that can be generated
    Observation,    \* captures that can be made
    NoKey,
    TornKey,        \* a file of the keys that was not written to its end
    NoOperator,
    NoObservation,
    MaxPackages,    \* bound: different export files, damaged ones included
    Fragile,        \* bound: what transport may change of a file
    MaxCommands,    \* bound: commands begun
    MaxDisturbances \* bound: failures, stops, losses, damaged files, outages

(* The members of an export file beside the bundle. *)
Member == {"export_manifest", "export_signature", "operator_descriptor",
           "exporter_public"}

ASSUME DemoAssumption ==
    /\ {NoKey, TornKey} \cap Key = {}
    /\ NoKey # TornKey
    /\ NoOperator \notin Operator
    /\ NoObservation \notin Observation
    /\ IsFiniteSet(Observation)
    /\ MaxPackages \in Nat
    /\ Fragile \subseteq Part \cup Member
    /\ MaxCommands \in Nat
    /\ MaxDisturbances \in Nat

VARIABLES
    keyOf,          \* the key pair that each file of an operator is of
    evidence,       \* evidence/<observation>/
    manifests,      \* manifests/: the Observations a history query finds
    receipts,       \* replication-records/, by digest of the export
    exports,        \* exports/<observation>.zip: the content, by number
    packages,       \* every content an export file had
    offline,        \* recovery/OFFLINE
    pc,             \* the next step of the operator's command
    job,            \* its local variables
    query,          \* a history query over all operators
    usedKeys,       \* key pairs generated
    captured,       \* Observations that were made
    begun,          \* commands begun
    disturbances,
    cut,            \* history: bundles whose writing was cut off, or removed
    cutInit,        \* history: operators whose init was cut off
    swapped,        \* history: bundles copied from a file that had changed
    spoiled,        \* history: Observations some bundle of which was cut off
                    \* or copied from a file that had changed
    steady          \* history: what was there for the query all the time

keyFiles == <<keyOf, usedKeys, cutInit>>
history == <<cut, swapped, spoiled>>
custody == <<evidence, manifests, receipts, history>>
transport == <<exports, packages>>
command == <<pc, job>>
surroundings == <<disturbances, offline, captured, query>>
vars == <<keyFiles, custody, transport, command, surroundings, begun, steady>>

-----------------------------------------------------------------------------

Missing == -1       \* no such file
Torn == 0           \* opened for writing, not closed
Digest == Missing .. MaxPackages

KeyFile == Key \cup {NoKey, TornKey}

(* keys/observer-private.pem, keys/observer-public.json,
   identity/operator.json, descriptors/operator-descriptor.json *)
FileName == {"private", "public", "identity", "descriptor"}

(* A bundle that is "bare" lacks evidence.json only, which is optional;
   "partial" is every other state from the empty directory to a last file cut
   short. *)
Held == [state : {"absent", "partial", "bare", "whole"}, changed : SUBSET Part]

Absent == [state |-> "absent", changed |-> {}]
Partial == [state |-> "partial", changed |-> {}]
Bare(parts) == [state |-> "bare", changed |-> parts]
Whole(parts) == [state |-> "whole", changed |-> parts]

Complete == {"bare", "whole"}

(* The files that evidence.json stands for in Part. *)
EvidenceParts == {"imprint", "token", "remark"}

WithoutEvidence(held) == Bare(held.changed \ EvidenceParts)

(* What an export file holds: the bundle and the key each part refers to.
   damaged is what transport changed since. *)
Package == [observation : Observation, source : Operator,
            exporter : KeyFile, public : KeyFile, signed : KeyFile, described : KeyFile,
            state : Complete, changed : SUBSET Part,
            damaged : Part \cup Member \cup {"nothing"}]

Status == {"none", "ACCEPTED", "REJECTED"}

Job == [observation : Observation \cup {NoObservation}, source : Operator \cup {NoOperator},
        digest : Digest, verified : Digest]

NoJob == [observation |-> NoObservation, source |-> NoOperator,
          digest |-> Missing, verified |-> Missing]

Steps == {"idle", "old_public", "private", "public", "identity", "descriptor",
          "bundle", "index", "zip",
          "verify", "discard", "retain", "retained", "receipt"}

Query == [state : {"idle", "asking", "failed", "answered"}, todo : SUBSET Operator,
          unavailable : SUBSET Operator, listed : SUBSET Observation,
          found : SUBSET Observation]

Asked(state, todo) == [state |-> state, todo |-> todo, unavailable |-> {},
                       listed |-> {}, found |-> {}]

NoQuery == Asked("idle", {})

TypeOK ==
    /\ keyOf \in [Operator -> [FileName -> KeyFile]]
    /\ evidence \in [Operator -> [Observation -> Held]]
    /\ manifests \in [Operator -> SUBSET Observation]
    /\ receipts \in [Operator -> [Digest -> Status]]
    /\ exports \in [Operator -> [Observation -> Digest]]
    /\ packages \in Seq(Package)
    /\ offline \subseteq Operator
    /\ pc \in [Operator -> Steps]
    /\ job \in [Operator -> Job]
    /\ query \in Query
    /\ usedKeys \subseteq Key
    /\ captured \subseteq Observation
    /\ begun \in Nat
    /\ disturbances \in Nat
    /\ cut \in [Operator -> SUBSET Observation]
    /\ cutInit \subseteq Operator
    /\ swapped \in [Operator -> SUBSET Observation]
    /\ spoiled \subseteq Observation
    /\ steady \subseteq Operator \X Observation

Init ==
    /\ keyOf = [o \in Operator |-> [file \in FileName |-> NoKey]]
    /\ evidence = [o \in Operator |-> [b \in Observation |-> Absent]]
    /\ manifests = [o \in Operator |-> {}]
    /\ receipts = [o \in Operator |-> [d \in Digest |-> "none"]]
    /\ exports = [o \in Operator |-> [b \in Observation |-> Missing]]
    /\ packages = <<>>
    /\ offline = {}
    /\ pc = [o \in Operator |-> "idle"]
    /\ job = [o \in Operator |-> NoJob]
    /\ query = NoQuery
    /\ usedKeys = {}
    /\ captured = {}
    /\ begun = 0
    /\ disturbances = 0
    /\ cut = [o \in Operator |-> {}]
    /\ cutInit = {}
    /\ swapped = [o \in Operator |-> {}]
    /\ spoiled = {}
    /\ steady = {}

-----------------------------------------------------------------------------

At(o, step) == pc[o] = step

GoTo(o, step) == pc' = [pc EXCEPT ![o] = step]

Disturb ==
    /\ disturbances < MaxDisturbances
    /\ disturbances' = disturbances + 1

(* A command is begun. *)
BeginCommand ==
    /\ begun < MaxCommands
    /\ begun' = begun + 1

Begin(o) == At(o, "idle") /\ BeginCommand

Finish(o) == GoTo(o, "idle") /\ job' = [job EXCEPT ![o] = NoJob]

(* The bundle of the demo: a page, no log proof, and a local declaration if its
   evidence is there. *)
AsBundle(state, parts) ==
    [source |-> "page", stamp |-> IF state = "bare" THEN "none" ELSE "declared",
     proof |-> "none", changed |-> parts]

StatusOf(state, parts) == VerificationStatus(AsBundle(state, parts))

Intact(o, b) ==
    LET held == evidence[o][b] IN
    held.state \in Complete /\ StatusOf(held.state, held.changed) = "VERIFIED"

-----------------------------------------------------------------------------
(* init *)

BeginInit(o) ==
    /\ Begin(o)
    /\ usedKeys # Key
    /\ keyOf[o]["private"] = NoKey
    /\ GoTo(o, "private")
    /\ UNCHANGED <<keyFiles, custody, transport, job, surroundings>>

Remove(o, file) == keyOf' = [keyOf EXCEPT ![o][file] = NoKey]

(* With --force the two files of an existing key pair are removed first. *)
BeginRotation(o) ==
    /\ Begin(o)
    /\ usedKeys # Key
    /\ keyOf[o]["private"] # NoKey
    /\ Remove(o, "private")
    /\ GoTo(o, "old_public")
    /\ UNCHANGED <<usedKeys, cutInit, custody, transport, job, surroundings>>

RemovePublicKey(o) ==
    /\ At(o, "old_public")
    /\ Remove(o, "public")
    /\ GoTo(o, "private")
    /\ UNCHANGED <<usedKeys, cutInit, custody, transport, job, surroundings, begun>>

WritePrivateKey(o) ==
    /\ At(o, "private")
    /\ \E k \in Key \ usedKeys :
          /\ keyOf' = [keyOf EXCEPT ![o]["private"] = k]
          /\ usedKeys' = usedKeys \cup {k}
    /\ GoTo(o, "public")
    /\ UNCHANGED <<cutInit, custody, transport, job, surroundings, begun>>

WriteFile(o, file, next) ==
    /\ At(o, file)
    /\ keyOf' = [keyOf EXCEPT ![o][file] = keyOf[o]["private"]]
    /\ GoTo(o, next)
    /\ UNCHANGED <<usedKeys, cutInit, custody, transport, job, surroundings, begun>>

WritePublicKey(o) == WriteFile(o, "public", "identity")

WriteIdentity(o) == WriteFile(o, "identity", "descriptor")

(* Mutation: a descriptor that is there already is kept. *)
KeepDescriptor(o) ==
    IF keyOf[o]["descriptor"] = NoKey THEN keyOf[o]["private"] ELSE keyOf[o]["descriptor"]

NewDescriptor(o) == keyOf[o]["private"]

WriteDescriptor(o) ==
    /\ At(o, "descriptor")
    /\ keyOf' = [keyOf EXCEPT ![o]["descriptor"] = NewDescriptor(o)]
    /\ cutInit' = cutInit \ {o}
    /\ Finish(o)
    /\ UNCHANGED <<usedKeys, custody, transport, surroundings, begun>>

-----------------------------------------------------------------------------
(* capture *)

(* The page was fetched; load_private_key raises when there is no key. *)
Capture(o, b) ==
    /\ Begin(o)
    /\ {keyOf[o]["identity"], keyOf[o]["private"]} \subseteq Key
    /\ b \notin captured
    /\ captured' = captured \cup {b}
    /\ evidence' = [evidence EXCEPT ![o][b] = Partial]
    /\ job' = [job EXCEPT ![o].observation = b]
    /\ GoTo(o, "bundle")
    /\ UNCHANGED <<keyFiles, manifests, receipts, history, transport, disturbances,
                   offline, query>>

WriteBundle(o) ==
    /\ At(o, "bundle")
    /\ evidence' = [evidence EXCEPT ![o][job[o].observation] = Whole({})]
    /\ GoTo(o, "index")
    /\ UNCHANGED <<keyFiles, manifests, receipts, history, transport, job,
                   surroundings, begun>>

IndexCapture(o) ==
    /\ At(o, "index")
    /\ manifests' = [manifests EXCEPT ![o] = @ \cup {job[o].observation}]
    /\ Finish(o)
    /\ UNCHANGED <<keyFiles, evidence, receipts, history, transport, surroundings,
                   begun>>

-----------------------------------------------------------------------------
(* export *)

(* Half a bundle can be exported when only its last file is torn: a capture
   writes the observer's key and then evidence.json, an import the archive. *)
Readings(held) ==
    IF held.state = "partial"
    THEN {Bare({"observer_public"}), Whole({"imprint"}), Bare({"archive"}),
          Whole({"archive"})}
    ELSE {held}

(* Everything is read before the file is opened, but for the public key, which
   is left out of the file when it is missing. *)
Exported(o, b, reading) ==
    [observation |-> b, source |-> o, exporter |-> keyOf[o]["identity"],
     public |-> keyOf[o]["public"], signed |-> keyOf[o]["private"],
     described |-> keyOf[o]["descriptor"], state |-> reading.state,
     changed |-> reading.changed, damaged |-> "nothing"]

(* The statement, the archive and the observer's key have to be there; evidence
   is put in if it is. *)
OpenExport(o, b) ==
    /\ Begin(o)
    /\ Len(packages) < MaxPackages
    /\ {keyOf[o][file] : file \in FileName \ {"public"}} \subseteq Key
    /\ evidence[o][b].state # "absent"
    /\ exports' = [exports EXCEPT ![o][b] = Torn]
    /\ job' = [job EXCEPT ![o].observation = b]
    /\ GoTo(o, "zip")
    /\ UNCHANGED <<keyFiles, custody, packages, surroundings>>

WriteExport(o) ==
    /\ At(o, "zip")
    /\ Len(packages) < MaxPackages
    /\ \E reading \in Readings(evidence[o][job[o].observation]) :
          packages' = Append(packages, Exported(o, job[o].observation, reading))
    /\ exports' = [exports EXCEPT ![o][job[o].observation] = Len(packages')]
    /\ Finish(o)
    /\ UNCHANGED <<keyFiles, custody, surroundings, begun>>

(* Transport changes one member of the file. *)
Damage(o, b, part) ==
    /\ Len(packages) < MaxPackages
    /\ exports[o][b] \in DOMAIN packages
    /\ packages[exports[o][b]].damaged = "nothing"
    /\ packages[exports[o][b]].state = "bare" => part \notin EvidenceParts
    /\ packages' = Append(packages, [packages[exports[o][b]] EXCEPT !.damaged = part])
    /\ exports' = [exports EXCEPT ![o][b] = Len(packages')]
    /\ Disturb
    /\ UNCHANGED <<keyFiles, custody, command, offline, captured, query, begun>>

-----------------------------------------------------------------------------
(* import, and recover, which is an import with one record more *)

(* Mutation: members of the file that are no part of the bundle are retained. *)
AllOf(p) == p.changed \cup {p.damaged}

(* What is not as it was captured. *)
PartsOf(p) == p.changed \cup (Part \cap {p.damaged})

KeysBound(p) == p.described = p.public /\ p.exporter = p.public

Signed(p) ==
    p.signed = p.public /\ p.damaged \notin {"export_manifest", "export_signature"}

(* Mutation: the digests of the files beside statement and archive are not
   looked at. *)
ArtifactDigests(p) ==
    p.damaged \notin {"statement", "signature", "archive", "operator_descriptor"}

Digests(p) == p.damaged \notin Part \cup {"operator_descriptor"}

(* The order of the checks decides what a package with two faults is called. *)
ImportStatus(p) ==
    IF p.public = NoKey THEN "NOT_FOUND"
    ELSE IF p.public = TornKey THEN "MALFORMED_ARTIFACT"
    ELSE IF "observer_public" \in PartsOf(p)
              \/ p.damaged \in {"operator_descriptor", "exporter_public"}
              \/ ~ KeysBound(p) THEN "INVALID_BINDING"
    ELSE IF ~ Signed(p) THEN "INVALID_SIGNATURE"
    ELSE IF ~ Digests(p) THEN "INVALID_BINDING"
    ELSE StatusOf(p.state, PartsOf(p))

Readable(d) == d \in DOMAIN packages

(* The file may be an export of the operator itself. *)
ReadDigest(o, source, b) ==
    /\ Begin(o)
    /\ keyOf[o]["identity"] \in Key
    /\ job' = [job EXCEPT ![o] = [observation |-> b, source |-> source,
                                  digest |-> exports[source][b], verified |-> Missing]]
    /\ GoTo(o, "verify")
    /\ UNCHANGED <<keyFiles, custody, transport, surroundings>>

(* The file as it is now: each step of an import opens it again. *)
SourceOf(o) == exports[job[o].source][job[o].observation]

(* Mutation: only a wrong signature keeps a package out. *)
VerifiedSigned(o) ==
    Readable(SourceOf(o)) /\ ImportStatus(packages[SourceOf(o)]) # "INVALID_SIGNATURE"

Verified(o) == Readable(SourceOf(o)) /\ ImportStatus(packages[SourceOf(o)]) = "VERIFIED"

Verify(o) ==
    /\ At(o, "verify")
    /\ Verified(o)
    /\ job' = [job EXCEPT ![o].verified = SourceOf(o)]
    /\ GoTo(o, "discard")
    /\ UNCHANGED <<keyFiles, custody, transport, surroundings, begun>>

(* Mutation: the receipt of an import that failed is that of one that did not. *)
RecordAccepted(o, status) ==
    receipts' = [receipts EXCEPT ![o][job[o].digest] = "ACCEPTED"]

Record(o, status) ==
    receipts' = [receipts EXCEPT ![o][job[o].digest] = status]

Refuse(o) ==
    /\ At(o, "verify")
    /\ ~ Verified(o)
    /\ Record(o, "REJECTED")
    /\ Finish(o)
    /\ UNCHANGED <<keyFiles, evidence, manifests, history, transport, surroundings,
                   begun>>

(* The bundle that is there is removed and an empty directory made. *)
Discard(o) ==
    /\ At(o, "discard")
    /\ evidence' = [evidence EXCEPT ![o][job[o].observation] = Partial]
    /\ GoTo(o, "retain")
    /\ UNCHANGED <<keyFiles, manifests, receipts, history, transport, job,
                   surroundings, begun>>

(* The names are those of the file that was verified, the bytes those of the
   file as it is now. *)
Copied(verified, p) ==
    IF verified.state = "bare" THEN WithoutEvidence(Whole(PartsOf(p)))
    ELSE Whole(PartsOf(p))

(* The file is gone, or has no evidence where the verified one had it. *)
CannotCopy(o) ==
    \/ ~ Readable(SourceOf(o))
    \/ packages[job[o].verified].state = "whole" /\ packages[SourceOf(o)].state = "bare"

(* Whether the bytes were the verified ones. *)
NoteSource(o) ==
    LET b == job[o].observation IN
    IF SourceOf(o) = job[o].verified
    THEN swapped' = [swapped EXCEPT ![o] = @ \ {b}] /\ UNCHANGED spoiled
    ELSE swapped' = [swapped EXCEPT ![o] = @ \cup {b}] /\ spoiled' = spoiled \cup {b}

Retain(o) ==
    /\ At(o, "retain")
    /\ ~ CannotCopy(o)
    /\ evidence' = [evidence EXCEPT ![o][job[o].observation] =
                       Copied(packages[job[o].verified], packages[SourceOf(o)])]
    /\ NoteSource(o)
    /\ GoTo(o, "retained")
    /\ UNCHANGED <<keyFiles, manifests, receipts, cut, transport, job, surroundings,
                   begun>>

(* The copy of the export is named after its digest. *)
Unnamed(o) == At(o, "retained") /\ job[o].digest = Missing

IndexImport(o) ==
    /\ At(o, "retained")
    /\ ~ Unnamed(o)
    /\ manifests' = [manifests EXCEPT ![o] = @ \cup {job[o].observation}]
    /\ cut' = [cut EXCEPT ![o] = @ \ {job[o].observation}]
    /\ GoTo(o, "receipt")
    /\ UNCHANGED <<keyFiles, evidence, receipts, swapped, spoiled, transport, job,
                   surroundings, begun>>

Accept(o) ==
    /\ At(o, "receipt")
    /\ Record(o, "ACCEPTED")
    /\ Finish(o)
    /\ UNCHANGED <<keyFiles, evidence, manifests, history, transport, surroundings,
                   begun>>

(* What may be there when a command ends while it writes or removes a bundle.
   The archive is the last file that an import writes; rmtree may take any file
   first, evidence.json only included. *)
Leftovers(o, held) ==
    IF At(o, "bundle") THEN {Partial, Bare({})}
    ELSE IF At(o, "retain") THEN {Partial}
    ELSE {held, Partial, Absent}
            \cup (IF held.state \in Complete THEN {WithoutEvidence(held)} ELSE {})

(* The command ends where it is. *)
CutOff(o) ==
    LET b == job[o].observation IN
    IF pc[o] \in {"bundle", "discard", "retain"}
    THEN \E left \in Leftovers(o, evidence[o][b]) :
            /\ evidence' = [evidence EXCEPT ![o][b] = left]
            /\ IF At(o, "discard") /\ left = evidence[o][b]
               THEN UNCHANGED history
               ELSE /\ cut' = [cut EXCEPT ![o] = @ \cup {b}]
                    /\ spoiled' = spoiled \cup {b}
                    /\ UNCHANGED swapped
    ELSE UNCHANGED <<evidence, history>>

(* An error in a later step: the receipt says REJECTED, the files stay as they
   are. *)
FailImport(o) ==
    /\ pc[o] \in {"verify", "discard", "retain", "retained", "receipt"}
    /\ ~ Unnamed(o)
    /\ IF At(o, "retain") /\ CannotCopy(o) THEN UNCHANGED disturbances ELSE Disturb
    /\ Record(o, "REJECTED")
    /\ CutOff(o)
    /\ Finish(o)
    /\ UNCHANGED <<keyFiles, manifests, transport, offline, captured, query, begun>>

-----------------------------------------------------------------------------
(* what happens to a directory *)

(* A file of the keys that was being written may be left torn. *)
CutOffKeys(o) ==
    IF pc[o] \in FileName \cup {"old_public"}
    THEN /\ cutInit' = cutInit \cup {o}
         /\ \/ UNCHANGED keyOf
            \/ pc[o] \in FileName /\ keyOf' = [keyOf EXCEPT ![o][pc[o]] = TornKey]
    ELSE UNCHANGED <<cutInit, keyOf>>

(* The command is killed, or raises where nothing catches it: an export that
   appeared after it was looked for has no name to be copied under. *)
Stop(o) ==
    /\ ~ At(o, "idle")
    /\ IF Unnamed(o) THEN UNCHANGED disturbances ELSE Disturb
    /\ CutOff(o)
    /\ CutOffKeys(o)
    /\ Finish(o)
    /\ UNCHANGED <<usedKeys, manifests, receipts, transport, offline, captured, query,
                   begun>>

(* A bundle and its manifest are lost: what the recovery drill does by hand. *)
Lose(o, b) ==
    /\ At(o, "idle")
    /\ evidence[o][b].state \in Complete
    /\ Disturb
    /\ evidence' = [evidence EXCEPT ![o][b] = Absent]
    /\ manifests' = [manifests EXCEPT ![o] = @ \ {b}]
    /\ cut' = [cut EXCEPT ![o] = @ \cup {b}]
    /\ UNCHANGED <<keyFiles, receipts, swapped, spoiled, transport, command, offline,
                   captured, query, begun>>

SetAvailability(o) ==
    /\ Begin(o)
    /\ keyOf[o]["identity"] \in Key
    /\ offline' = IF o \in offline THEN offline \ {o} ELSE offline \cup {o}
    /\ UNCHANGED <<keyFiles, custody, transport, command, disturbances, captured,
                   query>>

-----------------------------------------------------------------------------
(* history, over all operators; it reads one directory after the other *)

Ask ==
    /\ query.state # "asking"
    /\ BeginCommand
    /\ query' = Asked("asking", Operator)
    /\ UNCHANGED <<keyFiles, custody, transport, command, disturbances, offline,
                   captured>>

Available(o) == o \notin offline /\ keyOf[o]["identity"] # NoKey

VisitUnavailable(o) ==
    /\ query.state = "asking"
    /\ o \in query.todo
    /\ ~ Available(o)
    /\ query' = [query EXCEPT !.todo = @ \ {o}, !.unavailable = @ \cup {o}]
    /\ UNCHANGED <<keyFiles, custody, transport, command, disturbances, offline,
                   captured, begun>>

(* Mutation: a bundle that was imported needs its receipt. *)
ListedWithReceipt(o) ==
    {b \in manifests[o] : \E d \in 1 .. Len(packages) :
        receipts[o][d] = "ACCEPTED" /\ packages[d].observation = b}

(* The manifests of the target; all Observations are of one page. *)
Listed(o) == manifests[o]

Half(o) == {b \in Listed(o) : evidence[o][b].state = "partial"}

(* A torn identity cannot be read, and verify_bundle raises for a directory
   without the statement or with a file cut short. *)
VisitFails(o) ==
    /\ query.state = "asking"
    /\ o \in query.todo
    /\ Available(o)
    /\ keyOf[o]["identity"] = TornKey \/ Half(o) # {}
    /\ query' = [query EXCEPT !.state = "failed"]
    /\ UNCHANGED <<keyFiles, custody, transport, command, disturbances, offline,
                   captured, begun>>

(* Of half a bundle the verdict depends on the half: without the archive it is
   invalid, without the observer's key, which is not read, it verifies. *)
Visit(o) ==
    /\ query.state = "asking"
    /\ o \in query.todo
    /\ Available(o)
    /\ keyOf[o]["identity"] # TornKey
    /\ \E half \in SUBSET Half(o) :
          query' = [query EXCEPT !.todo = @ \ {o},
                                 !.listed = @ \cup Listed(o),
                                 !.found = @ \cup half \cup {b \in Listed(o) : Intact(o, b)}]
    /\ UNCHANGED <<keyFiles, custody, transport, command, disturbances, offline,
                   captured, begun>>

AnswerQuery ==
    /\ query.state = "asking"
    /\ query.todo = {}
    /\ query' = [query EXCEPT !.state = "answered"]
    /\ UNCHANGED <<keyFiles, custody, transport, command, disturbances, offline,
                   captured, begun>>

(* Every capture has an archive of its own, so two verified statements are two
   digests. *)
HistoryStatus(q) ==
    CASE q.listed = {} /\ q.unavailable = Operator -> "UNAVAILABLE_OPERATOR"
      [] q.listed = {} /\ q.unavailable = {} -> "NO_MATCH"
      [] Cardinality(q.found) > 1 -> "CONFLICT"
      [] q.unavailable = {} /\ Cardinality(q.found) = 1 -> "VERIFIED"
      [] OTHER -> "PARTIAL_SCOPE"

-----------------------------------------------------------------------------

(* What a query over all operators could find now. *)
Shown == {h \in Operator \X Observation :
            Available(h[1]) /\ h[2] \in manifests[h[1]] /\ Intact(h[1], h[2])}

WatchQuery ==
    steady' = IF query.state # "asking" /\ query'.state = "asking" THEN Shown'
              ELSE steady \cap Shown'

InitCommand(o) ==
    \/ BeginInit(o)
    \/ BeginRotation(o)
    \/ RemovePublicKey(o)
    \/ WritePrivateKey(o)
    \/ WritePublicKey(o)
    \/ WriteIdentity(o)
    \/ WriteDescriptor(o)

CaptureCommand(o) ==
    \/ \E b \in Observation : Capture(o, b)
    \/ WriteBundle(o)
    \/ IndexCapture(o)

ExportCommand(o) ==
    \/ \E b \in Observation : OpenExport(o, b)
    \/ WriteExport(o)

ImportCommand(o) ==
    \/ \E source \in Operator, b \in Observation : ReadDigest(o, source, b)
    \/ Verify(o)
    \/ Refuse(o)
    \/ Discard(o)
    \/ Retain(o)
    \/ IndexImport(o)
    \/ Accept(o)
    \/ FailImport(o)

HistoryCommand ==
    \/ Ask
    \/ \E o \in Operator : VisitUnavailable(o) \/ VisitFails(o) \/ Visit(o)
    \/ AnswerQuery

Disturbance(o) ==
    \/ Stop(o)
    \/ SetAvailability(o)
    \/ \E b \in Observation : Lose(o, b)
    \/ \E b \in Observation, part \in Fragile : Damage(o, b, part)

Step ==
    \/ \E o \in Operator :
          \/ InitCommand(o) \/ CaptureCommand(o) \/ ExportCommand(o)
          \/ ImportCommand(o) \/ Disturbance(o)
    \/ HistoryCommand

Next == Step /\ WatchQuery

Spec == Init /\ [][Next]_vars

-----------------------------------------------------------------------------
(* What a receipt says was accepted is held, with every file a verifier needs
   and in the index, unless a later command on it was cut off between removing
   and rewriting it (or it was lost).  command_import removes before it
   rewrites, and writes its receipt last. *)
CustodyIsKept ==
    \A o \in Operator : \A d \in DOMAIN packages :
       receipts[o][d] = "ACCEPTED" =>
          LET b == packages[d].observation IN
          \/ b \in cut[o]
          \/ At(o, "retain") /\ job[o].observation = b
          \/ evidence[o][b].state \in Complete /\ b \in manifests[o]

(* However many operators a bundle went through, and whatever was left of it by
   commands that were cut off, its statement, signature, archive and observer's
   key are those of the capture once it is complete, and evidence that is there
   is bound to it: an import checks them before it retains them.  The file is
   opened again to copy it, so a file replaced in between escapes. *)
RetainedIsBound ==
    \A o \in Operator : \A b \in Observation :
       evidence[o][b].state \in Complete /\ b \notin swapped[o] =>
          evidence[o][b].changed \subseteq EvidenceParts \ {"imprint"}

(* evidence.json is optional to every program that reads a bundle, so an import
   accepts one without it.  Still a complete bundle lacks it, or has another,
   only if the bundle of that Observation was cut off somewhere, or copied from
   a replaced file: exports and imports lose nothing themselves. *)
EvidenceIsKept ==
    \A o \in Operator : \A b \in Observation \ spoiled :
       evidence[o][b].state \in Complete => evidence[o][b] = Whole({})

(* An operator whose last init came to its end exports files whose identity,
   descriptor, public key and signature belong to one key: importers accept
   them, also after a rotation of the keys. *)
ExportsAreBound ==
    [][\A d \in DOMAIN packages' \ DOMAIN packages :
          LET p == packages'[d] IN
          p.damaged = "nothing" =>
             p.source \in cutInit \/ (KeysBound(p) /\ p.signed = p.public)]_vars

(* A query reads the directories one after the other while they change.  What
   was held, indexed and available at one operator all the time it took is
   found, and two captures that were there all the time are a conflict. *)
SteadyIsFound ==
    /\ query.state \in {"asking", "answered"} =>
          \A h \in steady : h[1] \in query.todo \/ h[2] \in query.found
    /\ query.state = "answered" /\ Cardinality({h[2] : h \in steady}) > 1 =>
          HistoryStatus(query) = "CONFLICT"
=============================================================================
