----------------------------- MODULE IngestNode -----------------------------
(***************************************************************************)
(* The ingest path of one OIN node (oin/api/app.py, ingest) with the three *)
(* stores it writes: the artifact files, the transparency log file and the *)
(* relational database.                                                    *)
(*                                                                         *)
(* The HTTP handlers are plain functions, so the framework runs them in a  *)
(* pool of threads: each Worker below is one thread, and every read or     *)
(* write of a shared store is a step of its own.  A database session reads *)
(* rows without locking them and its inserts take effect together at the   *)
(* commit, where the unique keys are checked.  The process can be killed   *)
(* between any two steps, and any single step can raise.                   *)
(***************************************************************************)
EXTENDS Observations, Sequences, FiniteSets

CONSTANTS
    Worker,         \* the threads of the pool
    MaxRequests,    \* bound: requests received
    MaxFailures     \* bound: failed steps and process restarts

ASSUME BoundsAssumption ==
    /\ IsFiniteSet(Worker)
    /\ MaxRequests \in Nat
    /\ MaxFailures \in Nat

VARIABLES
    \* the files
    blobs,          \* archive key -> what FileStorage holds under it
    entries,        \* entries.jsonl, one record per line that was written
    logFile,        \* "torn": one of its lines was cut short
    \* the tables
    objects,        \* objects: object_id
    observers,      \* observers: observer_id
    stored,         \* observations, signatures and storage_refs: observation_id
    logEntries,     \* log_entries: the proof saved with an Observation
    timestamps,     \* timestamps: the evidence saved with an Observation
    conflicts,      \* conflicts
    \* one request per thread
    pc,             \* the next step of the thread
    req,            \* the envelope it handles
    leafIndex,      \* append(): len(entries) as read
    proof,          \* the inclusion proof ingest() got
    missing,        \* save_observation(): the rows it found absent
    siblings,       \* record_conflicts(): existing
    fresh,          \* record_conflicts(): the siblings without a row
    \* history and bounds
    created,        \* the Observations a "created" answer was sent for
    requests,
    failures

files == <<blobs, entries, logFile>>
tables == <<objects, observers, stored, logEntries, timestamps, conflicts>>
locals == <<leafIndex, proof, missing, siblings, fresh>>
history == <<created, requests, failures>>
vars == <<files, tables, pc, req, locals, history>>

-----------------------------------------------------------------------------
(* The request and the records. *)

(* The evidence kind is what a later repeat check asks of it; bound says
   whether the archive carries the bytes that the manifest commits to. *)
Envelope == [observation : Observation, evidence : Evidence, bound : BOOLEAN]

BlobState == {"absent", "torn", "whole", "foreign"}

LogLine == [observation : Observation, leaf_index : Nat]

Proof == [leaf_index : Nat, tree_size : Nat]

LogEntry == [observation : Observation, leaf_index : Nat, tree_size : Nat]

Steps == {"idle", "priors", "open_archive", "write_archive", "read_log",
          "write_log", "prove", "save", "find", "commit", "siblings", "pairs",
          "record"}

NoEnvelope == CHOOSE e \in Envelope : TRUE

NoProof == [leaf_index |-> 0, tree_size |-> 0]

TypeOK ==
    /\ blobs \in [Archive -> BlobState]
    /\ entries \in Seq(LogLine)
    /\ logFile \in {"whole", "torn"}
    /\ objects \subseteq Object
    /\ observers \subseteq Observer
    /\ stored \subseteq Observation
    /\ logEntries \subseteq LogEntry
    /\ timestamps \subseteq [observation : Observation, kind : Declared]
    /\ \A r \in conflicts : \E a, b \in Observation : r = ConflictRow(a, b)
    /\ pc \in [Worker -> Steps]
    /\ req \in [Worker -> Envelope]
    /\ leafIndex \in [Worker -> Nat]
    /\ proof \in [Worker -> Proof]
    /\ missing \in [Worker -> SUBSET {"object", "observer", "observation"}]
    /\ siblings \in [Worker -> SUBSET Observation]
    /\ fresh \in [Worker -> SUBSET Observation]
    /\ created \subseteq Observation
    /\ requests \in 0..MaxRequests
    /\ failures \in 0..MaxFailures

Init ==
    /\ blobs = [k \in Archive |-> "absent"]
    /\ entries = <<>>
    /\ logFile = "whole"
    /\ objects = {}
    /\ observers = {}
    /\ stored = {}
    /\ logEntries = {}
    /\ timestamps = {}
    /\ conflicts = {}
    /\ pc = [w \in Worker |-> "idle"]
    /\ req = [w \in Worker |-> NoEnvelope]
    /\ leafIndex = [w \in Worker |-> 0]
    /\ proof = [w \in Worker |-> NoProof]
    /\ missing = [w \in Worker |-> {}]
    /\ siblings = [w \in Worker |-> {}]
    /\ fresh = [w \in Worker |-> {}]
    /\ created = {}
    /\ requests = 0
    /\ failures = 0

-----------------------------------------------------------------------------
(* Steps of a thread. *)

Observed(w) == req[w].observation

At(w, step) == pc[w] = step

GoTo(w, step) == pc' = [pc EXCEPT ![w] = step]

(* The answer is sent, whatever it is, and the locals are gone. *)
Finish(w) ==
    /\ GoTo(w, "idle")
    /\ req' = [req EXCEPT ![w] = NoEnvelope]
    /\ leafIndex' = [leafIndex EXCEPT ![w] = 0]
    /\ proof' = [proof EXCEPT ![w] = NoProof]
    /\ missing' = [missing EXCEPT ![w] = {}]
    /\ siblings' = [siblings EXCEPT ![w] = {}]
    /\ fresh' = [fresh EXCEPT ![w] = {}]

(* Mutation: the signature of the manifest is not looked at. *)
VerifiedUnsigned(e) == e.bound

(* Mutation: the archive is not compared with the manifest. *)
VerifiedUnbound(e) == e.observation \in Signed

(* verify_manifest and verify_archive_binding, which write nothing. *)
Verified(e) == e.observation \in Signed /\ e.bound

(* Mutation: ingest does not ask whether it has the Observation. *)
NeverKnown(o) == FALSE

(* repo.observation: the Observation is stored already. *)
Known(o) == o \in stored

(* The request is rejected with 422 or answered "already_present" at once. *)
AnswerAtOnce(w, e) ==
    /\ At(w, "idle")
    /\ requests < MaxRequests
    /\ ~ Verified(e) \/ Known(e.observation)
    /\ requests' = requests + 1
    /\ UNCHANGED <<files, tables, pc, req, locals, created, failures>>

Receive(w, e) ==
    /\ At(w, "idle")
    /\ requests < MaxRequests
    /\ Verified(e)
    /\ ~ Known(e.observation)
    /\ requests' = requests + 1
    /\ req' = [req EXCEPT ![w] = e]
    /\ GoTo(w, "priors")
    /\ UNCHANGED <<files, tables, locals, created, failures>>

(* The other stored Observations with the same raw content. *)
Priors(o) == {p \in stored : contentOf[p] = contentOf[o]} \ {o}

(* Mutation: any evidence satisfies the check for repeated content. *)
NeedsAnyEvidence(w) ==
    Priors(Observed(w)) # {} /\ req[w].evidence \notin Evidence

NeedsTimestamp(w) ==
    Priors(Observed(w)) # {} /\ req[w].evidence # "rfc3161"

(* 422 TIMESTAMP_EVIDENCE_REQUIRED: nothing is written. *)
RequireTimestamp(w) ==
    /\ At(w, "priors")
    /\ NeedsTimestamp(w)
    /\ Finish(w)
    /\ UNCHANGED <<files, tables, history>>

PassPriors(w) ==
    /\ At(w, "priors")
    /\ ~ NeedsTimestamp(w)
    /\ GoTo(w, "open_archive")
    /\ UNCHANGED <<files, tables, req, locals, history>>

(* FileStorage.put: the file is opened for writing, which truncates it ... *)
OpenArchive(w) ==
    /\ At(w, "open_archive")
    /\ blobs' = [blobs EXCEPT ![archiveOf[Observed(w)]] = "torn"]
    /\ GoTo(w, "write_archive")
    /\ UNCHANGED <<entries, logFile, tables, req, locals, history>>

(* ... and then its bytes are written from the start. *)
WriteArchive(w) ==
    /\ At(w, "write_archive")
    /\ blobs' = [blobs EXCEPT ![archiveOf[Observed(w)]] =
                    IF req[w].bound THEN "whole" ELSE "foreign"]
    /\ GoTo(w, "read_log")
    /\ UNCHANGED <<entries, logFile, tables, req, locals, history>>

NextLeafIndex == Len(entries)

(* MerkleLog.append: the next leaf index is the number of lines read ... *)
ReadLog(w) ==
    /\ At(w, "read_log")
    /\ logFile = "whole"
    /\ leafIndex' = [leafIndex EXCEPT ![w] = NextLeafIndex]
    /\ GoTo(w, "write_log")
    /\ UNCHANGED <<files, tables, req, proof, missing, siblings, fresh, history>>

(* Mutation: the line gets an index one too low. *)
NewLineLow(w) == [observation |-> Observed(w), leaf_index |-> leafIndex[w] - 1]

NewLine(w) == [observation |-> Observed(w), leaf_index |-> leafIndex[w]]

(* Mutation: the list that was read is written back with the new line. *)
LogWrittenBack(w) == Append(SubSeq(entries, 1, leafIndex[w]), NewLine(w))

LogAppended(w) == Append(entries, NewLine(w))

(* ... and the line is appended to whatever the file holds by then. *)
WriteLog(w) ==
    /\ At(w, "write_log")
    /\ entries' = LogAppended(w)
    /\ leafIndex' = [leafIndex EXCEPT ![w] = 0]
    /\ GoTo(w, "prove")
    /\ UNCHANGED <<blobs, logFile, tables, req, proof, missing, siblings, fresh,
                   history>>

(* The line that proof() picks: the first one of the Observation. *)
IsFirstLine(i, o) ==
    /\ entries[i].observation = o
    /\ \A j \in 1 .. i - 1 : entries[j].observation # o

(* MerkleLog.proof: the audit path and the checkpoint cover the log as it is
   now, the leaf index is the one the line recorded. *)
Prove(w) ==
    /\ At(w, "prove")
    /\ logFile = "whole"
    /\ \E i \in DOMAIN entries :
          /\ IsFirstLine(i, Observed(w))
          /\ proof' = [proof EXCEPT ![w] =
                          [leaf_index |-> entries[i].leaf_index,
                           tree_size |-> Len(entries)]]
    /\ GoTo(w, "save")
    /\ UNCHANGED <<files, tables, req, leafIndex, missing, siblings, fresh, history>>

(* One line is no JSON: neither append nor proof can read the file again, and
   nothing ever mends it: 500. *)
UnreadableLog(w) ==
    /\ At(w, "read_log") \/ At(w, "prove")
    /\ logFile = "torn"
    /\ Finish(w)
    /\ UNCHANGED <<files, tables, history>>

(* save_observation: its session looks for the Object and the Observer ... *)
FindParties(w) ==
    /\ At(w, "save")
    /\ missing' = [missing EXCEPT ![w] =
                     {t \in {"object", "observer"} :
                        \/ t = "object" /\ objectOf[Observed(w)] \notin objects
                        \/ t = "observer" /\ observerOf[Observed(w)] \notin observers}]
    /\ GoTo(w, "find")
    /\ UNCHANGED <<files, tables, req, leafIndex, proof, siblings, fresh, history>>

(* ... and then for the Observation, which may have come with them by now. *)
FindObservation(w) ==
    /\ At(w, "find")
    /\ missing' = [missing EXCEPT ![w] =
                     @ \cup {t \in {"observation"} : Observed(w) \notin stored}]
    /\ GoTo(w, "commit")
    /\ UNCHANGED <<files, tables, req, leafIndex, proof, siblings, fresh, history>>

(* Mutation: the key on observer and content that migration 002 dropped. *)
KeysFreeOldSchema(w) ==
    /\ "object" \in missing[w] => objectOf[Observed(w)] \notin objects
    /\ "observer" \in missing[w] => observerOf[Observed(w)] \notin observers
    /\ \A p \in stored : \/ observerOf[p] # observerOf[Observed(w)]
                         \/ contentOf[p] # contentOf[Observed(w)]

(* No unique key stands against the rows the session adds: object_id and
   canonical_url of objects, observer_id of observers, observation_id. *)
KeysFree(w) ==
    /\ "object" \in missing[w] =>
         \A x \in objects : /\ x # objectOf[Observed(w)]
                            /\ urlOf[x] # urlOf[objectOf[Observed(w)]]
    /\ "observer" \in missing[w] => observerOf[Observed(w)] \notin observers
    /\ "observation" \in missing[w] => Observed(w) \notin stored

(* The Observation was already there, and so were its Object and Observer:
   the session ends with nothing to write. *)
SkipSave(w) ==
    /\ At(w, "commit")
    /\ "observation" \notin missing[w]
    /\ KeysFree(w)
    /\ missing' = [missing EXCEPT ![w] = {}]
    /\ GoTo(w, "siblings")
    /\ UNCHANGED <<files, tables, req, leafIndex, proof, siblings, fresh, history>>

(* The transaction commits all its rows at once. *)
CommitSave(w) ==
    /\ At(w, "commit")
    /\ "observation" \in missing[w]
    /\ KeysFree(w)
    /\ objects' = objects \cup {objectOf[Observed(w)]}
    /\ observers' = observers \cup {observerOf[Observed(w)]}
    /\ stored' = stored \cup {Observed(w)}
    /\ logEntries' = logEntries \cup
          {[observation |-> Observed(w), leaf_index |-> proof[w].leaf_index,
            tree_size |-> proof[w].tree_size]}
    /\ timestamps' = timestamps \cup
          [observation : {Observed(w)}, kind : {req[w].evidence} \cap Declared]
    /\ missing' = [missing EXCEPT ![w] = {}]
    /\ GoTo(w, "siblings")
    /\ UNCHANGED <<files, conflicts, req, leafIndex, proof, siblings, fresh, history>>

(* IntegrityError: the transaction is rolled back and the answer is 500. *)
RollBackSave(w) ==
    /\ At(w, "commit")
    /\ ~ KeysFree(w)
    /\ Finish(w)
    /\ UNCHANGED <<files, tables, history>>

(* Mutation: copies with identical content are not related. *)
SiblingsThatDiffer(o) ==
    {s \in stored : SameObject(s, o) /\ contentOf[s] # contentOf[o]}

SiblingsOf(o) == {s \in stored : SameObject(s, o)}

(* record_conflicts: the Observations of the Object, in one session ... *)
ReadSiblings(w) ==
    /\ At(w, "siblings")
    /\ siblings' = [siblings EXCEPT ![w] = SiblingsOf(Observed(w))]
    /\ GoTo(w, "pairs")
    /\ UNCHANGED <<files, tables, req, leafIndex, proof, missing, fresh, history>>

(* The pair is in the conflicts table. *)
HasRow(a, b) == \E r \in conflicts : r.pair = {a, b}

(* ... then, in a second one, the pairs that have no row yet ... *)
ReadPairs(w) ==
    /\ At(w, "pairs")
    /\ fresh' = [fresh EXCEPT ![w] =
                   {s \in siblings[w] : ~ HasRow(s, Observed(w))}]
    /\ GoTo(w, "record")
    /\ UNCHANGED <<files, tables, req, leafIndex, proof, missing, siblings, history>>

(* ... are inserted together, and "created" is answered. *)
RecordConflicts(w) ==
    /\ At(w, "record")
    /\ \A s \in fresh[w] : ~ HasRow(s, Observed(w))
    /\ conflicts' = conflicts \cup {ConflictRow(s, Observed(w)) : s \in fresh[w]}
    /\ created' = created \cup {Observed(w)}
    /\ Finish(w)
    /\ UNCHANGED <<files, objects, observers, stored, logEntries, timestamps,
                   requests, failures>>

(* Mutation: the IntegrityError is swallowed and "created" answered. *)
IgnoreRollBack(w) ==
    /\ At(w, "record")
    /\ \E s \in fresh[w] : HasRow(s, Observed(w))
    /\ created' = created \cup {Observed(w)}
    /\ Finish(w)
    /\ UNCHANGED <<files, tables, requests, failures>>

(* Mutation: the same batch is tried again. *)
RetrySameBatch(w) ==
    /\ At(w, "record")
    /\ \E s \in fresh[w] : HasRow(s, Observed(w))
    /\ UNCHANGED vars

(* Another thread recorded one of the pairs first: the unique key of the
   pair rolls back the whole batch and the answer is 500. *)
RollBackConflicts(w) ==
    /\ At(w, "record")
    /\ \E s \in fresh[w] : HasRow(s, Observed(w))
    /\ Finish(w)
    /\ UNCHANGED <<files, tables, history>>

-----------------------------------------------------------------------------
(* What goes wrong around the threads. *)

(* What is cut off while it writes a line may leave a part of it. *)
LogMayTear(writing) == UNCHANGED logFile \/ (writing /\ logFile' = "torn")

(* A step raises (a full disk, a locked or lost database): 500. *)
Fail(w) ==
    /\ ~ At(w, "idle")
    /\ failures < MaxFailures
    /\ failures' = failures + 1
    /\ Finish(w)
    /\ LogMayTear(At(w, "write_log"))
    /\ UNCHANGED <<blobs, entries, tables, created, requests>>

(* The process dies and starts again: only files and tables are left. *)
Restart ==
    /\ \E w \in Worker : ~ At(w, "idle")
    /\ failures < MaxFailures
    /\ failures' = failures + 1
    /\ pc' = [w \in Worker |-> "idle"]
    /\ req' = [w \in Worker |-> NoEnvelope]
    /\ leafIndex' = [w \in Worker |-> 0]
    /\ proof' = [w \in Worker |-> NoProof]
    /\ missing' = [w \in Worker |-> {}]
    /\ siblings' = [w \in Worker |-> {}]
    /\ fresh' = [w \in Worker |-> {}]
    /\ LogMayTear(\E w \in Worker : At(w, "write_log"))
    /\ UNCHANGED <<blobs, entries, tables, created, requests>>

(* A thread that has a request always has a next step. *)
Step(w) ==
    \/ RequireTimestamp(w) \/ PassPriors(w)
    \/ OpenArchive(w) \/ WriteArchive(w)
    \/ ReadLog(w) \/ WriteLog(w) \/ Prove(w) \/ UnreadableLog(w)
    \/ FindParties(w) \/ FindObservation(w)
    \/ SkipSave(w) \/ CommitSave(w) \/ RollBackSave(w)
    \/ ReadSiblings(w) \/ ReadPairs(w)
    \/ RecordConflicts(w) \/ RollBackConflicts(w)

(* The bound on requests is used up and every one is answered. *)
Exhausted ==
    /\ requests = MaxRequests
    /\ \A w \in Worker : At(w, "idle")
    /\ UNCHANGED vars

Next ==
    \/ \E w \in Worker, e \in Envelope : AnswerAtOnce(w, e) \/ Receive(w, e)
    \/ \E w \in Worker : Step(w) \/ Fail(w)
    \/ Restart
    \/ Exhausted

Spec == Init /\ [][Next]_vars

(* The operating system schedules every thread. *)
FairSpec == Spec /\ \A w \in Worker : WF_vars(Step(w))

-----------------------------------------------------------------------------
(* Safety, whatever the threads, failures and restarts do. *)

(* Nothing is in the database without what it refers to: the archive file is
   there and was never written with bytes that fail the manifest's hashes,
   and the saved proof is about a line of the log, the first one of the
   Observation, with a leaf index the audit path is defined for.  ingest
   writes file, log and database in this order, and a thread can be stopped
   after each. *)
StoredIsBacked ==
    \A o \in stored :
       /\ o \in Signed
       /\ blobs[archiveOf[o]] \in {"torn", "whole"}
       /\ \E r \in logEntries :
             /\ r.observation = o
             /\ r.leaf_index < r.tree_size
             /\ r.tree_size <= Len(entries)
             /\ \E i \in 1 .. r.tree_size :
                   IsFirstLine(i, o) /\ r.leaf_index = entries[i].leaf_index

(* "created" for two Observations of one Object means that the conflicts
   table relates them, even when both were ingested at once by threads that
   could each have missed the other in record_conflicts. *)
CreatedAreLinked ==
    \A a, b \in created : SameObject(a, b) => HasRow(a, b)

(* The table relates stored Observations of one Object, once per pair, by a
   classification that does not depend on which of the two came first. *)
ConflictsAreCorrect ==
    \A r \in conflicts :
       /\ \E a, b \in stored : SameObject(a, b) /\ r.pair = {a, b}
       /\ \A a, b \in r.pair : a # b => r = ConflictRow(a, b)

(* The Observations of a content stored without third-party evidence. *)
Undated(c) ==
    {o \in stored : /\ contentOf[o] = c
                    /\ ~ \E t \in timestamps :
                           t.observation = o /\ t.kind = "rfc3161"}

(* The check for repeated content and the save are far apart, so threads can
   pass it together, but only so: no content is ever stored without
   third-party evidence more often than there are threads. *)
RepeatsBoundedByThreads ==
    \A c \in Content : Cardinality(Undated(c)) <= Cardinality(Worker)

(* History only grows: no line of the log and no row is changed or removed,
   not by a later ingest of the same Observation, a roll back or a restart. *)
HistoryKept ==
    [][ /\ Len(entries) <= Len(entries')
        /\ SubSeq(entries', 1, Len(entries)) = entries
        /\ stored \subseteq stored'
        /\ logEntries \subseteq logEntries'
        /\ timestamps \subseteq timestamps'
        /\ conflicts \subseteq conflicts' ]_vars

(* The node implements the store it promises. *)
Store == INSTANCE ObservationStore WITH
            accepted <- stored, links <- conflicts, answered <- created

ImplementsStore == Store!StoreSpec

-----------------------------------------------------------------------------
(* What the code provides only while one thread at a time ingests. *)

(* verify_proof: the audit path leads from the Observation's own leaf to the
   root of the checkpoint.  MerkleTree shows that it does exactly when the
   leaf index points at a line of that Observation. *)
ProofVerifies(r) == entries[r.leaf_index + 1].observation = r.observation

(* GET /v1/verify answers VALID: the archive matches and the proof holds. *)
VerifiesValid(o) ==
    /\ blobs[archiveOf[o]] = "whole"
    /\ \A r \in logEntries : r.observation = o => ProofVerifies(r)

(* The node never reports one of its own Observations INVALID. *)
StoredVerify == \A o \in stored : VerifiesValid(o)

(* ... and what it provides only if nothing failed as well. *)

(* When no ingest is under way, every two Observations of an Object are
   related in the conflicts table. *)
ConflictGraphComplete ==
    (\A w \in Worker : At(w, "idle")) =>
       \A a, b \in stored : SameObject(a, b) => HasRow(a, b)

(* An Object that cannot be stored: another one has its canonical URL.  Its
   lines are written before the unique key on canonical_url refuses its row. *)
UrlTaken(o) == \E x \in objects : x # objectOf[o] /\ urlOf[x] = urlOf[objectOf[o]]

(* Until a step fails, log and database tell the same history whenever no
   ingest is under way, but for the Observations whose Object cannot be stored. *)
CleanLogIsStored ==
    failures = 0 /\ (\A w \in Worker : At(w, "idle")) =>
       \A i \in DOMAIN entries :
          entries[i].observation \in stored \/ UrlTaken(entries[i].observation)

(* Until a step fails, one thread at a time leaves no pair unrelated. *)
CleanGraphIsComplete == failures = 0 => ConflictGraphComplete

-----------------------------------------------------------------------------
(* Liveness. *)

(* Every request is answered: no step waits for another thread, and proof()
   always finds the line it is asked for. *)
EveryRequestAnswered ==
    \A w \in Worker : pc[w] # "idle" ~> pc[w] = "idle"
=============================================================================
