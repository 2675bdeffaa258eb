--------------------------- MODULE DiscoveryAudit ---------------------------
(***************************************************************************)
(* GET /v1/discovery/peers and the audit log it keeps (discovery/audit.py):*)
(* each newly seen revision of the configured Bootstrap bundle is appended *)
(* to a file as a signed event that names the event before it.             *)
(*                                                                         *)
(* Event identifiers are hashes over the event and the identifier before   *)
(* it, so an event is named here by its line in the file, counting from 1, *)
(* and 0 stands for "no previous event".  (Two threads can write the very  *)
(* same event in one second; the second copy names the event before the    *)
(* first, so the chain is broken there whatever the copies are called.)    *)
(***************************************************************************)
EXTENDS BootstrapRegistry, FiniteSets

CONSTANTS
    Worker,             \* the threads of the pool
    Bundle,             \* revisions of the bundle file that parse
    Listed(_),          \* the descriptors each revision lists
    MAX_AUDIT_EVENTS,   \* 512 in the code
    MaxRequests         \* bound: requests received

ASSUME AuditAssumption ==
    /\ IsFiniteSet(Worker)
    /\ Bundle # {}
    /\ \A b \in Bundle : Listed(b) \in Seq(Descriptor)
    /\ MAX_AUDIT_EVENTS \in Nat \ {0}
    /\ MaxRequests \in Nat

VARIABLES
    configured,     \* the bundle file: a revision, or none, or unreadable
    auditLog,       \* bootstrap-audit.jsonl: the events written to it
    auditFile,      \* "torn" once a part of a line was left in it
    pc,             \* the next step of the thread
    bundle,         \* the revision it read
    registry,       \* what it made of it
    lastRead,       \* the line of the last event it read
    now,            \* the clock
    shown,          \* history: the peers last answered for a revision
    answered,       \* history: the revisions a 200 was answered for
    requests

vars == <<configured, auditLog, auditFile, pc, bundle, registry, lastRead, now, shown,
          answered, requests>>
files == <<configured, auditLog, auditFile>>
locals == <<pc, bundle, registry, lastRead>>

Event == [bundle_hash : Bundle, previous_event_id : Nat]

(* Answers about other operators; the node's own descriptor is always new. *)
Others(descriptors) == {d \in descriptors : d.operator_id # Self}

ListedIn(b) == {Listed(b)[i] : i \in Accepted(Listed(b))}

SomeBundle == CHOOSE b \in Bundle : TRUE

TypeOK ==
    /\ configured \in Bundle \cup {"none", "unreadable"}
    /\ auditLog \in Seq(Event)
    /\ auditFile \in {"whole", "torn"}
    /\ pc \in [Worker -> {"idle", "events", "append", "answer"}]
    /\ bundle \in [Worker -> Bundle]
    /\ registry \in [Worker -> SUBSET Descriptor]
    /\ lastRead \in [Worker -> Nat]
    /\ now \in 0..MaxTime
    /\ shown \in [Bundle -> SUBSET Descriptor]
    /\ answered \subseteq Bundle
    /\ requests \in 0..MaxRequests

Init ==
    /\ configured = "none"
    /\ auditLog = <<>>
    /\ auditFile = "whole"
    /\ pc = [w \in Worker |-> "idle"]
    /\ bundle = [w \in Worker |-> SomeBundle]
    /\ registry = [w \in Worker |-> {}]
    /\ lastRead = [w \in Worker |-> 0]
    /\ now = 0
    /\ shown = [b \in Bundle |-> ListedIn(b)]
    /\ answered = {}
    /\ requests = 0

-----------------------------------------------------------------------------

At(w, step) == pc[w] = step

GoTo(w, step) == pc' = [pc EXCEPT ![w] = step]

Finish(w) ==
    /\ GoTo(w, "idle")
    /\ bundle' = [bundle EXCEPT ![w] = SomeBundle]
    /\ registry' = [registry EXCEPT ![w] = {}]
    /\ lastRead' = [lastRead EXCEPT ![w] = 0]

Tick ==
    /\ now < MaxTime
    /\ now' = now + 1
    /\ UNCHANGED <<files, locals, shown, answered, requests>>

(* The operator replaces or removes the bundle file. *)
Configure(b) ==
    /\ configured # b
    /\ configured' = b
    /\ UNCHANGED <<auditLog, auditFile, locals, now, shown, answered, requests>>

(* No bundle: nothing to audit, 200.  An unreadable or too large one: 503. *)
AnswerWithoutAudit(w) ==
    /\ At(w, "idle")
    /\ requests < MaxRequests
    /\ configured \notin Bundle
    /\ requests' = requests + 1
    /\ UNCHANGED <<files, locals, now, shown, answered>>

(* The bundle is read and its descriptors are imported over the node's own. *)
ReadBundle(w) ==
    /\ At(w, "idle")
    /\ requests < MaxRequests
    /\ configured \in Bundle
    /\ requests' = requests + 1
    /\ bundle' = [bundle EXCEPT ![w] = configured]
    /\ registry' = [registry EXCEPT ![w] =
                       RemoveExpired(ImportBundle({LocalDescriptor(now)}, Listed(configured)), now)]
    /\ GoTo(w, "events")
    /\ UNCHANGED <<files, lastRead, now, shown, answered>>

(* Mutation: the link to the previous event is not compared. *)
FewEnough(events) == auditFile = "whole" /\ Len(events) <= MAX_AUDIT_EVENTS

Linked(events) ==
    \A i \in DOMAIN events : events[i].previous_event_id = i - 1

(* events() returns: every line is an event and linked to the one before it,
   and there are not too many. *)
Verifies(events) ==
    auditFile = "whole" /\ Linked(events) /\ Len(events) <= MAX_AUDIT_EVENTS

(* ... or raises ValueError: 503. *)
RefuseBroken(w) ==
    /\ At(w, "events")
    /\ ~ Verifies(auditLog)
    /\ Finish(w)
    /\ UNCHANGED <<files, now, shown, answered, requests>>

(* The last event is about this revision already. *)
IsLast(b) == auditLog # <<>> /\ auditLog[Len(auditLog)].bundle_hash = b

KnowRevision(w) ==
    /\ At(w, "events")
    /\ Verifies(auditLog)
    /\ IsLast(bundle[w])
    /\ GoTo(w, "answer")
    /\ UNCHANGED <<files, bundle, registry, lastRead, now, shown, answered, requests>>

(* Mutation: the log may be one event longer than the limit. *)
HasRoomForOneMore == Len(auditLog) <= MAX_AUDIT_EVENTS

HasRoom == Len(auditLog) < MAX_AUDIT_EVENTS

(* The log is full: 503 until the operator archives it. *)
RefuseFull(w) ==
    /\ At(w, "events")
    /\ Verifies(auditLog)
    /\ ~ IsLast(bundle[w])
    /\ ~ HasRoom
    /\ Finish(w)
    /\ UNCHANGED <<files, now, shown, answered, requests>>

(* Mutation: the last index of an empty log. *)
LastIndex == Len(auditLog) - 1

(* The event to link to, if there is one. *)
LastEvent == Len(auditLog)

BuildEvent(w) ==
    /\ At(w, "events")
    /\ Verifies(auditLog)
    /\ ~ IsLast(bundle[w])
    /\ HasRoom
    /\ lastRead' = [lastRead EXCEPT ![w] = LastEvent]
    /\ GoTo(w, "append")
    /\ UNCHANGED <<files, bundle, registry, now, shown, answered, requests>>

(* Mutation: the event is not written. *)
AnswerUnrecorded(w) ==
    /\ At(w, "append")
    /\ GoTo(w, "answer")
    /\ UNCHANGED <<files, bundle, registry, lastRead, now, shown, answered, requests>>

(* The event is a line at the end of whatever the file holds by then; behind a
   part of a line it is one that nobody can read. *)
AppendEvent(w) ==
    /\ At(w, "append")
    /\ auditLog' = Append(auditLog, [bundle_hash |-> bundle[w],
                                     previous_event_id |-> lastRead[w]])
    /\ lastRead' = [lastRead EXCEPT ![w] = 0]
    /\ GoTo(w, "answer")
    /\ UNCHANGED <<configured, auditFile, bundle, registry, now, shown, answered,
                   requests>>

(* Mutation: the answer is what was active when the bundle was read. *)
ActiveWhenRead(w) == registry[w]

(* get_active_operators, once more when the answer is made. *)
Active(w) == RemoveExpired(registry[w], now)

Answer(w) ==
    /\ At(w, "answer")
    /\ answered' = answered \cup {bundle[w]}
    /\ shown' = [shown EXCEPT ![bundle[w]] = Others(Active(w))]
    /\ Finish(w)
    /\ UNCHANGED <<files, now, requests>>

(* The step raises, or the process stops before it: what was to append may
   leave a part of its line. *)
Fail(w) ==
    /\ ~ At(w, "idle")
    /\ Finish(w)
    /\ UNCHANGED auditFile \/ (At(w, "append") /\ auditFile' = "torn")
    /\ UNCHANGED <<configured, auditLog, now, shown, answered, requests>>

Next ==
    \/ Tick
    \/ \E b \in Bundle \cup {"none", "unreadable"} : Configure(b)
    \/ \E w \in Worker :
          \/ AnswerWithoutAudit(w) \/ ReadBundle(w)
          \/ RefuseBroken(w) \/ KnowRevision(w) \/ RefuseFull(w)
          \/ BuildEvent(w) \/ AppendEvent(w) \/ Answer(w)
          \/ Fail(w)

Spec == Init /\ [][Next]_vars

-----------------------------------------------------------------------------
(* The peers of a revision are only published once its load is on record. *)
AnsweredIsRecorded ==
    \A b \in answered : \E i \in DOMAIN auditLog : auditLog[i].bundle_hash = b

(* With one revision in place peers only expire: one that an answer no longer
   had is in none after it, though requests overtake each other between reading
   the bundle and answering. *)
PeersOnlyLeave == [][\A b \in Bundle : shown'[b] \subseteq shown[b]]_vars

(* Of an operator that the bundle lists in the order of issue, no answer has a
   descriptor that was replaced by a newer one. *)
NewestIsShown ==
    \A b \in answered : InOrderOfIssue(Listed(b)) =>
       \A d \in shown[b], e \in ListedIn(b) :
          d.operator_id = e.operator_id => e.updated_at <= d.updated_at

(* A chain that stopped verifying is left alone: after the first event that
   does not link, no more are added than there are other threads. *)
BrokenIsFrozen ==
    \A i \in DOMAIN auditLog :
       auditLog[i].previous_event_id # i - 1 =>
          Len(auditLog) < i + Cardinality(Worker)

(* The limit can be overrun only by threads that were past the check. *)
LimitHolds == Len(auditLog) < MAX_AUDIT_EVENTS + Cardinality(Worker)
=============================================================================
