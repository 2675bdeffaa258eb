------------------------ MODULE DiscoveryAudit_proofs ------------------------
(***************************************************************************)
(* Theorems about DiscoveryAudit, for any threads, bundles, times and      *)
(* bounds.                                                                 *)
(***************************************************************************)
EXTENDS DiscoveryAudit, FiniteSetTheorems, TLAPS

LEMMA SomeBundleType == SomeBundle \in Bundle
BY AuditAssumption DEF SomeBundle

LEMMA ListedType ==
    ASSUME NEW b \in Bundle, NEW i \in DOMAIN Listed(b)
    PROVE  Listed(b)[i] \in Descriptor
BY AuditAssumption

LEMMA LocalType ==
    ASSUME now \in 0 .. MaxTime
    PROVE  LocalDescriptor(now) \in Descriptor
BY RegistryAssumption DEF LocalDescriptor, Descriptor

(* What an import adds is listed and genuine. *)
LEMMA ImportType ==
    ASSUME NEW b \in Bundle, NEW own \in SUBSET Descriptor
    PROVE  ImportBundle(own, Listed(b)) \subseteq Descriptor
BY ListedType DEF ImportBundle, Accepted

LEMMA InitTyped == Init => TypeOK
BY SomeBundleType, ListedType, RegistryAssumption, AuditAssumption
DEF Init, TypeOK, ListedIn, Accepted

LEMMA FinishTyped ==
    ASSUME TypeOK, NEW w \in Worker, Finish(w)
    PROVE  /\ pc' \in [Worker -> {"idle", "events", "append", "answer"}]
           /\ bundle' \in [Worker -> Bundle]
           /\ registry' \in [Worker -> SUBSET Descriptor]
           /\ lastRead' \in [Worker -> Nat]
BY SomeBundleType DEF TypeOK, Finish, GoTo

LEMMA AnswerTyped ==
    ASSUME TypeOK, NEW w \in Worker, Answer(w)
    PROVE  /\ shown' \in [Bundle -> SUBSET Descriptor]
           /\ answered' \subseteq Bundle
<1>1. Others(Active(w)) \subseteq Descriptor
  BY DEF TypeOK, Others, Active, RemoveExpired
<1>2. QED
  BY <1>1 DEF TypeOK, Answer

LEMMA StepTyped == TypeOK /\ [Next]_vars => TypeOK'
<1> SUFFICES ASSUME TypeOK, [Next]_vars
             PROVE  TypeOK'
  OBVIOUS
<1> USE DEF TypeOK, files
<1>1. CASE Tick
  BY <1>1, RegistryAssumption DEF Tick, locals
<1>2. ASSUME NEW b \in Bundle \cup {"none", "unreadable"}, Configure(b)
      PROVE  TypeOK'
  BY <1>2 DEF Configure, locals
<1>3. ASSUME NEW w \in Worker, AnswerWithoutAudit(w)
      PROVE  TypeOK'
  BY <1>3, AuditAssumption DEF AnswerWithoutAudit, locals
<1>4. ASSUME NEW w \in Worker, ReadBundle(w)
      PROVE  TypeOK'
  <2>1. configured \in Bundle
    BY <1>4 DEF ReadBundle
  <2>2. RemoveExpired(ImportBundle({LocalDescriptor(now)}, Listed(configured)), now)
           \subseteq Descriptor
    <3>1. {LocalDescriptor(now)} \in SUBSET Descriptor
      BY LocalType
    <3>2. ImportBundle({LocalDescriptor(now)}, Listed(configured)) \subseteq Descriptor
      BY <2>1, <3>1, ImportType
    <3>3. QED
      BY <3>2 DEF RemoveExpired
  <2>3. registry' \in [Worker -> SUBSET Descriptor]
    BY <1>4, <2>2 DEF ReadBundle
  <2>4. bundle' \in [Worker -> Bundle] /\ pc' \in [Worker -> {"idle", "events", "append", "answer"}]
    BY <1>4, <2>1 DEF ReadBundle, GoTo
  <2>5. requests' \in 0 .. MaxRequests
    BY <1>4, AuditAssumption DEF ReadBundle
  <2>6. QED
    BY <1>4, <2>3, <2>4, <2>5 DEF ReadBundle
<1>5. ASSUME NEW w \in Worker, RefuseBroken(w) \/ RefuseFull(w) \/ Fail(w)
      PROVE  TypeOK'
  BY <1>5, FinishTyped DEF RefuseBroken, RefuseFull, Fail
<1>6. ASSUME NEW w \in Worker, KnowRevision(w) \/ Answer(w)
      PROVE  TypeOK'
  <2>1. CASE KnowRevision(w)
    BY <2>1 DEF KnowRevision, GoTo
  <2>2. CASE Answer(w)
    <3>1. Finish(w) /\ UNCHANGED <<files, now, requests>>
      BY <2>2 DEF Answer
    <3>2. QED
      BY <2>2, <3>1, FinishTyped, AnswerTyped
  <2>3. QED
    BY <1>6, <2>1, <2>2
<1>7. ASSUME NEW w \in Worker, BuildEvent(w)
      PROVE  TypeOK'
  BY <1>7 DEF BuildEvent, LastEvent, GoTo
<1>8. ASSUME NEW w \in Worker, AppendEvent(w)
      PROVE  TypeOK'
  <2>1. [bundle_hash |-> bundle[w], previous_event_id |-> lastRead[w]] \in Event
    BY DEF Event
  <2>2. auditLog' \in Seq(Event)
    BY <1>8, <2>1 DEF AppendEvent
  <2>3. QED
    BY <1>8, <2>2 DEF AppendEvent, GoTo
<1>9. CASE UNCHANGED vars
  BY <1>9 DEF vars, locals
<1>10. QED
  BY <1>1, <1>2, <1>3, <1>4, <1>5, <1>6, <1>7, <1>8, <1>9 DEF Next

(* Type correctness: every variable keeps its type. *)
THEOREM TypeCorrect == Spec => []TypeOK
BY InitTyped, StepTyped, PTL DEF Spec

-----------------------------------------------------------------------------

Recorded(events, b) == \E i \in DOMAIN events : events[i].bundle_hash = b

(* Why the order of event and answer is kept: a thread that is about to answer
   has seen the event, or written it. *)
RecordedInv ==
    /\ AnsweredIsRecorded
    /\ \A w \in Worker : pc[w] = "answer" => Recorded(auditLog, bundle[w])

(* What is on record stays on record. *)
LEMMA AppendRecords ==
    ASSUME TypeOK, NEW e \in Event, auditLog' = Append(auditLog, e)
    PROVE  /\ Recorded(auditLog', e.bundle_hash)
           /\ \A b : Recorded(auditLog, b) => Recorded(auditLog', b)
<1>1. /\ DOMAIN auditLog' = 1 .. Len(auditLog) + 1
      /\ \A i \in DOMAIN auditLog : auditLog'[i] = auditLog[i]
      /\ auditLog'[Len(auditLog) + 1] = e
      /\ DOMAIN auditLog = 1 .. Len(auditLog)
      /\ Len(auditLog) \in Nat
  BY DEF TypeOK
<1>2. Recorded(auditLog', e.bundle_hash)
  <2>1. Len(auditLog) + 1 \in DOMAIN auditLog'
    BY <1>1
  <2>2. QED
    BY <1>1, <2>1 DEF Recorded
<1>3. ASSUME NEW b, Recorded(auditLog, b)
      PROVE  Recorded(auditLog', b)
  <2>1. PICK i \in DOMAIN auditLog : auditLog[i].bundle_hash = b
    BY <1>3 DEF Recorded
  <2>2. i \in DOMAIN auditLog' /\ auditLog'[i] = auditLog[i]
    BY <1>1
  <2>3. QED
    BY <2>1, <2>2 DEF Recorded
<1>4. QED
  BY <1>2, <1>3

LEMMA RecordedStep == TypeOK /\ RecordedInv /\ [Next]_vars => RecordedInv'
<1> SUFFICES ASSUME TypeOK, RecordedInv, [Next]_vars
             PROVE  RecordedInv'
  OBVIOUS
<1>1. \A b \in answered : Recorded(auditLog, b)
  BY DEF RecordedInv, AnsweredIsRecorded, Recorded
<1>2. ASSUME \A b \in answered' : Recorded(auditLog', b),
             \A v \in Worker : pc'[v] = "answer" => Recorded(auditLog', bundle'[v])
      PROVE  RecordedInv'
  BY <1>2 DEF RecordedInv, AnsweredIsRecorded, Recorded
<1>3. ASSUME UNCHANGED <<auditLog, answered>>,
             \A v \in Worker : pc'[v] = "answer" =>
                /\ pc[v] = "answer" \/ Recorded(auditLog, bundle[v])
                /\ bundle'[v] = bundle[v]
      PROVE  RecordedInv'
  BY <1>3 DEF RecordedInv, AnsweredIsRecorded, Recorded
<1>4. ASSUME NEW w \in Worker, KnowRevision(w)
      PROVE  RecordedInv'
  <2>1. Recorded(auditLog, bundle[w])
    BY <1>4 DEF KnowRevision, IsLast, TypeOK, Recorded
  <2>2. QED
    BY <1>3, <1>4, <2>1 DEF KnowRevision, GoTo, files, TypeOK
<1>5. ASSUME NEW w \in Worker, AppendEvent(w)
      PROVE  RecordedInv'
  <2> DEFINE event == [bundle_hash |-> bundle[w], previous_event_id |-> lastRead[w]]
  <2>1. event \in Event /\ event.bundle_hash = bundle[w]
    BY DEF TypeOK, Event
  <2>2. /\ auditLog' = Append(auditLog, event)
        /\ pc' = [pc EXCEPT ![w] = "answer"]
        /\ UNCHANGED <<bundle, answered>>
    BY <1>5 DEF AppendEvent, GoTo
  <2> HIDE DEF event
  <2>3. Recorded(auditLog', bundle[w]) /\ \A b : Recorded(auditLog, b) => Recorded(auditLog', b)
    BY <2>1, <2>2, AppendRecords
  <2>4. ASSUME NEW v \in Worker, pc'[v] = "answer"
        PROVE  Recorded(auditLog', bundle'[v])
    <3>1. CASE v = w
      BY <2>2, <2>3, <3>1 DEF Recorded
    <3>2. CASE v # w
      <4>1. pc[v] = "answer" /\ bundle'[v] = bundle[v]
        BY <2>2, <2>4, <3>2 DEF TypeOK
      <4>2. Recorded(auditLog', bundle[v])
        BY <2>3, <4>1 DEF RecordedInv
      <4>3. QED
        BY <4>1, <4>2 DEF Recorded
    <3>3. QED
      BY <3>1, <3>2
  <2>5. QED
    BY <1>1, <1>2, <2>2, <2>3, <2>4
<1>6. ASSUME NEW w \in Worker, Answer(w)
      PROVE  RecordedInv'
  <2>1. /\ Recorded(auditLog, bundle[w])
        /\ answered' = answered \cup {bundle[w]}
        /\ auditLog' = auditLog
    BY <1>6 DEF Answer, At, RecordedInv, files
  <2>2. \A v \in Worker : pc'[v] = "answer" => pc[v] = "answer" /\ bundle'[v] = bundle[v]
    BY <1>6 DEF Answer, Finish, GoTo, TypeOK
  <2>3. QED
    BY <1>1, <1>2, <2>1, <2>2 DEF RecordedInv, Recorded
<1>7. ASSUME NEW w \in Worker, RefuseBroken(w) \/ RefuseFull(w) \/ Fail(w)
      PROVE  RecordedInv'
  <2>1. Finish(w) /\ UNCHANGED <<auditLog, answered>>
    BY <1>7 DEF RefuseBroken, RefuseFull, Fail, files
  <2>2. QED
    BY <1>3, <2>1 DEF Finish, GoTo, TypeOK
<1>8. ASSUME NEW w \in Worker, BuildEvent(w) \/ ReadBundle(w)
      PROVE  RecordedInv'
  <2>1. \A v \in Worker : pc'[v] = "answer" =>
           pc[v] = "answer" /\ bundle'[v] = bundle[v]
    BY <1>8 DEF BuildEvent, ReadBundle, GoTo, TypeOK
  <2>2. UNCHANGED <<auditLog, answered>>
    BY <1>8 DEF BuildEvent, ReadBundle, files
  <2>3. QED
    BY <1>3, <2>1, <2>2
<1>9. UNCHANGED <<auditLog, answered, pc, bundle>> => RecordedInv'
  BY <1>3
<1>10. QED
  BY <1>4, <1>5, <1>6, <1>7, <1>8, <1>9
  DEF Next, vars, Tick, Configure, AnswerWithoutAudit, files, locals

(* A revision is answered only once its load is on record, whatever threads,
   failures and a broken log come in between. *)
THEOREM RecordedFirst == Spec => []AnsweredIsRecorded
<1>1. Init => RecordedInv
  BY DEF Init, RecordedInv, AnsweredIsRecorded
<1>2. RecordedInv => AnsweredIsRecorded
  BY DEF RecordedInv
<1>3. QED
  BY <1>1, <1>2, RecordedStep, TypeCorrect, PTL DEF Spec

-----------------------------------------------------------------------------

(* What a revision says of the other operators, whoever imports it: for each of
   them the last descriptor that is genuine. *)
Published(b) == Others(ImportBundle({}, Listed(b)))

(* Why answers agree although requests overtake each other: all that a thread
   keeps of a revision it read is what the revision says, but for what expired,
   and time only goes on. *)
PeersInv ==
    /\ \A w \in Worker : pc[w] # "idle" =>
          Others(RemoveExpired(registry[w], now)) = RemoveExpired(Published(bundle[w]), now)
    /\ \A b \in Bundle : RemoveExpired(Published(b), now) \subseteq shown[b]
    /\ \A b \in answered : shown[b] \subseteq Published(b)

(* The node's own descriptor leaves no trace in what is said of the others. *)
LEMMA OwnIsApart ==
    ASSUME NEW b \in Bundle
    PROVE  Others(ImportBundle({LocalDescriptor(now)}, Listed(b))) = Published(b)
<1>1. LocalDescriptor(now).operator_id = Self
  BY DEF LocalDescriptor
<1>2. QED
  BY <1>1 DEF Published, Others, ImportBundle

(* Whatever is said to be active later was active before. *)
LEMMA ExpiryIsFinal ==
    ASSUME now \in Nat, now' \in Nat, now <= now',
           NEW ds \in SUBSET Descriptor
    PROVE  RemoveExpired(ds, now') = RemoveExpired(RemoveExpired(ds, now), now')
<1>1. ASSUME NEW d \in ds, ~ Expired(d, now')
      PROVE  ~ Expired(d, now)
  BY <1>1 DEF Expired, Descriptor
<1>2. QED
  BY <1>1 DEF RemoveExpired

LEMMA OthersOfActive ==
    ASSUME NEW ds
    PROVE  Others(RemoveExpired(ds, now)) = RemoveExpired(Others(ds), now)
BY DEF Others, RemoveExpired

LEMMA PublishedType ==
    ASSUME NEW b \in Bundle
    PROVE  Published(b) \in SUBSET Descriptor
BY ImportType DEF Published, Others

(* An answer shows what the revision says and has not expired. *)
LEMMA AnswerShows ==
    ASSUME TypeOK, PeersInv, NEW w \in Worker, Answer(w)
    PROVE  shown' = [shown EXCEPT ![bundle[w]] = RemoveExpired(Published(bundle[w]), now)]
<1>1. Others(Active(w)) = RemoveExpired(Published(bundle[w]), now)
  BY DEF PeersInv, Active, Answer, At
<1>2. QED
  BY <1>1 DEF Answer

LEMMA AnswerKeepsPeers ==
    ASSUME TypeOK, PeersInv, NEW w \in Worker, Answer(w)
    PROVE  PeersInv'
<1>1. shown' = [shown EXCEPT ![bundle[w]] = RemoveExpired(Published(bundle[w]), now)]
  BY AnswerShows
<1>2. answered' = answered \cup {bundle[w]}
  BY DEF Answer
<1>3. RemoveExpired(Published(bundle[w]), now) \subseteq Published(bundle[w])
  BY DEF RemoveExpired
<1>4. \A b \in Bundle : RemoveExpired(Published(b), now) \subseteq shown'[b]
  BY <1>1 DEF PeersInv, TypeOK
<1>5. \A b \in answered' : shown'[b] \subseteq Published(b)
  BY <1>1, <1>2, <1>3 DEF PeersInv, TypeOK
<1>6. \A v \in Worker : pc'[v] # "idle" =>
         /\ pc[v] # "idle"
         /\ registry'[v] = registry[v]
         /\ bundle'[v] = bundle[v]
  BY DEF Answer, Finish, GoTo, TypeOK
<1>7. \A b : Published(b)' = Published(b)
  BY DEF Published, Others, ImportBundle, Accepted, NotReplaced, VerifySignature
<1>8. now' = now
  BY DEF Answer
<1>9. QED
  BY <1>4, <1>5, <1>6, <1>7, <1>8 DEF PeersInv, Others, RemoveExpired, Expired

LEMMA PeersInit == Init => PeersInv
<1> SUFFICES ASSUME Init PROVE PeersInv
  OBVIOUS
<1>1. \A b \in Bundle : RemoveExpired(Published(b), now) \subseteq ListedIn(b)
  BY DEF RemoveExpired, Published, Others, ImportBundle, ListedIn
<1>2. QED
  BY <1>1 DEF Init, PeersInv

LEMMA PeersStep == TypeOK /\ PeersInv /\ [Next]_vars => PeersInv'
<1> SUFFICES ASSUME TypeOK, PeersInv, [Next]_vars
             PROVE  PeersInv'
  OBVIOUS
<1>1. CASE Tick
  <2>1. /\ now \in Nat /\ now' \in Nat /\ now <= now'
        /\ UNCHANGED <<locals, shown, answered>>
    BY <1>1, RegistryAssumption DEF Tick, TypeOK
  <2>2. ASSUME NEW w \in Worker, pc[w] # "idle"
        PROVE  Others(RemoveExpired(registry[w], now')) = RemoveExpired(Published(bundle[w]), now')
    <3>1. registry[w] \in SUBSET Descriptor /\ Published(bundle[w]) \in SUBSET Descriptor
      BY PublishedType DEF TypeOK
    <3>2. Others(RemoveExpired(registry[w], now)) = RemoveExpired(Published(bundle[w]), now)
      BY <2>2 DEF PeersInv
    <3>3. Others(RemoveExpired(registry[w], now')) =
             RemoveExpired(Others(RemoveExpired(registry[w], now)), now')
      <4>1. RemoveExpired(registry[w], now') =
               RemoveExpired(RemoveExpired(registry[w], now), now')
        BY <2>1, <3>1, ExpiryIsFinal
      <4>2. QED
        BY <4>1 DEF Others, RemoveExpired
    <3>4. RemoveExpired(Published(bundle[w]), now') =
             RemoveExpired(RemoveExpired(Published(bundle[w]), now), now')
      BY <2>1, <3>1, ExpiryIsFinal
    <3>5. QED
      BY <3>2, <3>3, <3>4
  <2>3. ASSUME NEW b \in Bundle
        PROVE  RemoveExpired(Published(b), now') \subseteq shown[b]
    <3>1. RemoveExpired(Published(b), now') =
             RemoveExpired(RemoveExpired(Published(b), now), now')
      BY <2>1, PublishedType, ExpiryIsFinal
    <3>2. RemoveExpired(Published(b), now) \subseteq shown[b]
      BY DEF PeersInv
    <3>3. QED
      BY <3>1, <3>2 DEF RemoveExpired
  <2>4. QED
    BY <2>1, <2>2, <2>3 DEF PeersInv, locals
<1>2. ASSUME NEW w \in Worker, ReadBundle(w)
      PROVE  PeersInv'
  <2> DEFINE imported == ImportBundle({LocalDescriptor(now)}, Listed(configured))
  <2>1. configured \in Bundle
    BY <1>2 DEF ReadBundle
  <2>2. Others(imported) = Published(configured)
    BY <2>1, OwnIsApart
  <2> HIDE DEF imported
  <2>3. Others(RemoveExpired(RemoveExpired(imported, now), now)) =
           RemoveExpired(Published(configured), now)
    BY <2>2 DEF Others, RemoveExpired
  <2>4. /\ registry' = [registry EXCEPT ![w] = RemoveExpired(imported, now)]
        /\ bundle' = [bundle EXCEPT ![w] = configured]
        /\ pc' = [pc EXCEPT ![w] = "events"]
        /\ UNCHANGED <<now, shown, answered>>
    BY <1>2 DEF ReadBundle, GoTo, imported
  <2>5. ASSUME NEW v \in Worker, pc'[v] # "idle"
        PROVE  Others(RemoveExpired(registry'[v], now)) = RemoveExpired(Published(bundle'[v]), now)
    <3>1. CASE v = w
      BY <2>3, <2>4, <3>1 DEF TypeOK
    <3>2. CASE v # w
      BY <2>4, <2>5, <3>2 DEF TypeOK, PeersInv
    <3>3. QED
      BY <3>1, <3>2
  <2>6. QED
    BY <2>4, <2>5 DEF PeersInv
<1>3. ASSUME NEW w \in Worker, Answer(w)
      PROVE  PeersInv'
  BY <1>3, AnswerKeepsPeers
<1>4. ASSUME NEW w \in Worker,
             RefuseBroken(w) \/ RefuseFull(w) \/ Fail(w)
      PROVE  PeersInv'
  <2>1. Finish(w) /\ UNCHANGED <<now, shown, answered>>
    BY <1>4 DEF RefuseBroken, RefuseFull, Fail
  <2>2. \A v \in Worker : pc'[v] # "idle" =>
           /\ pc[v] # "idle"
           /\ registry'[v] = registry[v]
           /\ bundle'[v] = bundle[v]
    BY <2>1 DEF Finish, GoTo, TypeOK
  <2>3. QED
    BY <2>1, <2>2 DEF PeersInv
<1>5. ASSUME NEW w \in Worker, BuildEvent(w) \/ KnowRevision(w) \/ AppendEvent(w)
      PROVE  PeersInv'
  <2>1. \A v \in Worker : pc'[v] # "idle" => pc[v] # "idle"
    BY <1>5 DEF BuildEvent, KnowRevision, AppendEvent, At, GoTo, TypeOK
  <2>2. UNCHANGED <<now, shown, answered, registry, bundle>>
    BY <1>5 DEF BuildEvent, KnowRevision, AppendEvent
  <2>3. QED
    BY <2>1, <2>2 DEF PeersInv
<1>6. UNCHANGED <<locals, now, shown, answered>> => PeersInv'
  BY DEF PeersInv, locals
<1>7. ASSUME NEW b \in Bundle \cup {"none", "unreadable"}, Configure(b)
      PROVE  PeersInv'
  BY <1>6, <1>7 DEF Configure
<1>8. ASSUME NEW w \in Worker, AnswerWithoutAudit(w)
      PROVE  PeersInv'
  BY <1>6, <1>8 DEF AnswerWithoutAudit
<1>9. CASE UNCHANGED vars
  BY <1>6, <1>9 DEF vars, locals
<1>10. QED
  BY <1>1, <1>2, <1>3, <1>4, <1>5, <1>7, <1>8, <1>9 DEF Next

(* With one revision in place no peer comes back: what an answer no longer shows
   none after it does, whatever overtakes whatever. *)
THEOREM PeersLeave == Spec => PeersOnlyLeave
<1>1. ASSUME TypeOK, PeersInv, [Next]_vars
      PROVE  \A b \in Bundle : shown'[b] \subseteq shown[b]
  <2>1. ASSUME NEW w \in Worker, Answer(w)
        PROVE  \A b \in Bundle : shown'[b] \subseteq shown[b]
    <3>1. shown' = [shown EXCEPT ![bundle[w]] = RemoveExpired(Published(bundle[w]), now)]
      BY <1>1, <2>1, AnswerShows
    <3>2. RemoveExpired(Published(bundle[w]), now) \subseteq shown[bundle[w]]
      BY <1>1 DEF PeersInv, TypeOK
    <3>3. QED
      BY <1>1, <3>1, <3>2 DEF TypeOK
  <2>2. CASE shown' = shown
    BY <2>2
  <2>3. QED
    BY <1>1, <2>1, <2>2
    DEF Next, vars, Tick, Configure, AnswerWithoutAudit, ReadBundle, RefuseBroken,
        RefuseFull, BuildEvent, KnowRevision, AppendEvent, Fail
<1>2. TypeOK /\ PeersInv /\ [Next]_vars =>
         [\A b \in Bundle : shown'[b] \subseteq shown[b]]_vars
  BY <1>1
<1>3. QED
  BY <1>2, TypeCorrect, PeersInit, PeersStep, PTL DEF Spec, PeersOnlyLeave

(* No answer has a descriptor of a peer that was replaced by a newer one, when
   the bundle lists them in the order of issue. *)
THEOREM NewestShown == Spec => []NewestIsShown
<1>1. ASSUME TypeOK, PeersInv, NEW b \in answered, InOrderOfIssue(Listed(b)),
             NEW d \in shown[b], NEW e \in ListedIn(b), d.operator_id = e.operator_id
      PROVE  e.updated_at <= d.updated_at
  <2>1. b \in Bundle /\ d \in Published(b)
    BY <1>1 DEF PeersInv, TypeOK
  <2>2. PICK i \in Accepted(Listed(b)) : d = Listed(b)[i] /\ NotReplaced(Listed(b), i)
    BY <2>1 DEF Published, Others, ImportBundle
  <2>3. PICK j \in Accepted(Listed(b)) : e = Listed(b)[j]
    BY <1>1 DEF ListedIn
  <2>4. i \in Nat /\ j \in Nat /\ Listed(b)[i] \in Descriptor
    BY <2>1, <2>2, <2>3, AuditAssumption, ListedType DEF Accepted
  <2>5. ~ (j > i)
    BY <1>1, <2>2, <2>3 DEF NotReplaced, Accepted
  <2>6. CASE j = i
    BY <2>2, <2>3, <2>4, <2>6 DEF Descriptor
  <2>7. CASE j < i
    BY <1>1, <2>2, <2>3, <2>7 DEF InOrderOfIssue
  <2>8. QED
    BY <2>4, <2>5, <2>6, <2>7
<1>2. TypeOK /\ PeersInv => NewestIsShown
  BY <1>1 DEF NewestIsShown
<1>3. QED
  BY <1>2, TypeCorrect, PeersInit, PeersStep, PTL DEF Spec
-----------------------------------------------------------------------------
(* The bounds of the log *)

(* The threads that are between the check of the log and their event. *)
Appending == {w \in Worker : pc[w] = "append"}

(* The length the log has when each of them has appended. *)
Pending == Len(auditLog) + Cardinality(Appending)

BoundsInv ==
    /\ Len(auditLog) >= MAX_AUDIT_EVENTS =>
          Pending < MAX_AUDIT_EVENTS + Cardinality(Worker)
    /\ \A i \in DOMAIN auditLog :
          auditLog[i].previous_event_id # i - 1 => Pending < i + Cardinality(Worker)

(* Appending is a finite set of threads. *)
LEMMA AppendingFinite ==
    /\ IsFiniteSet(Appending)
    /\ Cardinality(Appending) \in Nat
    /\ Cardinality(Worker) \in Nat
    /\ Cardinality(Appending) <= Cardinality(Worker)
<1>1. IsFiniteSet(Worker) /\ Appending \subseteq Worker
  BY AuditAssumption DEF Appending
<1>2. QED
  BY <1>1, FS_Subset, FS_CardinalityType

(* One that appends its event, or gives up, is pending no longer. *)
LEMMA AppendingLeft ==
    ASSUME NEW w \in Worker, TypeOK, Finish(w) \/ GoTo(w, "answer")
    PROVE  /\ Cardinality(Appending') \in Nat
           /\ Cardinality(Appending') <= Cardinality(Appending)
           /\ pc[w] = "append" => Cardinality(Appending') = Cardinality(Appending) - 1
<1>1. Appending' = Appending \ {w}
  BY DEF Appending, Finish, GoTo, TypeOK
<1>2. IsFiniteSet(Appending)
  BY AppendingFinite
<1>3. /\ IsFiniteSet(Appending \ {w})
      /\ Cardinality(Appending \ {w}) =
            IF w \in Appending THEN Cardinality(Appending) - 1 ELSE Cardinality(Appending)
  BY <1>2, FS_RemoveElement
<1>4. pc[w] = "append" <=> w \in Appending
  BY DEF Appending
<1>5. Cardinality(Appending) \in Nat /\ Cardinality(Appending \ {w}) \in Nat
  BY <1>2, <1>3, FS_CardinalityType
<1>6. CASE w \in Appending
  BY <1>1, <1>3, <1>4, <1>5, <1>6
<1>7. CASE w \notin Appending
  BY <1>1, <1>3, <1>4, <1>5, <1>7
<1>8. QED
  BY <1>6, <1>7

LEMMA BoundsInit == Init => BoundsInv
BY AuditAssumption DEF Init, BoundsInv

LEMMA BoundsStep == TypeOK /\ BoundsInv /\ [Next]_vars => BoundsInv'
<1> SUFFICES ASSUME TypeOK, BoundsInv, [Next]_vars
             PROVE  BoundsInv'
  OBVIOUS
<1>1. /\ MAX_AUDIT_EVENTS \in Nat
      /\ Len(auditLog) \in Nat
      /\ Cardinality(Appending) \in Nat /\ Cardinality(Worker) \in Nat
  BY AuditAssumption, AppendingFinite DEF TypeOK
<1>2. UNCHANGED <<auditLog, pc>> => BoundsInv'
  BY DEF BoundsInv, Pending, Appending
<1>3. ASSUME NEW w \in Worker, UNCHANGED auditLog, Finish(w) \/ GoTo(w, "answer")
      PROVE  BoundsInv'
  <2>1. /\ Cardinality(Appending') \in Nat
        /\ Cardinality(Appending') <= Cardinality(Appending)
    BY <1>3, AppendingLeft
  <2>2. Pending' \in Nat /\ Pending \in Nat /\ Pending' <= Pending
    BY <1>1, <1>3, <2>1 DEF Pending
  <2>3. QED
    BY <1>1, <1>3, <2>2, AuditAssumption DEF BoundsInv
<1>4. ASSUME NEW w \in Worker, ReadBundle(w)
      PROVE  BoundsInv'
  <2>1. auditLog' = auditLog /\ Appending' = Appending
    BY <1>4 DEF ReadBundle, Appending, At, GoTo, TypeOK, files
  <2>2. QED
    BY <2>1 DEF BoundsInv, Pending
<1>5. ASSUME NEW w \in Worker, BuildEvent(w)
      PROVE  BoundsInv'
  <2>1. /\ auditLog' = auditLog /\ HasRoom
        /\ \A i \in DOMAIN auditLog : auditLog[i].previous_event_id = i - 1
    BY <1>5 DEF BuildEvent, Verifies, Linked, files
  <2>2. QED
    BY <1>1, <2>1 DEF BoundsInv, HasRoom
<1>6. ASSUME NEW w \in Worker, AppendEvent(w)
      PROVE  BoundsInv'
  <2>1. GoTo(w, "answer") /\ pc[w] = "append"
    BY <1>6 DEF AppendEvent, At
  <2>2. /\ Cardinality(Appending') \in Nat
        /\ Cardinality(Appending') = Cardinality(Appending) - 1
        /\ Cardinality(Appending) <= Cardinality(Worker)
    BY <2>1, AppendingLeft, AppendingFinite
  <2>3. PICK e \in Event : auditLog' = Append(auditLog, e)
    BY <1>6 DEF AppendEvent, TypeOK, Event
  <2>4. /\ Len(auditLog') = Len(auditLog) + 1
        /\ DOMAIN auditLog' = DOMAIN auditLog \cup {Len(auditLog) + 1}
        /\ \A i \in DOMAIN auditLog : auditLog'[i] = auditLog[i] /\ i \in Nat
    BY <2>3 DEF TypeOK
  <2>5. Pending' = Pending /\ Pending \in Nat
    BY <1>1, <2>2, <2>4 DEF Pending
  <2>6. /\ Pending = Len(auditLog) + Cardinality(Appending)
        /\ Pending < Len(auditLog) + 1 + Cardinality(Worker)
    BY <1>1, <2>2 DEF Pending
  <2>7. Len(auditLog') >= MAX_AUDIT_EVENTS =>
           Pending' < MAX_AUDIT_EVENTS + Cardinality(Worker)
    <3>1. CASE Len(auditLog) >= MAX_AUDIT_EVENTS
      BY <2>5, <3>1 DEF BoundsInv
    <3>2. CASE Len(auditLog) < MAX_AUDIT_EVENTS
      BY <1>1, <2>4, <2>5, <2>6, <3>2
    <3>3. QED
      BY <1>1, <3>1, <3>2
  <2>8. ASSUME NEW i \in DOMAIN auditLog', auditLog'[i].previous_event_id # i - 1
        PROVE  Pending' < i + Cardinality(Worker)
    <3>1. CASE i \in DOMAIN auditLog
      BY <2>4, <2>5, <2>8, <3>1 DEF BoundsInv
    <3>2. CASE i = Len(auditLog) + 1
      BY <2>5, <2>6, <3>2
    <3>3. QED
      BY <2>4, <3>1, <3>2
  <2>9. QED
    BY <2>7, <2>8 DEF BoundsInv
<1>7. ASSUME NEW w \in Worker,
             RefuseBroken(w) \/ RefuseFull(w) \/ Fail(w) \/ KnowRevision(w) \/ Answer(w)
      PROVE  BoundsInv'
  BY <1>3, <1>7 DEF RefuseBroken, RefuseFull, Fail, KnowRevision, Answer, files
<1>8. ASSUME NEW w \in Worker, AnswerWithoutAudit(w)
      PROVE  BoundsInv'
  BY <1>2, <1>8 DEF AnswerWithoutAudit, locals, files
<1>9. ASSUME NEW b \in Bundle \cup {"none", "unreadable"}, Configure(b)
      PROVE  BoundsInv'
  BY <1>2, <1>9 DEF Configure, locals
<1>10. CASE Tick \/ UNCHANGED vars
  BY <1>2, <1>10 DEF Tick, vars, locals, files
<1>11. QED
  BY <1>4, <1>5, <1>6, <1>7, <1>8, <1>9, <1>10 DEF Next

(* However many threads pass the check of the limit together, the log does not
   outgrow it by as many as there are. *)
THEOREM LimitKept == Spec => []LimitHolds
<1>1. TypeOK /\ BoundsInv => LimitHolds
  <2> SUFFICES ASSUME TypeOK, BoundsInv
               PROVE  LimitHolds
    OBVIOUS
  <2>1. /\ MAX_AUDIT_EVENTS \in Nat /\ Len(auditLog) \in Nat
        /\ Cardinality(Appending) \in Nat /\ Cardinality(Worker) \in Nat
    BY AuditAssumption, AppendingFinite DEF TypeOK
  <2>2. CASE Len(auditLog) >= MAX_AUDIT_EVENTS
    BY <2>1, <2>2 DEF BoundsInv, Pending, LimitHolds
  <2>3. CASE Len(auditLog) < MAX_AUDIT_EVENTS
    BY <2>1, <2>3 DEF LimitHolds
  <2>4. QED
    BY <2>1, <2>2, <2>3
<1>2. QED
  BY <1>1, TypeCorrect, BoundsInit, BoundsStep, PTL DEF Spec

(* A chain that stopped verifying gets no events but those of the threads that
   were past the check when it did. *)
THEOREM BrokenStays == Spec => []BrokenIsFrozen
<1>1. TypeOK /\ BoundsInv => BrokenIsFrozen
  <2> SUFFICES ASSUME TypeOK, BoundsInv, NEW i \in DOMAIN auditLog,
                      auditLog[i].previous_event_id # i - 1
               PROVE  Len(auditLog) < i + Cardinality(Worker)
    BY DEF BrokenIsFrozen
  <2>1. /\ i \in Nat /\ Len(auditLog) \in Nat
        /\ Cardinality(Appending) \in Nat /\ Cardinality(Worker) \in Nat
    BY AppendingFinite DEF TypeOK
  <2>2. QED
    BY <2>1 DEF BoundsInv, Pending
<1>2. QED
  BY <1>1, TypeCorrect, BoundsInit, BoundsStep, PTL DEF Spec
=============================================================================
