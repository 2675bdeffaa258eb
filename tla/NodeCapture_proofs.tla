------------------------- MODULE NodeCapture_proofs -------------------------
(***************************************************************************)
(* Theorems about NodeCapture, for any threads, keys, addresses and        *)
(* bounds.                                                                 *)
(***************************************************************************)
EXTENDS NodeCapture, FiniteSetTheorems, TLAPS

(* What a thread holds at each step, beyond the types: these are what makes the
   type of the stored bundles inductive. *)
JobsHold ==
    \A w \in Worker :
       /\ pc[w] = "fetch" => job[w].source = "page"
       /\ pc[w] = "fill_key" => job[w].key \in usedKeys
       /\ pc[w] \in {"stamp", "ingest"} => job[w].key \in usedKeys /\ job[w].source \in Source
       /\ job[w].stamp \in {"declared"} \cup Reply

(* What is stored was signed with a key the node generated. *)
StoredHold == \A s \in stored : s.key \in usedKeys

FileHolds == keyFile \in Key => keyFile \in usedKeys

TypeInv == TypeOK /\ JobsHold /\ StoredHold /\ FileHolds

LEMMA NoJobType == NoJob \in Job
BY CaptureAssumption DEF NoJob, Asked, Job, Stamp

LEMMA NoJobStamp == NoJob.stamp = "declared"
BY DEF NoJob, Asked

LEMMA GateInitType == GateInit => GateTypeOK
BY GateAssumption DEF GateInit, GateTypeOK

LEMMA PassType ==
    ASSUME GateTypeOK, NEW a \in Address, Pass(a)
    PROVE  GateTypeOK'
<1>1. [at |-> clock, number |-> requests] \in Hit
  BY GateAssumption DEF GateTypeOK, Hit
<1>2. Recent(a) \subseteq Hit
  BY DEF GateTypeOK, Recent
<1>3. hits' \in [Address -> SUBSET Hit] /\ passed' \in [Address -> SUBSET Hit]
  BY <1>1, <1>2 DEF GateTypeOK, Pass, Count
<1>4. requests' \in 0 .. MaxRequests /\ clock' = clock
  BY GateAssumption DEF GateTypeOK, Pass
<1>5. QED
  BY <1>3, <1>4 DEF GateTypeOK

LEMMA TooManyType ==
    ASSUME GateTypeOK, NEW a \in Address, TooMany(a)
    PROVE  GateTypeOK'
<1>1. Recent(a) \subseteq Hit
  BY DEF GateTypeOK, Recent
<1>2. QED
  BY <1>1 DEF GateTypeOK, TooMany

LEMMA TickType ==
    ASSUME GateTypeOK, Tick
    PROVE  GateTypeOK'
BY GateAssumption DEF GateTypeOK, Tick

LEMMA ForgetType ==
    ASSUME GateTypeOK, Forget
    PROVE  GateTypeOK'
BY DEF GateTypeOK, Forget

LEMMA GateUnchanged ==
    ASSUME GateTypeOK, UNCHANGED gateVars
    PROVE  GateTypeOK'
BY DEF GateTypeOK, gateVars

(* Steps that neither store nor generate a key and leave each thread where it
   was or idle keep the invariant. *)
LEMMA FinishKeeps ==
    ASSUME TypeInv, NEW w \in Worker, Finish(w), GateTypeOK',
           UNCHANGED <<keyFile, usedKeys, stored, restarts>>
    PROVE  TypeInv'
BY NoJobType, NoJobStamp DEF TypeInv, TypeOK, JobsHold, StoredHold, FileHolds, Finish, GoTo, Steps

LEMMA InitTyped == Init => TypeInv
BY NoJobType, NoJobStamp, GateInitType, CaptureAssumption
DEF Init, TypeInv, TypeOK, JobsHold, StoredHold, FileHolds, Steps, KeyFile

LEMMA StepTyped == TypeInv /\ [Next]_vars => TypeInv'
<1> SUFFICES ASSUME TypeInv, [Next]_vars
             PROVE  TypeInv'
  OBVIOUS
<1> USE CaptureAssumption
    DEF TypeInv, TypeOK, JobsHold, StoredHold, FileHolds, Steps, At, GoTo
<1>1. ASSUME NEW w \in Worker, NEW a \in Address, RequestPage(w, a)
      PROVE  TypeInv'
  <2>1. /\ Asked("page") \in Job
        /\ Asked("page").source = "page"
        /\ Asked("page").stamp = "declared"
    BY DEF Asked, Job, Source, Stamp
  <2>2. GateTypeOK'
    BY <1>1, PassType DEF RequestPage
  <2>3. QED
    BY <1>1, <2>1, <2>2 DEF RequestPage
<1>2. ASSUME NEW w \in Worker, NEW a \in Address, RequestText(w, a)
      PROVE  TypeInv'
  <2>1. Asked("text") \in Job /\ Asked("text").stamp = "declared"
    BY DEF Asked, Job, Source, Stamp
  <2>2. GateTypeOK'
    BY <1>2, PassType DEF RequestText
  <2>3. QED
    BY <1>2, <2>1, <2>2 DEF RequestText
<1>3. ASSUME NEW w \in Worker, RequestNodeInfo(w)
      PROVE  TypeInv'
  BY <1>3, GateUnchanged DEF RequestNodeInfo
<1>4. ASSUME NEW w \in Worker, RejectUrl(w)
      PROVE  TypeInv'
  BY <1>4, GateUnchanged, FinishKeeps DEF RejectUrl
<1>5. ASSUME NEW w \in Worker, FollowRedirect(w)
      PROVE  TypeInv'
  <2>1. job' = [job EXCEPT ![w].hops = @ + 1]
    BY <1>5 DEF FollowRedirect
  <2>2. job[w].source = "page" /\ job[w].hops + 1 \in 0 .. MaxRedirects
    BY <1>5 DEF FollowRedirect, MayFollow, Job
  <2>3. job' \in [Worker -> Job]
    BY <2>1, <2>2 DEF Job
  <2>4. job'[w].stamp = job[w].stamp /\ job'[w].source = "page"
    BY <2>1, <2>2 DEF Job
  <2>5. \A v \in Worker \ {w} : job'[v] = job[v]
    BY <2>1
  <2>6. pc[w] = "fetch" /\ pc' = pc
    BY <1>5 DEF FollowRedirect
  <2>7. JobsHold'
    BY <1>5, <2>4, <2>5, <2>6 DEF FollowRedirect
  <2>8. GateTypeOK'
    BY <1>5, GateUnchanged DEF FollowRedirect
  <2>9. QED
    BY <1>5, <2>3, <2>7, <2>8 DEF FollowRedirect
<1>6. ASSUME NEW w \in Worker, ReadPage(w)
      PROVE  TypeInv'
  BY <1>6, GateUnchanged DEF ReadPage
<1>7. ASSUME NEW w \in Worker, FetchFails(w)
      PROVE  TypeInv'
  BY <1>7, GateUnchanged, FinishKeeps DEF FetchFails
<1>8. ASSUME NEW w \in Worker, FindKey(w)
      PROVE  TypeInv'
  BY <1>8, GateUnchanged DEF FindKey
<1>9. ASSUME NEW w \in Worker, CreateKey(w)
      PROVE  TypeInv'
  <2>1. PICK k \in Key \ usedKeys :
           usedKeys' = usedKeys \cup {k} /\ job' = [job EXCEPT ![w].key = k]
    BY <1>9 DEF CreateKey
  <2>2. job' \in [Worker -> Job] /\ job'[w].key = k
    BY <2>1 DEF Job
  <2>3. \A v \in Worker \ {w} : job'[v] = job[v]
    BY <2>1
  <2>4. pc' = [pc EXCEPT ![w] = "fill_key"]
    BY <1>9 DEF CreateKey
  <2>5. JobsHold'
    BY <2>1, <2>2, <2>3, <2>4
  <2>6. GateTypeOK'
    BY <1>9, GateUnchanged DEF CreateKey
  <2>7. QED
    BY <1>9, <2>1, <2>2, <2>4, <2>5, <2>6 DEF CreateKey, KeyFile
<1>10. ASSUME NEW w \in Worker, FillKey(w)
       PROVE  TypeInv'
  BY <1>10, GateUnchanged DEF FillKey, KeyFile
<1>11. ASSUME NEW w \in Worker, LoadKey(w)
       PROVE  TypeInv'
  <2>1. GateTypeOK'
    BY <1>11, GateUnchanged DEF LoadKey
  <2>2. CASE job[w].source = "node_info"
    BY <1>11, <2>1, <2>2, FinishKeeps DEF LoadKey
  <2>3. CASE job[w].source # "node_info"
    <3>1. job' = [job EXCEPT ![w].key = keyFile] /\ keyFile \in usedKeys
      BY <1>11, <2>3 DEF LoadKey
    <3>2. job' \in [Worker -> Job]
      BY <3>1 DEF Job
    <3>3. /\ job'[w].key = keyFile
          /\ job'[w].stamp = job[w].stamp
          /\ job'[w].source \in Source
      BY <2>3, <3>1 DEF Job
    <3>4. \A v \in Worker \ {w} : job'[v] = job[v]
      BY <3>1
    <3>5. /\ pc' \in [Worker -> Steps]
          /\ \A v \in Worker \ {w} : pc'[v] = pc[v]
          /\ pc'[w] \in {"stamp", "ingest"}
      BY <1>11, <2>3 DEF LoadKey
    <3>6. JobsHold'
      BY <1>11, <3>3, <3>4, <3>5 DEF LoadKey
    <3>7. QED
      BY <1>11, <2>1, <3>2, <3>5, <3>6 DEF LoadKey
  <2>4. QED
    BY <2>2, <2>3
<1>12. ASSUME NEW w \in Worker, LoadTorn(w)
       PROVE  TypeInv'
  BY <1>12, GateUnchanged, FinishKeeps DEF LoadTorn
<1>13. ASSUME NEW w \in Worker, ObtainToken(w)
       PROVE  TypeInv'
  <2>1. PICK s \in Reply \cup {"declared"} : job' = [job EXCEPT ![w].stamp = s]
    BY <1>13 DEF ObtainToken
  <2>2. job' \in [Worker -> Job]
    BY <2>1 DEF Job, Stamp, ThirdParty
  <2>3. /\ job'[w].stamp = s
        /\ job'[w].key = job[w].key
        /\ job'[w].source = job[w].source
    BY <2>1 DEF Job
  <2>4. \A v \in Worker \ {w} : job'[v] = job[v]
    BY <2>1
  <2>5. pc[w] = "stamp" /\ pc' = [pc EXCEPT ![w] = "ingest"] /\ usedKeys' = usedKeys
    BY <1>13 DEF ObtainToken
  <2>6. JobsHold'
    BY <2>3, <2>4, <2>5
  <2>7. GateTypeOK'
    BY <1>13, GateUnchanged DEF ObtainToken
  <2>8. QED
    BY <1>13, <2>2, <2>5, <2>6, <2>7 DEF ObtainToken
<1>14. ASSUME NEW w \in Worker, Ingest(w)
       PROVE  TypeInv'
  <2>1. PICK proof \in LogProofs :
           stored' = stored \cup {[bundle |-> BundleOf(w, proof), key |-> job[w].key]}
    BY <1>14 DEF Ingest
  <2> DEFINE new == [bundle |-> BundleOf(w, proof), key |-> job[w].key]
  <2>2. job[w].key \in usedKeys /\ job[w].source \in Source
    BY <1>14 DEF Ingest
  <2>3. job[w].stamp \in Stamp /\ proof \in Proof
    BY DEF Job, LogProofs, Proof
  <2>4. BundleOf(w, proof) \in Bundle
    BY <2>2, <2>3 DEF Bundle, BundleOf
  <2>5. new \in Stored /\ new.key \in usedKeys
    BY <2>2, <2>4 DEF Stored
  <2>6. GateTypeOK'
    BY <1>14, GateUnchanged DEF Ingest
  <2> HIDE DEF new
  <2>7. stored' = stored \cup {new}
    BY <2>1 DEF new
  <2>8. QED
    BY <1>14, <2>5, <2>6, <2>7, NoJobType, NoJobStamp DEF Ingest, Finish
<1>15. ASSUME NEW w \in Worker, Fail(w)
       PROVE  TypeInv'
  BY <1>15, GateUnchanged, FinishKeeps DEF Fail
<1>16. ASSUME NEW a \in Address, Refused(a)
       PROVE  TypeInv'
  BY <1>16, PassType DEF Refused
<1>17. ASSUME NEW a \in Address, TurnedAway(a)
       PROVE  TypeInv'
  BY <1>17, TooManyType DEF TurnedAway
<1>18. ASSUME Restart
       PROVE  TypeInv'
  BY <1>18, ForgetType, NoJobType, NoJobStamp DEF Restart
<1>19. ASSUME TimePasses
       PROVE  TypeInv'
  BY <1>19, TickType DEF TimePasses
<1>20. CASE UNCHANGED vars
  BY <1>20, GateUnchanged DEF vars
<1>21. QED
  BY <1>1, <1>2, <1>3, <1>4, <1>5, <1>6, <1>7, <1>8, <1>9, <1>10, <1>11, <1>12,
     <1>13, <1>14, <1>15, <1>16, <1>17, <1>18, <1>19, <1>20 DEF Next

LEMMA Typed == Spec => []TypeInv
BY InitTyped, StepTyped, PTL DEF Spec

(* Type correctness of the capture path and of the gate before it. *)
THEOREM TypeCorrect == Spec => []TypeOK
<1>1. TypeInv => TypeOK
  BY DEF TypeInv
<1>2. QED
  BY <1>1, Typed, PTL

-----------------------------------------------------------------------------

(* The identity of a node: a whole key file that no thread is about to write
   stays as it is, over every later request and restart. *)
THEOREM IdentityKept == Spec => KeyIsKept
<1>1. ASSUME TypeInv, [Next]_vars, Settled
      PROVE  Settled' /\ keyFile' = keyFile
  <2> USE <1>1, CaptureAssumption DEF Settled, Creating, TypeInv, TypeOK
  <2>1. keyFile # "none"
    OBVIOUS
  <2>2. ASSUME NEW w \in Worker, FindKey(w)
        PROVE  Settled' /\ keyFile' = keyFile
    BY <2>1, <2>2 DEF FindKey, KeyExists, GoTo
  <2>3. ASSUME NEW w \in Worker, CreateKey(w) \/ FillKey(w)
        PROVE  FALSE
    BY <2>3 DEF CreateKey, FillKey, At
  <2>4. ASSUME NEW w \in Worker,
               \/ \E a \in Address : RequestPage(w, a) \/ RequestText(w, a)
               \/ RequestNodeInfo(w) \/ ReadPage(w) \/ ObtainToken(w)
        PROVE  Settled' /\ keyFile' = keyFile
    BY <2>4 DEF RequestPage, RequestText, RequestNodeInfo, ReadPage, ObtainToken, GoTo
  <2>5. ASSUME NEW w \in Worker,
               RejectUrl(w) \/ FetchFails(w) \/ LoadTorn(w) \/ Ingest(w) \/ Fail(w)
        PROVE  Settled' /\ keyFile' = keyFile
    BY <2>5 DEF RejectUrl, FetchFails, LoadTorn, Ingest, Fail, Finish, GoTo
  <2>6. ASSUME NEW w \in Worker, LoadKey(w)
        PROVE  Settled' /\ keyFile' = keyFile
    BY <2>6 DEF LoadKey, Finish, GoTo
  <2>7. ASSUME NEW w \in Worker, FollowRedirect(w)
        PROVE  Settled' /\ keyFile' = keyFile
    BY <2>7 DEF FollowRedirect
  <2>8. CASE Restart
    BY <2>8 DEF Restart
  <2>9. CASE UNCHANGED <<keyFile, pc>>
    BY <2>9
  <2>10. QED
    BY <2>2, <2>3, <2>4, <2>5, <2>6, <2>7, <2>8, <2>9
    DEF Next, vars, Refused, TurnedAway, TimePasses
<1>2. TypeInv /\ [Next]_vars => [Settled => Settled' /\ keyFile' = keyFile]_vars
  BY <1>1
<1>3. QED
  BY <1>2, Typed, PTL DEF Spec, KeyIsKept

-----------------------------------------------------------------------------

(* Why at most as many keys sign as there are threads: a thread about to create
   a key found no file, and there is a file from the first creation on.  So once
   there is one, the keys generated and the threads about to create another are
   together no more than all threads. *)
AboutToCreate == {w \in Worker : pc[w] = "create_key"}

KeysInv ==
    /\ IsFiniteSet(usedKeys)
    /\ keyFile = "none" => usedKeys = {}
    /\ Cardinality(usedKeys) + Cardinality(AboutToCreate) <= Cardinality(Worker)

LEMMA WorkersFinite ==
    ASSUME NEW S \in SUBSET Worker
    PROVE  /\ IsFiniteSet(S)
           /\ Cardinality(S) \in Nat
           /\ Cardinality(S) <= Cardinality(Worker)
BY CaptureAssumption, FS_Subset, FS_CardinalityType

(* Steps that generate no key and send no thread to generate one. *)
LEMMA KeysKept ==
    ASSUME KeysInv, usedKeys' = usedKeys, AboutToCreate' \subseteq AboutToCreate,
           keyFile' = "none" => keyFile = "none"
    PROVE  KeysInv'
<1>1. /\ AboutToCreate \in SUBSET Worker
      /\ IsFiniteSet(AboutToCreate)
      /\ Cardinality(AboutToCreate) \in Nat
  BY WorkersFinite DEF AboutToCreate
<1>2. /\ Cardinality(AboutToCreate') <= Cardinality(AboutToCreate)
      /\ Cardinality(AboutToCreate') \in Nat
  BY <1>1, FS_Subset, FS_CardinalityType
<1>3. Cardinality(usedKeys) \in Nat /\ Cardinality(Worker) \in Nat
  BY CaptureAssumption, FS_CardinalityType DEF KeysInv
<1>4. QED
  BY <1>1, <1>2, <1>3 DEF KeysInv

LEMMA KeysInductive == TypeInv /\ KeysInv /\ [Next]_vars => KeysInv'
<1> SUFFICES ASSUME TypeInv, KeysInv, [Next]_vars
             PROVE  KeysInv'
  OBVIOUS
<1> USE CaptureAssumption DEF TypeInv, TypeOK
<1>1. ASSUME NEW w \in Worker, FindKey(w)
      PROVE  KeysInv'
  <2>1. CASE keyFile = "none"
    <3>1. usedKeys' = {} /\ keyFile' = keyFile
      BY <1>1, <2>1 DEF FindKey, KeysInv
    <3>2. Cardinality(AboutToCreate') \in Nat
          /\ Cardinality(AboutToCreate') <= Cardinality(Worker)
      BY WorkersFinite DEF AboutToCreate
    <3>3. Cardinality(Worker) \in Nat
      BY FS_CardinalityType
    <3>4. QED
      BY <3>1, <3>2, <3>3, FS_EmptySet DEF KeysInv
  <2>2. CASE keyFile # "none"
    <3>1. AboutToCreate' \subseteq AboutToCreate
      BY <1>1, <2>2 DEF FindKey, KeyExists, GoTo, AboutToCreate
    <3>2. QED
      BY <1>1, <3>1, KeysKept DEF FindKey
  <2>3. QED
    BY <2>1, <2>2
<1>2. ASSUME NEW w \in Worker, CreateKey(w)
      PROVE  KeysInv'
  <2>1. PICK k \in Key \ usedKeys : usedKeys' = usedKeys \cup {k}
    BY <1>2 DEF CreateKey
  <2>2. /\ IsFiniteSet(usedKeys')
        /\ Cardinality(usedKeys') = Cardinality(usedKeys) + 1
        /\ Cardinality(usedKeys) \in Nat
    BY <2>1, FS_AddElement, FS_CardinalityType DEF KeysInv
  <2>3. w \in AboutToCreate /\ AboutToCreate' = AboutToCreate \ {w}
    BY <1>2 DEF CreateKey, At, GoTo, AboutToCreate
  <2>4. /\ IsFiniteSet(AboutToCreate)
        /\ Cardinality(AboutToCreate) \in Nat
    BY WorkersFinite DEF AboutToCreate
  <2>5. Cardinality(AboutToCreate') = Cardinality(AboutToCreate) - 1
    BY <2>3, <2>4, FS_RemoveElement
  <2>6. keyFile' # "none"
    BY <1>2 DEF CreateKey
  <2>7. Cardinality(Worker) \in Nat
    BY FS_CardinalityType
  <2>8. QED
    BY <2>2, <2>4, <2>5, <2>6, <2>7 DEF KeysInv
<1>3. ASSUME NEW w \in Worker, FillKey(w)
      PROVE  KeysInv'
  <2>1. keyFile' \in Key
    BY <1>3 DEF FillKey, At, JobsHold
  <2>2. AboutToCreate' \subseteq AboutToCreate
    BY <1>3 DEF FillKey, GoTo, AboutToCreate
  <2>3. QED
    BY <1>3, <2>1, <2>2, KeysKept DEF FillKey
<1>4. ASSUME NEW w \in Worker,
             \/ \E a \in Address : RequestPage(w, a) \/ RequestText(w, a)
             \/ RequestNodeInfo(w) \/ FollowRedirect(w) \/ ReadPage(w) \/ ObtainToken(w)
      PROVE  KeysInv'
  <2>1. usedKeys' = usedKeys /\ keyFile' = keyFile /\ AboutToCreate' \subseteq AboutToCreate
    BY <1>4
    DEF RequestPage, RequestText, RequestNodeInfo, FollowRedirect, ReadPage,
        ObtainToken, GoTo, AboutToCreate
  <2>2. QED
    BY <2>1, KeysKept
<1>5. ASSUME NEW w \in Worker,
             \/ RejectUrl(w) \/ FetchFails(w) \/ LoadTorn(w) \/ Ingest(w) \/ Fail(w)
             \/ LoadKey(w)
      PROVE  KeysInv'
  <2>1. usedKeys' = usedKeys /\ keyFile' = keyFile /\ AboutToCreate' \subseteq AboutToCreate
    BY <1>5
    DEF RejectUrl, FetchFails, LoadTorn, Ingest, Fail, LoadKey, Finish, GoTo,
        AboutToCreate
  <2>2. QED
    BY <2>1, KeysKept
<1>6. CASE Restart
  <2>1. usedKeys' = usedKeys /\ keyFile' = keyFile /\ AboutToCreate' \subseteq AboutToCreate
    BY <1>6 DEF Restart, AboutToCreate
  <2>2. QED
    BY <2>1, KeysKept
<1>7. CASE UNCHANGED <<keyFile, usedKeys, pc>>
  BY <1>7, KeysKept DEF AboutToCreate
<1>8. QED
  BY <1>1, <1>2, <1>3, <1>4, <1>5, <1>6, <1>7
  DEF Next, vars, Refused, TurnedAway, TimePasses

(* However many first requests of a fresh node race, no more keys sign
   Observations than there are threads. *)
THEOREM FewKeys == Spec => []KeysBoundedByThreads
<1>1. Init => KeysInv
  <2> SUFFICES ASSUME Init PROVE KeysInv
    OBVIOUS
  <2>1. AboutToCreate = {} /\ usedKeys = {}
    BY DEF Init, AboutToCreate
  <2>2. Cardinality(Worker) \in Nat
    BY CaptureAssumption, FS_CardinalityType
  <2>3. QED
    BY <2>1, <2>2, FS_EmptySet DEF KeysInv
<1>2. TypeInv /\ KeysInv => KeysBoundedByThreads
  <2> SUFFICES ASSUME TypeInv, KeysInv PROVE KeysBoundedByThreads
    OBVIOUS
  <2> DEFINE signing == {s.key : s \in stored}
  <2>1. signing \subseteq usedKeys
    BY DEF TypeInv, StoredHold
  <2>2. IsFiniteSet(usedKeys) /\ Cardinality(usedKeys) \in Nat
    BY FS_CardinalityType DEF KeysInv
  <2>3. /\ Cardinality(signing) <= Cardinality(usedKeys)
        /\ Cardinality(signing) \in Nat
    BY <2>1, <2>2, FS_Subset, FS_CardinalityType
  <2>4. Cardinality(AboutToCreate) \in Nat
    BY WorkersFinite DEF AboutToCreate
  <2>5. Cardinality(Worker) \in Nat
    BY CaptureAssumption, FS_CardinalityType
  <2> HIDE DEF signing
  <2>6. Cardinality(signing) <= Cardinality(Worker)
    BY <2>2, <2>3, <2>4, <2>5 DEF KeysInv
  <2>7. QED
    BY <2>6 DEF KeysBoundedByThreads, signing
<1>3. QED
  BY <1>1, <1>2, KeysInductive, Typed, PTL DEF Spec

-----------------------------------------------------------------------------

(* Why the limit holds in every window: requests that passed less than a window
   ago are all in the list.  A request that passes ends any window it is in, and
   what passed in that window before it is still recent. *)
InWindow(a, t) == {h \in passed[a] : t <= h.at /\ h.at < t + Window}

RateInv ==
    Lockdown => \A a \in Address :
       /\ IsFiniteSet(passed[a])
       /\ IsFiniteSet(hits[a])
       /\ \A h \in passed[a] : h.at <= clock /\ (clock - h.at < Window => h \in hits[a])
       /\ \A t \in 0 .. MaxTime : Cardinality(InWindow(a, t)) <= Limit

LEMMA PassKeepsRate ==
    ASSUME GateTypeOK, RateInv, NEW a \in Address, Pass(a)
    PROVE  RateInv'
<1> SUFFICES ASSUME Lockdown, NEW c \in Address
             PROVE  /\ IsFiniteSet(passed'[c])
                    /\ IsFiniteSet(hits'[c])
                    /\ \A h \in passed'[c] :
                          h.at <= clock' /\ (clock' - h.at < Window => h \in hits'[c])
                    /\ \A t \in 0 .. MaxTime : Cardinality(InWindow(c, t)') <= Limit
  BY DEF RateInv
<1> DEFINE hit == [at |-> clock, number |-> requests]
<1>1. /\ hits' = [hits EXCEPT ![a] = Recent(a) \cup {hit}]
      /\ passed' = [passed EXCEPT ![a] = @ \cup {hit}]
      /\ clock' = clock
      /\ Cardinality(Recent(a)) < Limit
  BY DEF Pass, Count, HasRoom
<1>2. clock \in Nat /\ Limit \in Nat /\ Window \in Nat \ {0} /\ MaxTime \in Nat
  BY GateAssumption DEF GateTypeOK
<1>3. hit.at = clock
  OBVIOUS
<1>4. /\ IsFiniteSet(passed[c])
      /\ IsFiniteSet(hits[c])
      /\ \A h \in passed[c] : h.at <= clock /\ (clock - h.at < Window => h \in hits[c])
      /\ \A t \in 0 .. MaxTime : Cardinality(InWindow(c, t)) <= Limit
      /\ passed[c] \subseteq Hit
  BY DEF RateInv, GateTypeOK
<1> HIDE DEF hit
<1>5. CASE c # a
  <2>1. passed'[c] = passed[c] /\ hits'[c] = hits[c]
    BY <1>1, <1>5 DEF GateTypeOK
  <2>2. \A t \in 0 .. MaxTime : InWindow(c, t)' = InWindow(c, t)
    BY <2>1 DEF InWindow
  <2>3. QED
    BY <1>1, <1>4, <2>1, <2>2
<1>6. CASE c = a
  <2>1. passed'[c] = passed[c] \cup {hit} /\ hits'[c] = Recent(c) \cup {hit}
    BY <1>1, <1>6 DEF GateTypeOK
  <2>2. Recent(c) \in SUBSET hits[c]
    BY DEF Recent
  <2>3. IsFiniteSet(Recent(c)) /\ Cardinality(Recent(c)) \in Nat
    BY <1>4, <2>2, FS_Subset, FS_CardinalityType
  <2>4. IsFiniteSet(passed'[c]) /\ IsFiniteSet(hits'[c])
    <3>1. IsFiniteSet(passed[c] \cup {hit})
      BY <1>4, FS_AddElement
    <3>2. IsFiniteSet(Recent(c) \cup {hit})
      BY <2>3, FS_AddElement
    <3>3. QED
      BY <2>1, <3>1, <3>2
  <2>5. \A h \in passed'[c] :
           h.at <= clock' /\ (clock' - h.at < Window => h \in hits'[c])
    BY <1>1, <1>2, <1>3, <1>4, <2>1 DEF Recent
  <2>6. ASSUME NEW t \in 0 .. MaxTime
        PROVE  Cardinality(InWindow(c, t)') <= Limit
    <3>1. CASE t <= clock /\ clock < t + Window
      <4>1. InWindow(c, t) \subseteq Recent(c)
        BY <1>2, <1>4, <3>1 DEF InWindow, Recent, Hit
      <4>2. /\ IsFiniteSet(InWindow(c, t))
            /\ Cardinality(InWindow(c, t)) <= Cardinality(Recent(c))
            /\ Cardinality(InWindow(c, t)) \in Nat
        BY <2>3, <4>1, FS_Subset, FS_CardinalityType
      <4>3. InWindow(c, t)' = InWindow(c, t) \cup {hit}
        BY <1>3, <2>1, <3>1 DEF InWindow
      <4>4. Cardinality(InWindow(c, t) \cup {hit}) <= Cardinality(InWindow(c, t)) + 1
        <5>1. Cardinality(InWindow(c, t) \cup {hit}) =
                 IF hit \in InWindow(c, t) THEN Cardinality(InWindow(c, t))
                                           ELSE Cardinality(InWindow(c, t)) + 1
          BY <4>2, FS_AddElement
        <5>2. QED
          BY <4>2, <5>1
      <4>5. Cardinality(InWindow(c, t)') \in Nat
        <5>1. IsFiniteSet(InWindow(c, t) \cup {hit})
          BY <4>2, FS_AddElement
        <5>2. QED
          BY <4>3, <5>1, FS_CardinalityType
      <4>6. Cardinality(Recent(c)) < Limit
        BY <1>1, <1>6
      <4>7. QED
        BY <1>2, <2>3, <4>2, <4>3, <4>4, <4>5, <4>6
    <3>2. CASE ~ (t <= clock /\ clock < t + Window)
      <4>1. InWindow(c, t)' = InWindow(c, t)
        BY <1>3, <2>1, <3>2 DEF InWindow
      <4>2. QED
        BY <1>4, <4>1
    <3>3. QED
      BY <3>1, <3>2
  <2>7. QED
    BY <2>4, <2>5, <2>6
<1>7. QED
  BY <1>5, <1>6

LEMMA TooManyKeepsRate ==
    ASSUME GateTypeOK, RateInv, NEW a \in Address, TooMany(a)
    PROVE  RateInv'
<1>1. /\ hits' = [hits EXCEPT ![a] = Recent(a)]
      /\ passed' = passed
      /\ clock' = clock
  BY DEF TooMany
<1>2. Recent(a) \in SUBSET hits[a]
  BY DEF Recent
<1>3. \A c \in Address, t \in 0 .. MaxTime : InWindow(c, t)' = InWindow(c, t)
  BY <1>1 DEF InWindow
<1>4. \A c \in Address : hits'[c] \in SUBSET hits[c]
  BY <1>1, <1>2 DEF GateTypeOK
<1>5. \A c \in Address : \A h \in hits[c] : clock - h.at < Window => h \in hits'[c]
  BY <1>1 DEF GateTypeOK, Recent
<1>6. QED
  BY <1>1, <1>3, <1>4, <1>5, FS_Subset DEF RateInv

LEMMA TickKeepsRate ==
    ASSUME GateTypeOK, RateInv, Tick
    PROVE  RateInv'
<1>1. clock' = clock + 1 /\ hits' = hits /\ passed' = passed
  BY DEF Tick
<1>2. \A c \in Address, t \in 0 .. MaxTime : InWindow(c, t)' = InWindow(c, t)
  BY <1>1 DEF InWindow
<1>3. SUFFICES ASSUME Lockdown, NEW c \in Address
      PROVE  /\ IsFiniteSet(passed'[c])
             /\ IsFiniteSet(hits'[c])
             /\ \A h \in passed'[c] :
                   h.at <= clock' /\ (clock' - h.at < Window => h \in hits'[c])
             /\ \A t \in 0 .. MaxTime : Cardinality(InWindow(c, t)') <= Limit
  BY DEF RateInv
<1>4. /\ IsFiniteSet(passed[c])
      /\ IsFiniteSet(hits[c])
      /\ \A h \in passed[c] : h.at <= clock /\ (clock - h.at < Window => h \in hits[c])
      /\ \A t \in 0 .. MaxTime : Cardinality(InWindow(c, t)) <= Limit
  BY <1>3 DEF RateInv
<1>5. \A h \in passed'[c] :
         h.at <= clock' /\ (clock' - h.at < Window => h \in hits'[c])
  <2>1. SUFFICES ASSUME NEW h \in passed'[c]
                 PROVE  h.at <= clock' /\ (clock' - h.at < Window => h \in hits'[c])
    OBVIOUS
  <2>2. h \in passed[c] /\ hits'[c] = hits[c]
    BY <1>1, <2>1
  <2>3. h.at <= clock /\ (clock - h.at < Window => h \in hits[c])
    BY <1>4, <2>2
  <2>4. h.at \in Nat /\ clock \in Nat /\ Window \in Nat
    BY <1>3, <2>2, GateAssumption DEF GateTypeOK, Hit
  <2>5. QED
    BY <1>1, <2>2, <2>3, <2>4
<1>6. \A t \in 0 .. MaxTime : Cardinality(InWindow(c, t)') <= Limit
  BY <1>2, <1>4
<1>7. IsFiniteSet(passed'[c]) /\ IsFiniteSet(hits'[c])
  BY <1>1, <1>4
<1>8. QED
  BY <1>5, <1>6, <1>7

LEMMA ForgetKeepsRate ==
    ASSUME Forget
    PROVE  RateInv'
<1>1. \A c \in Address : hits'[c] = {} /\ passed'[c] = {}
  BY DEF Forget
<1>2. \A c \in Address, t \in 0 .. MaxTime : InWindow(c, t)' = {}
  BY <1>1 DEF InWindow
<1>3. IsFiniteSet({}) /\ Cardinality({}) <= Limit
  BY FS_EmptySet, GateAssumption
<1>4. SUFFICES ASSUME Lockdown, NEW c \in Address
      PROVE  /\ IsFiniteSet(passed'[c])
             /\ IsFiniteSet(hits'[c])
             /\ \A h \in passed'[c] :
                   h.at <= clock' /\ (clock' - h.at < Window => h \in hits'[c])
             /\ \A t \in 0 .. MaxTime : Cardinality(InWindow(c, t)') <= Limit
  BY DEF RateInv
<1>5. \A t \in 0 .. MaxTime : Cardinality(InWindow(c, t)') <= Limit
  BY <1>2, <1>3
<1>6. QED
  BY <1>1, <1>3, <1>5

LEMMA GateUnchangedKeepsRate ==
    ASSUME RateInv, UNCHANGED gateVars
    PROVE  RateInv'
BY DEF RateInv, InWindow, gateVars

(* In lockdown no window of time, wherever it begins, lets more requests of one
   address through than the limit. *)
THEOREM RateLimited == Spec => []RateHolds
<1>1. Init => RateInv
  <2> SUFFICES ASSUME Init PROVE RateInv
    OBVIOUS
  <2>1. \A c \in Address : hits[c] = {} /\ passed[c] = {}
    BY DEF Init, GateInit
  <2>2. \A c \in Address, t \in 0 .. MaxTime : InWindow(c, t) = {}
    BY <2>1 DEF InWindow
  <2>3. IsFiniteSet({}) /\ Cardinality({}) <= Limit
    BY FS_EmptySet, GateAssumption
  <2>4. \A c \in Address, t \in 0 .. MaxTime : Cardinality(InWindow(c, t)) <= Limit
    BY <2>2, <2>3
  <2>5. QED
    BY <2>1, <2>3, <2>4 DEF RateInv
<1>2. TypeInv /\ RateInv /\ [Next]_vars => RateInv'
  <2> SUFFICES ASSUME GateTypeOK, RateInv, [Next]_vars
               PROVE  RateInv'
    BY DEF TypeInv, TypeOK
  <2>1. ASSUME NEW a \in Address, Pass(a)
        PROVE  RateInv'
    BY <2>1, PassKeepsRate
  <2>2. ASSUME NEW a \in Address, TooMany(a)
        PROVE  RateInv'
    BY <2>2, TooManyKeepsRate
  <2>3. CASE Tick
    BY <2>3, TickKeepsRate
  <2>4. CASE Forget
    BY <2>4, ForgetKeepsRate
  <2>5. CASE UNCHANGED gateVars
    BY <2>5, GateUnchangedKeepsRate
  <2>6. QED
    BY <2>1, <2>2, <2>3, <2>4, <2>5
    DEF Next, vars, RequestPage, RequestText, RequestNodeInfo, RejectUrl,
        FollowRedirect, ReadPage, FetchFails, FindKey, CreateKey, FillKey, LoadKey,
        LoadTorn, ObtainToken, Ingest, Fail, Refused, TurnedAway, Restart, TimePasses
<1>3. RateInv => RateHolds
  BY DEF RateInv, RateHolds, InWindow
<1>4. QED
  BY <1>1, <1>2, <1>3, Typed, PTL DEF Spec
=============================================================================
