-------------------------- MODULE IngestNode_proofs -------------------------
(***************************************************************************)
(* Theorems about IngestNode, for any set of Observations, any number of   *)
(* threads and any bounds.                                                 *)
(***************************************************************************)
EXTENDS IngestNode, SequenceTheorems, TLAPS

(* The states in which a thread holds a request. *)
LEMMA NoEnvelopeType == NoEnvelope \in Envelope
<1>1. PICK o \in Observation, k \in Evidence : TRUE
  BY ObservationAssumption
<1>2. [observation |-> o, evidence |-> k, bound |-> TRUE] \in Envelope
  BY DEF Envelope
<1>3. QED
  BY <1>2 DEF NoEnvelope

(* Finish leaves a thread idle with empty locals and touches nothing else. *)
LEMMA FinishType ==
    ASSUME TypeOK, NEW w \in Worker, Finish(w)
    PROVE  /\ pc' \in [Worker -> Steps]
           /\ req' \in [Worker -> Envelope]
           /\ leafIndex' \in [Worker -> Nat]
           /\ proof' \in [Worker -> Proof]
           /\ missing' \in [Worker -> SUBSET {"object", "observer", "observation"}]
           /\ siblings' \in [Worker -> SUBSET Observation]
           /\ fresh' \in [Worker -> SUBSET Observation]
BY NoEnvelopeType DEF TypeOK, Finish, GoTo, Steps, NoProof, Proof

(* Type correctness: every variable keeps its type. *)
THEOREM TypeCorrect == Spec => []TypeOK
<1>1. Init => TypeOK
  BY NoEnvelopeType, BoundsAssumption
  DEF Init, TypeOK, BlobState, Steps, NoProof, Proof
<1>2. TypeOK /\ [Next]_vars => TypeOK'
  <2> SUFFICES ASSUME TypeOK, [Next]_vars
               PROVE  TypeOK'
    OBVIOUS
  <2> USE ObservationAssumption, BoundsAssumption
      DEF TypeOK, At, GoTo, Observed, files, tables, locals, history, Steps
  <2>1. ASSUME NEW w \in Worker, NEW e \in Envelope, AnswerAtOnce(w, e)
        PROVE  TypeOK'
    BY <2>1 DEF AnswerAtOnce
  <2>2. ASSUME NEW w \in Worker, NEW e \in Envelope, Receive(w, e)
        PROVE  TypeOK'
    BY <2>2 DEF Receive
  <2>3. ASSUME NEW w \in Worker, RequireTimestamp(w)
        PROVE  TypeOK'
    BY <2>3, FinishType DEF RequireTimestamp
  <2>4. ASSUME NEW w \in Worker, PassPriors(w)
        PROVE  TypeOK'
    BY <2>4 DEF PassPriors
  <2>5. ASSUME NEW w \in Worker, OpenArchive(w)
        PROVE  TypeOK'
    BY <2>5 DEF OpenArchive, BlobState, Envelope
  <2>6. ASSUME NEW w \in Worker, WriteArchive(w)
        PROVE  TypeOK'
    BY <2>6 DEF WriteArchive, BlobState, Envelope
  <2>7. ASSUME NEW w \in Worker, ReadLog(w)
        PROVE  TypeOK'
    BY <2>7 DEF ReadLog, NextLeafIndex
  <2>8. ASSUME NEW w \in Worker, WriteLog(w)
        PROVE  TypeOK'
    BY <2>8 DEF WriteLog, LogAppended, NewLine, LogLine, Envelope
  <2>9. ASSUME NEW w \in Worker, Prove(w)
        PROVE  TypeOK'
    <3>1. PICK i \in DOMAIN entries :
             proof' = [proof EXCEPT ![w] =
                          [leaf_index |-> entries[i].leaf_index,
                           tree_size |-> Len(entries)]]
      BY <2>9 DEF Prove
    <3>2. entries[i] \in LogLine /\ Len(entries) \in Nat
      OBVIOUS
    <3>3. [leaf_index |-> entries[i].leaf_index, tree_size |-> Len(entries)]
             \in Proof
      BY <3>2 DEF LogLine, Proof
    <3>4. proof' \in [Worker -> Proof]
      BY <3>1, <3>3
    <3>5. QED
      BY <2>9, <3>4 DEF Prove
  <2>10. ASSUME NEW w \in Worker, FindParties(w)
         PROVE  TypeOK'
    BY <2>10 DEF FindParties
  <2>11. ASSUME NEW w \in Worker, FindObservation(w)
         PROVE  TypeOK'
    BY <2>11 DEF FindObservation
  <2>12. ASSUME NEW w \in Worker, SkipSave(w)
         PROVE  TypeOK'
    BY <2>12 DEF SkipSave
  <2>13. ASSUME NEW w \in Worker, CommitSave(w)
         PROVE  TypeOK'
    BY <2>13 DEF CommitSave, Envelope, Proof, LogEntry
  <2>14. ASSUME NEW w \in Worker, RollBackSave(w)
         PROVE  TypeOK'
    BY <2>14, FinishType DEF RollBackSave
  <2>15. ASSUME NEW w \in Worker, ReadSiblings(w)
         PROVE  TypeOK'
    BY <2>15 DEF ReadSiblings, SiblingsOf
  <2>16. ASSUME NEW w \in Worker, ReadPairs(w)
         PROVE  TypeOK'
    BY <2>16 DEF ReadPairs
  <2>17. ASSUME NEW w \in Worker, RecordConflicts(w)
         PROVE  TypeOK'
    BY <2>17, FinishType DEF RecordConflicts, Envelope
  <2>18. ASSUME NEW w \in Worker, RollBackConflicts(w)
         PROVE  TypeOK'
    BY <2>18, FinishType DEF RollBackConflicts
  <2>19. ASSUME NEW w \in Worker, Fail(w)
         PROVE  TypeOK'
    BY <2>19, FinishType DEF Fail, LogMayTear
  <2>20. ASSUME Restart
         PROVE  TypeOK'
    BY <2>20, NoEnvelopeType DEF Restart, LogMayTear, NoProof, Proof
  <2>21. ASSUME NEW w \in Worker, UnreadableLog(w)
         PROVE  TypeOK'
    BY <2>21, FinishType DEF UnreadableLog
  <2>22. CASE UNCHANGED vars
    BY <2>22 DEF vars
  <2>23. QED
    BY <2>1, <2>2, <2>3, <2>4, <2>5, <2>6, <2>7, <2>8, <2>9, <2>10, <2>11,
       <2>12, <2>13, <2>14, <2>15, <2>16, <2>17, <2>18, <2>19, <2>20, <2>21, <2>22
    DEF Next, Step, Exhausted
<1>3. QED
  BY <1>1, <1>2, PTL DEF Spec

-----------------------------------------------------------------------------
(* From the verified request to the stored Observation. *)

(* The thread has its Observation stored and is relating it. *)
Relating(w) == pc[w] \in {"siblings", "pairs", "record"}

(* Only verified requests get past the checks, so only Signed Observations
   are stored; a thread that relates an Observation, or that found it stored
   when it was about to save it, is right about that. *)
StoreInv ==
    /\ \A w \in Worker : pc[w] # "idle" => Verified(req[w])
    /\ stored \subseteq Signed
    /\ \A w \in Worker : Relating(w) => Observed(w) \in stored
    /\ \A w \in Worker : pc[w] = "commit" /\ "observation" \notin missing[w]
                            => Observed(w) \in stored
    /\ created \subseteq stored

(* The threads that know the siblings of their Observation. *)
Linking(w) == pc[w] \in {"pairs", "record"}

(* StoreInv holds in every reachable state. *)
THEOREM StoreCorrect == Spec => []StoreInv
<1>1. Init => StoreInv
  BY DEF Init, StoreInv, Relating
<1>2. TypeOK /\ StoreInv /\ [Next]_vars => StoreInv'
  <2> SUFFICES ASSUME TypeOK, StoreInv, [Next]_vars
               PROVE  StoreInv'
    OBVIOUS
  <2> USE DEF TypeOK, StoreInv, Relating, Verified, At, GoTo, Observed, files,
              tables, locals, history
  <2>1. ASSUME NEW w \in Worker, NEW e \in Envelope, AnswerAtOnce(w, e)
        PROVE  StoreInv'
    BY <2>1 DEF AnswerAtOnce
  <2>2. ASSUME NEW w \in Worker, NEW e \in Envelope, Receive(w, e)
        PROVE  StoreInv'
    BY <2>2 DEF Receive
  <2>3. ASSUME NEW w \in Worker, RequireTimestamp(w)
        PROVE  StoreInv'
    BY <2>3 DEF RequireTimestamp, Finish
  <2>4. ASSUME NEW w \in Worker, PassPriors(w)
        PROVE  StoreInv'
    BY <2>4 DEF PassPriors
  <2>5. ASSUME NEW w \in Worker, OpenArchive(w)
        PROVE  StoreInv'
    BY <2>5 DEF OpenArchive
  <2>6. ASSUME NEW w \in Worker, WriteArchive(w)
        PROVE  StoreInv'
    BY <2>6 DEF WriteArchive
  <2>7. ASSUME NEW w \in Worker, ReadLog(w)
        PROVE  StoreInv'
    BY <2>7 DEF ReadLog
  <2>8. ASSUME NEW w \in Worker, WriteLog(w)
        PROVE  StoreInv'
    BY <2>8 DEF WriteLog
  <2>9. ASSUME NEW w \in Worker, Prove(w)
        PROVE  StoreInv'
    BY <2>9 DEF Prove
  <2>10. ASSUME NEW w \in Worker, FindParties(w)
         PROVE  StoreInv'
    BY <2>10 DEF FindParties
  <2>11. ASSUME NEW w \in Worker, FindObservation(w)
         PROVE  StoreInv'
    BY <2>11 DEF FindObservation
  <2>12. ASSUME NEW w \in Worker, SkipSave(w)
         PROVE  StoreInv'
    BY <2>12 DEF SkipSave
  <2>13. ASSUME NEW w \in Worker, CommitSave(w)
         PROVE  StoreInv'
    BY <2>13 DEF CommitSave
  <2>14. ASSUME NEW w \in Worker, RollBackSave(w)
         PROVE  StoreInv'
    BY <2>14 DEF RollBackSave, Finish
  <2>15. ASSUME NEW w \in Worker, ReadSiblings(w)
         PROVE  StoreInv'
    BY <2>15 DEF ReadSiblings
  <2>16. ASSUME NEW w \in Worker, ReadPairs(w)
         PROVE  StoreInv'
    BY <2>16 DEF ReadPairs
  <2>17. ASSUME NEW w \in Worker, RecordConflicts(w)
         PROVE  StoreInv'
    BY <2>17 DEF RecordConflicts, Finish
  <2>18. ASSUME NEW w \in Worker, RollBackConflicts(w)
         PROVE  StoreInv'
    BY <2>18 DEF RollBackConflicts, Finish
  <2>19. ASSUME NEW w \in Worker, Fail(w)
         PROVE  StoreInv'
    BY <2>19 DEF Fail, Finish
  <2>20. ASSUME Restart
         PROVE  StoreInv'
    BY <2>20 DEF Restart
  <2>21. ASSUME NEW w \in Worker, UnreadableLog(w)
         PROVE  StoreInv'
    BY <2>21 DEF UnreadableLog, Finish
  <2>22. CASE UNCHANGED vars
    BY <2>22 DEF vars
  <2>23. QED
    BY <2>1, <2>2, <2>3, <2>4, <2>5, <2>6, <2>7, <2>8, <2>9, <2>10, <2>11,
       <2>12, <2>13, <2>14, <2>15, <2>16, <2>17, <2>18, <2>19, <2>20, <2>21, <2>22
    DEF Next, Step, Exhausted
<1>3. QED
  BY <1>1, <1>2, TypeCorrect, PTL DEF Spec

(* What the rows and the locals of record_conflicts are about. *)
RowInv ==
    /\ \A r \in conflicts : \E a, b \in stored :
          SameObject(a, b) /\ r = ConflictRow(a, b)
    /\ \A w \in Worker : Linking(w) => siblings[w] \subseteq SiblingsOf(Observed(w))
    /\ \A w \in Worker : pc[w] = "record" => fresh[w] \subseteq siblings[w]

(* RowInv holds in every reachable state. *)
THEOREM RowsCorrect == Spec => []RowInv
<1>1. Init => RowInv
  BY DEF Init, RowInv, Linking
<1>2. TypeOK /\ StoreInv /\ RowInv /\ [Next]_vars => RowInv'
  <2> SUFFICES ASSUME TypeOK, StoreInv, RowInv, [Next]_vars
               PROVE  RowInv'
    OBVIOUS
  <2> USE DEF TypeOK, StoreInv, RowInv, Relating, Linking, SiblingsOf, At,
              GoTo, Observed, files, tables, locals, history
  <2>1. ASSUME NEW w \in Worker, NEW e \in Envelope, AnswerAtOnce(w, e)
        PROVE  RowInv'
    BY <2>1 DEF AnswerAtOnce
  <2>2. ASSUME NEW w \in Worker, NEW e \in Envelope, Receive(w, e)
        PROVE  RowInv'
    BY <2>2 DEF Receive
  <2>3. ASSUME NEW w \in Worker, RequireTimestamp(w)
        PROVE  RowInv'
    BY <2>3 DEF RequireTimestamp, Finish
  <2>4. ASSUME NEW w \in Worker, PassPriors(w)
        PROVE  RowInv'
    BY <2>4 DEF PassPriors
  <2>5. ASSUME NEW w \in Worker, OpenArchive(w)
        PROVE  RowInv'
    BY <2>5 DEF OpenArchive
  <2>6. ASSUME NEW w \in Worker, WriteArchive(w)
        PROVE  RowInv'
    BY <2>6 DEF WriteArchive
  <2>7. ASSUME NEW w \in Worker, ReadLog(w)
        PROVE  RowInv'
    BY <2>7 DEF ReadLog
  <2>8. ASSUME NEW w \in Worker, WriteLog(w)
        PROVE  RowInv'
    BY <2>8 DEF WriteLog
  <2>9. ASSUME NEW w \in Worker, Prove(w)
        PROVE  RowInv'
    BY <2>9 DEF Prove
  <2>10. ASSUME NEW w \in Worker, FindParties(w)
         PROVE  RowInv'
    BY <2>10 DEF FindParties
  <2>11. ASSUME NEW w \in Worker, FindObservation(w)
         PROVE  RowInv'
    BY <2>11 DEF FindObservation
  <2>12. ASSUME NEW w \in Worker, SkipSave(w)
         PROVE  RowInv'
    BY <2>12 DEF SkipSave
  <2>13. ASSUME NEW w \in Worker, CommitSave(w)
         PROVE  RowInv'
    BY <2>13 DEF CommitSave
  <2>14. ASSUME NEW w \in Worker, RollBackSave(w)
         PROVE  RowInv'
    BY <2>14 DEF RollBackSave, Finish
  <2>15. ASSUME NEW w \in Worker, ReadSiblings(w)
         PROVE  RowInv'
    BY <2>15 DEF ReadSiblings, SiblingsOf
  <2>16. ASSUME NEW w \in Worker, ReadPairs(w)
         PROVE  RowInv'
    BY <2>16 DEF ReadPairs
  <2>17. ASSUME NEW w \in Worker, RecordConflicts(w)
         PROVE  RowInv'
    <3>1. \A s \in fresh[w] : s \in stored /\ SameObject(s, Observed(w))
      BY <2>17 DEF RecordConflicts, SiblingsOf
    <3>2. Observed(w) \in stored
      BY <2>17 DEF RecordConflicts, Relating
    <3>3. \A r \in conflicts' : \E a, b \in stored :
             SameObject(a, b) /\ r = ConflictRow(a, b)
      BY <2>17, <3>1, <3>2 DEF RecordConflicts
    <3>4. QED
      BY <2>17, <3>3 DEF RecordConflicts, Finish
  <2>18. ASSUME NEW w \in Worker, RollBackConflicts(w)
         PROVE  RowInv'
    BY <2>18 DEF RollBackConflicts, Finish
  <2>19. ASSUME NEW w \in Worker, Fail(w)
         PROVE  RowInv'
    BY <2>19 DEF Fail, Finish
  <2>20. ASSUME Restart
         PROVE  RowInv'
    BY <2>20 DEF Restart
  <2>21. ASSUME NEW w \in Worker, UnreadableLog(w)
         PROVE  RowInv'
    BY <2>21 DEF UnreadableLog, Finish
  <2>22. CASE UNCHANGED vars
    BY <2>22 DEF vars
  <2>23. QED
    BY <2>1, <2>2, <2>3, <2>4, <2>5, <2>6, <2>7, <2>8, <2>9, <2>10, <2>11,
       <2>12, <2>13, <2>14, <2>15, <2>16, <2>17, <2>18, <2>19, <2>20, <2>21, <2>22
    DEF Next, Step, Exhausted
<1>3. QED
  BY <1>1, <1>2, TypeCorrect, StoreCorrect, PTL DEF Spec

(* A row does not depend on which of its two Observations is named first. *)
LEMMA ConflictRowSymmetric ==
    ASSUME NEW a, NEW b
    PROVE  ConflictRow(a, b) = ConflictRow(b, a)
BY DEF ConflictRow, ConflictCandidate, Classify, Simultaneous

(* The conflicts table relates stored Observations of one Object, once per
   pair, by the one correct classification. *)
THEOREM ConflictsCorrect == Spec => []ConflictsAreCorrect
<1>1. RowInv => ConflictsAreCorrect
  <2> SUFFICES ASSUME RowInv, NEW r \in conflicts
               PROVE  /\ \E a, b \in stored : SameObject(a, b) /\ r.pair = {a, b}
                      /\ \A a, b \in r.pair : a # b => r = ConflictRow(a, b)
    BY DEF ConflictsAreCorrect
  <2>1. PICK a \in stored, b \in stored :
           SameObject(a, b) /\ r = ConflictRow(a, b)
    BY DEF RowInv
  <2>2. r.pair = {a, b}
    BY <2>1 DEF ConflictRow
  <2>3. QED
    BY <2>1, <2>2, ConflictRowSymmetric
<1>2. QED
  BY <1>1, RowsCorrect, PTL

(* Why no pair of created Observations is missed.  A thread that has read the
   siblings knows every Observation created before, or its pair is on record
   by now; ... *)
CreatedKnown ==
    \A w \in Worker : Linking(w) =>
       \A b \in created : SameObject(b, Observed(w)) =>
          b \in siblings[w] \/ HasRow(b, Observed(w))

(* ... of two such threads, the one that read last saw the Observation of the
   other; ... *)
OneSawTheOther ==
    \A v, w \in Worker :
       Linking(v) /\ Linking(w) /\ SameObject(Observed(v), Observed(w)) =>
          Observed(v) \in siblings[w] \/ Observed(w) \in siblings[v]

(* ... and every sibling is about to get its row, or has it. *)
SiblingsPending ==
    \A w \in Worker : pc[w] = "record" =>
       \A s \in siblings[w] : s \in fresh[w] \/ HasRow(s, Observed(w))

LinkInv == CreatedKnown /\ OneSawTheOther /\ SiblingsPending /\ CreatedAreLinked

(* A step that neither records nor answers anything, and after which no thread
   knows siblings that it did not know before, keeps LinkInv. *)
LEMMA LinkKept ==
    ASSUME LinkInv,
           UNCHANGED <<conflicts, created>>,
           \A w \in Worker : Linking(w)' =>
              Linking(w) /\ req'[w] = req[w] /\ siblings'[w] = siblings[w],
           \A w \in Worker : pc'[w] = "record" =>
              pc[w] = "record" /\ fresh'[w] = fresh[w]
    PROVE  LinkInv'
<1>1. \A w \in Worker : Linking(w)' => Observed(w)' = Observed(w)
  BY DEF Observed
<1>2. \A a, b : HasRow(a, b)' <=> HasRow(a, b)
  BY DEF HasRow
<1>3. CreatedKnown'
  BY <1>1, <1>2 DEF LinkInv, CreatedKnown
<1>4. OneSawTheOther'
  BY <1>1 DEF LinkInv, OneSawTheOther
<1>5. SiblingsPending'
  BY <1>1, <1>2 DEF LinkInv, SiblingsPending, Linking
<1>6. CreatedAreLinked'
  BY <1>2 DEF LinkInv, CreatedAreLinked
<1>7. QED
  BY <1>3, <1>4, <1>5, <1>6 DEF LinkInv

(* LinkInv holds in every reachable state. *)
THEOREM LinksCorrect == Spec => []LinkInv
<1>1. Init => LinkInv
  BY DEF Init, LinkInv, CreatedKnown, OneSawTheOther, SiblingsPending, Linking,
         CreatedAreLinked
<1>2. TypeOK /\ StoreInv /\ RowInv /\ LinkInv /\ [Next]_vars => LinkInv'
  <2> SUFFICES ASSUME TypeOK, StoreInv, RowInv, LinkInv, [Next]_vars
               PROVE  LinkInv'
    OBVIOUS
  <2> USE DEF At, GoTo, files, tables, locals, history
  <2>1. ASSUME NEW w \in Worker, NEW e \in Envelope, AnswerAtOnce(w, e)
        PROVE  LinkInv'
    BY <2>1, LinkKept DEF TypeOK, Linking, AnswerAtOnce
  <2>2. ASSUME NEW w \in Worker, NEW e \in Envelope, Receive(w, e)
        PROVE  LinkInv'
    BY <2>2, LinkKept DEF TypeOK, Linking, Receive
  <2>3. ASSUME NEW w \in Worker, RequireTimestamp(w)
        PROVE  LinkInv'
    BY <2>3, LinkKept DEF TypeOK, Linking, RequireTimestamp, Finish
  <2>4. ASSUME NEW w \in Worker, PassPriors(w)
        PROVE  LinkInv'
    BY <2>4, LinkKept DEF TypeOK, Linking, PassPriors
  <2>5. ASSUME NEW w \in Worker, OpenArchive(w)
        PROVE  LinkInv'
    BY <2>5, LinkKept DEF TypeOK, Linking, OpenArchive
  <2>6. ASSUME NEW w \in Worker, WriteArchive(w)
        PROVE  LinkInv'
    BY <2>6, LinkKept DEF TypeOK, Linking, WriteArchive
  <2>7. ASSUME NEW w \in Worker, ReadLog(w)
        PROVE  LinkInv'
    BY <2>7, LinkKept DEF TypeOK, Linking, ReadLog
  <2>8. ASSUME NEW w \in Worker, WriteLog(w)
        PROVE  LinkInv'
    BY <2>8, LinkKept DEF TypeOK, Linking, WriteLog
  <2>9. ASSUME NEW w \in Worker, Prove(w)
        PROVE  LinkInv'
    BY <2>9, LinkKept DEF TypeOK, Linking, Prove
  <2>10. ASSUME NEW w \in Worker, FindParties(w)
         PROVE  LinkInv'
    BY <2>10, LinkKept DEF TypeOK, Linking, FindParties
  <2>11. ASSUME NEW w \in Worker, FindObservation(w)
         PROVE  LinkInv'
    BY <2>11, LinkKept DEF TypeOK, Linking, FindObservation
  <2>12. ASSUME NEW w \in Worker, SkipSave(w)
         PROVE  LinkInv'
    BY <2>12, LinkKept DEF TypeOK, Linking, SkipSave
  <2>13. ASSUME NEW w \in Worker, CommitSave(w)
         PROVE  LinkInv'
    BY <2>13, LinkKept DEF TypeOK, Linking, CommitSave
  <2>14. ASSUME NEW w \in Worker, RollBackSave(w)
         PROVE  LinkInv'
    BY <2>14, LinkKept DEF TypeOK, Linking, RollBackSave, Finish
  <2>15. ASSUME NEW w \in Worker, ReadSiblings(w)
         PROVE  LinkInv'
    <3>1. UNCHANGED <<conflicts, created, req, fresh>>
      BY <2>15 DEF TypeOK, ReadSiblings
    <3>2. \A v \in Worker : v # w =>
             pc'[v] = pc[v] /\ siblings'[v] = siblings[v]
      BY <2>15 DEF TypeOK, ReadSiblings
    <3>3. pc'[w] = "pairs" /\ siblings'[w] = SiblingsOf(Observed(w))
      BY <2>15 DEF TypeOK, ReadSiblings
    <3>4. \A v \in Worker : Observed(v)' = Observed(v)
      BY <3>1 DEF Observed
    <3>5. \A a, b : HasRow(a, b)' <=> HasRow(a, b)
      BY <3>1 DEF HasRow
    <3>6. CreatedKnown'
      <4> SUFFICES ASSUME NEW v \in Worker, Linking(v)',
                          NEW b \in created, SameObject(b, Observed(v))
                   PROVE  b \in siblings'[v] \/ HasRow(b, Observed(v))
        BY <3>1, <3>4, <3>5 DEF CreatedKnown
      <4>1. CASE v = w
        BY <3>3, <4>1 DEF StoreInv, SiblingsOf
      <4>2. CASE v # w
        BY <3>2, <4>2 DEF LinkInv, CreatedKnown, Linking
      <4>3. QED
        BY <4>1, <4>2
    <3>7. OneSawTheOther'
      <4> SUFFICES ASSUME NEW u \in Worker, NEW v \in Worker,
                          Linking(u)', Linking(v)',
                          SameObject(Observed(u), Observed(v))
                   PROVE  \/ Observed(u) \in siblings'[v]
                          \/ Observed(v) \in siblings'[u]
        BY <3>4 DEF OneSawTheOther
      <4>1. CASE u # w /\ v # w
        BY <3>2, <4>1 DEF LinkInv, OneSawTheOther, Linking
      <4>2. CASE v = w
        <5>1. u # w
          BY <4>2 DEF SameObject
        <5>2. Observed(u) \in stored
          BY <3>2, <5>1 DEF StoreInv, Relating, Linking
        <5>3. QED
          BY <3>3, <4>2, <5>2 DEF SiblingsOf
      <4>3. CASE u = w
        <5>1. v # w
          BY <4>3 DEF SameObject
        <5>2. Observed(v) \in stored
          BY <3>2, <5>1 DEF StoreInv, Relating, Linking
        <5>3. QED
          BY <3>3, <4>3, <5>2 DEF SiblingsOf, SameObject
      <4>4. QED
        BY <4>1, <4>2, <4>3
    <3>8. SiblingsPending'
      BY <3>1, <3>2, <3>3, <3>4, <3>5 DEF LinkInv, SiblingsPending
    <3>9. CreatedAreLinked'
      BY <3>1, <3>5 DEF LinkInv, CreatedAreLinked
    <3>10. QED
      BY <3>6, <3>7, <3>8, <3>9 DEF LinkInv
  <2>16. ASSUME NEW w \in Worker, ReadPairs(w)
         PROVE  LinkInv'
    <3>1. UNCHANGED <<conflicts, created, req, siblings>>
      BY <2>16 DEF TypeOK, ReadPairs
    <3>2. \A v \in Worker : v # w => pc'[v] = pc[v] /\ fresh'[v] = fresh[v]
      BY <2>16 DEF TypeOK, ReadPairs
    <3>3. /\ pc[w] = "pairs"
          /\ fresh'[w] = {s \in siblings[w] : ~ HasRow(s, Observed(w))}
      BY <2>16 DEF TypeOK, ReadPairs
    <3>4. \A v \in Worker : Observed(v)' = Observed(v)
      BY <3>1 DEF Observed
    <3>5. \A a, b : HasRow(a, b)' <=> HasRow(a, b)
      BY <3>1 DEF HasRow
    <3>6. \A v \in Worker : Linking(v)' => Linking(v)
      BY <3>2, <3>3 DEF Linking
    <3>7. CreatedKnown' /\ OneSawTheOther' /\ CreatedAreLinked'
      BY <3>1, <3>4, <3>5, <3>6
      DEF LinkInv, CreatedKnown, OneSawTheOther, CreatedAreLinked
    <3>8. SiblingsPending'
      BY <3>1, <3>2, <3>3, <3>4, <3>5 DEF LinkInv, SiblingsPending
    <3>9. QED
      BY <3>7, <3>8 DEF LinkInv
  <2>17. ASSUME NEW w \in Worker, RecordConflicts(w)
         PROVE  LinkInv'
    <3>1. /\ siblings' = [siblings EXCEPT ![w] = {}]
          /\ fresh' = [fresh EXCEPT ![w] = {}]
          /\ created' = created \cup {Observed(w)}
          /\ pc[w] = "record" /\ pc'[w] = "idle"
      BY <2>17 DEF TypeOK, RecordConflicts, Finish
    <3>2. \A v \in Worker : v # w => pc'[v] = pc[v] /\ req'[v] = req[v]
      BY <2>17 DEF TypeOK, RecordConflicts, Finish
    <3>3. \A v \in Worker : Linking(v)' =>
             /\ v # w /\ Linking(v)
             /\ req'[v] = req[v]
             /\ siblings'[v] = siblings[v]
      BY <3>1, <3>2 DEF Linking
    <3>4. \A a, b : HasRow(a, b) => HasRow(a, b)'
      BY <2>17 DEF TypeOK, RecordConflicts, HasRow
    <3>5. \A s \in siblings[w] : \E r \in conflicts' : r.pair = {s, Observed(w)}
      <4>1. \A s \in fresh[w] : ConflictRow(s, Observed(w)) \in conflicts'
        BY <2>17 DEF TypeOK, RecordConflicts
      <4>2. \A s \in fresh[w] : \E r \in conflicts' : r.pair = {s, Observed(w)}
        BY <4>1 DEF ConflictRow
      <4>3. QED
        BY <3>1, <3>4, <4>2 DEF LinkInv, SiblingsPending, HasRow
    <3>6. CreatedKnown'
      <4> SUFFICES ASSUME NEW v \in Worker, Linking(v)',
                          NEW b \in created', SameObject(b, Observed(v)')
                   PROVE  b \in siblings'[v] \/ HasRow(b, Observed(v))'
        BY DEF CreatedKnown
      <4>a. /\ Linking(v) /\ Observed(v)' = Observed(v)
            /\ siblings'[v] = siblings[v]
        BY <3>3 DEF Observed
      <4>1. CASE b \in created
        <5>1. b \in siblings[v] \/ HasRow(b, Observed(v))
          BY <4>a, <4>1 DEF LinkInv, CreatedKnown
        <5>2. QED
          BY <3>4, <4>a, <5>1 DEF HasRow
      <4>2. CASE b = Observed(w)
        <5>1. Linking(w)
          BY <3>1 DEF Linking
        <5>2. Observed(w) \in siblings[v] \/ Observed(v) \in siblings[w]
          BY <4>a, <4>2, <5>1 DEF LinkInv, OneSawTheOther, SameObject
        <5>3. QED
          BY <3>5, <4>a, <4>2, <5>2 DEF HasRow
      <4>3. QED
        BY <3>1, <4>1, <4>2
    <3>7. OneSawTheOther'
      <4> SUFFICES ASSUME NEW u \in Worker, NEW v \in Worker,
                          Linking(u)', Linking(v)',
                          SameObject(Observed(u)', Observed(v)')
                   PROVE  \/ Observed(u)' \in siblings'[v]
                          \/ Observed(v)' \in siblings'[u]
        BY DEF OneSawTheOther
      <4>1. /\ Linking(u) /\ Linking(v)
            /\ Observed(u)' = Observed(u) /\ Observed(v)' = Observed(v)
            /\ siblings'[u] = siblings[u] /\ siblings'[v] = siblings[v]
        BY <3>3 DEF Observed
      <4>2. SameObject(Observed(u), Observed(v))
        BY <4>1
      <4>3. Observed(u) \in siblings[v] \/ Observed(v) \in siblings[u]
        BY <4>1, <4>2 DEF LinkInv, OneSawTheOther
      <4>4. QED
        BY <4>1, <4>3
    <3>8. SiblingsPending'
      <4> SUFFICES ASSUME NEW v \in Worker, pc'[v] = "record",
                          NEW s \in siblings'[v], s \notin fresh'[v]
                   PROVE  HasRow(s, Observed(v))'
        BY DEF SiblingsPending
      <4>1. /\ v # w /\ pc[v] = "record" /\ Observed(v)' = Observed(v)
            /\ siblings'[v] = siblings[v]
        BY <3>1, <3>2, <3>3 DEF Linking, Observed
      <4>2. fresh'[v] = fresh[v]
        BY <3>1, <4>1 DEF TypeOK
      <4>3. HasRow(s, Observed(v))
        BY <4>1, <4>2 DEF LinkInv, SiblingsPending
      <4>4. QED
        BY <3>4, <4>1, <4>3 DEF HasRow
    <3>9. CreatedAreLinked'
      <4> SUFFICES ASSUME NEW a \in created', NEW b \in created',
                          SameObject(a, b)
                   PROVE  HasRow(a, b)'
        BY DEF CreatedAreLinked
      <4>1. CASE a \in created /\ b \in created
        BY <3>4, <4>1 DEF LinkInv, CreatedAreLinked
      <4>2. CASE a \in created /\ b = Observed(w)
        <5>1. a \in siblings[w] \/ HasRow(a, Observed(w))
          BY <3>1, <4>2 DEF LinkInv, CreatedKnown, Linking
        <5>2. QED
          BY <3>4, <3>5, <4>2, <5>1 DEF HasRow
      <4>3. CASE b \in created /\ a = Observed(w)
        <5>1. b \in siblings[w] \/ HasRow(b, Observed(w))
          BY <3>1, <4>3 DEF LinkInv, CreatedKnown, Linking, SameObject
        <5>2. \E r \in conflicts' : r.pair = {b, a}
          BY <3>4, <3>5, <4>3, <5>1 DEF HasRow
        <5>3. QED
          BY <5>2 DEF HasRow
      <4>4. QED
        BY <3>1, <4>1, <4>2, <4>3 DEF SameObject
    <3>10. QED
      BY <3>6, <3>7, <3>8, <3>9 DEF LinkInv
  <2>18. ASSUME NEW w \in Worker, RollBackConflicts(w)
         PROVE  LinkInv'
    BY <2>18, LinkKept DEF TypeOK, Linking, RollBackConflicts, Finish
  <2>19. ASSUME NEW w \in Worker, Fail(w)
         PROVE  LinkInv'
    BY <2>19, LinkKept DEF TypeOK, Linking, Fail, Finish
  <2>20. ASSUME Restart
         PROVE  LinkInv'
    BY <2>20, LinkKept DEF TypeOK, Linking, Restart
  <2>21. ASSUME NEW w \in Worker, UnreadableLog(w)
         PROVE  LinkInv'
    BY <2>21, LinkKept DEF TypeOK, Linking, UnreadableLog, Finish
  <2>22. CASE UNCHANGED vars
    BY <2>22, LinkKept DEF vars, Linking
  <2>23. QED
    BY <2>1, <2>2, <2>3, <2>4, <2>5, <2>6, <2>7, <2>8, <2>9, <2>10, <2>11,
       <2>12, <2>13, <2>14, <2>15, <2>16, <2>17, <2>18, <2>19, <2>20, <2>21, <2>22
    DEF Next, Step, Exhausted
<1>3. QED
  BY <1>1, <1>2, TypeCorrect, StoreCorrect, RowsCorrect, PTL DEF Spec

(* "created" for two Observations of one Object means that the conflicts
   table relates them. *)
THEOREM CreatedLinked == Spec => []CreatedAreLinked
<1>1. LinkInv => CreatedAreLinked
  BY DEF LinkInv
<1>2. QED
  BY <1>1, LinksCorrect, PTL

-----------------------------------------------------------------------------
(* The node implements the store it promises. *)

(* The store and the node share the rules over Observations. *)
LEMMA SameRules ==
    /\ \A a, b : Store!SameObject(a, b) <=> SameObject(a, b)
    /\ \A a, b : Store!ConflictRow(a, b) = ConflictRow(a, b)
<1>1. \A a, b : Store!Classify(a, b) = Classify(a, b)
  BY DEF Store!Classify, Store!Simultaneous, Store!SimultaneousWindow,
         Classify, Simultaneous, SimultaneousWindow
<1>2. \A a, b : Store!ConflictCandidate(a, b) <=> ConflictCandidate(a, b)
  BY <1>1 DEF Store!ConflictCandidate, ConflictCandidate
<1>3. QED
  BY <1>1, <1>2 DEF Store!SameObject, SameObject, Store!ConflictRow, ConflictRow

(* Committing an Observation is accepting it. *)
LEMMA CommitAccepts ==
    ASSUME StoreInv, NEW w \in Worker, CommitSave(w)
    PROVE  Store!Accept(Observed(w))
<1>1. pc[w] # "idle"
  BY DEF CommitSave, At
<1>2. Observed(w) \in Signed
  BY <1>1 DEF StoreInv, Verified, Observed
<1>3. QED
  BY <1>2 DEF CommitSave, Store!Accept, history

(* Recording the conflicts is answering: a created Observation of the Object
   is among the fresh siblings, or its row is on record. *)
LEMMA RecordAnswers ==
    ASSUME StoreInv, RowInv, LinkInv, NEW w \in Worker, RecordConflicts(w)
    PROVE  Store!Answer(Observed(w))
<1>1. /\ pc[w] = "record"
      /\ conflicts' = conflicts \cup {ConflictRow(s, Observed(w)) : s \in fresh[w]}
      /\ created' = created \cup {Observed(w)}
      /\ UNCHANGED stored
  BY DEF RecordConflicts, At
<1>2. Observed(w) \in stored
  BY <1>1 DEF StoreInv, Relating
<1>3. fresh[w] \in SUBSET {s \in stored : SameObject(s, Observed(w))}
  BY <1>1 DEF RowInv, Linking, SiblingsOf
<1>4. \A s \in fresh[w] : Store!Related(conflicts', s, Observed(w))
  <2>1. \A s \in fresh[w] : ConflictRow(s, Observed(w)) \in conflicts'
    BY <1>1
  <2>2. QED
    BY <2>1 DEF Store!Related, ConflictRow
<1>5. \A s : HasRow(s, Observed(w)) => Store!Related(conflicts', s, Observed(w))
  BY <1>1 DEF HasRow, Store!Related
<1>6. ASSUME NEW s \in created, SameObject(s, Observed(w))
      PROVE  Store!Related(conflicts', s, Observed(w))
  <2>1. s \in siblings[w] \/ HasRow(s, Observed(w))
    BY <1>1, <1>6 DEF LinkInv, CreatedKnown, Linking
  <2>2. s \in fresh[w] \/ HasRow(s, Observed(w))
    BY <1>1, <2>1 DEF LinkInv, SiblingsPending
  <2>3. QED
    BY <1>4, <1>5, <2>2
<1>7. \E new \in SUBSET {s \in stored : SameObject(s, Observed(w))} :
         conflicts' = conflicts \cup {ConflictRow(s, Observed(w)) : s \in new}
  BY <1>1, <1>3
<1>8. \A s \in created :
         SameObject(s, Observed(w)) => Store!Related(conflicts', s, Observed(w))
  BY <1>6
<1>9. QED
  BY <1>1, <1>2, <1>7, <1>8, SameRules DEF Store!Answer

(* Every behaviour of the node is one of the abstract store. *)
THEOREM StoreImplemented == Spec => ImplementsStore
<1>1. Init => Store!StoreInit
  BY DEF Init, Store!StoreInit
<1>2. TypeOK /\ StoreInv /\ RowInv /\ LinkInv /\ [Next]_vars
         => [Store!StoreNext]_Store!storeVars
  <2> SUFFICES ASSUME TypeOK, StoreInv, RowInv, LinkInv, [Next]_vars
               PROVE  [Store!StoreNext]_Store!storeVars
    OBVIOUS
  <2> USE DEF Store!storeVars, tables, history
  <2>1. ASSUME NEW w \in Worker, NEW e \in Envelope,
               AnswerAtOnce(w, e) \/ Receive(w, e)
        PROVE  UNCHANGED Store!storeVars
    BY <2>1 DEF AnswerAtOnce, Receive
  <2>2. ASSUME NEW w \in Worker, Step(w) \/ Fail(w),
               ~ CommitSave(w), ~ RecordConflicts(w)
        PROVE  UNCHANGED Store!storeVars
    BY <2>2 DEF Step, RequireTimestamp, PassPriors, OpenArchive, WriteArchive,
           ReadLog, WriteLog, Prove, UnreadableLog, FindParties, FindObservation,
           SkipSave, RollBackSave, ReadSiblings, ReadPairs, RollBackConflicts,
           Fail
  <2>3. ASSUME NEW w \in Worker, CommitSave(w)
        PROVE  Store!StoreNext
    <3>1. Observed(w) \in Observation
      BY DEF TypeOK, Observed, Envelope
    <3>2. QED
      BY <2>3, <3>1, CommitAccepts DEF Store!StoreNext
  <2>4. ASSUME NEW w \in Worker, RecordConflicts(w)
        PROVE  Store!StoreNext
    <3>1. Observed(w) \in Observation
      BY DEF TypeOK, Observed, Envelope
    <3>2. QED
      BY <2>4, <3>1, RecordAnswers DEF Store!StoreNext
  <2>5. ASSUME Restart
        PROVE  UNCHANGED Store!storeVars
    BY <2>5 DEF Restart
  <2>6. CASE UNCHANGED vars
    BY <2>6 DEF vars
  <2>7. QED
    BY <2>1, <2>2, <2>3, <2>4, <2>5, <2>6 DEF Next, Exhausted
<1>3. QED
  BY <1>1, <1>2, TypeCorrect, StoreCorrect, RowsCorrect, LinksCorrect, PTL
  DEF Spec, ImplementsStore, Store!StoreSpec

-----------------------------------------------------------------------------
(* History only grows. *)

(* Appending a line to the log leaves the lines before it as they were. *)
LEMMA AppendKeepsPrefix ==
    ASSUME NEW S, NEW seq \in Seq(S), NEW x \in S
    PROVE  /\ Len(seq) <= Len(Append(seq, x))
           /\ SubSeq(Append(seq, x), 1, Len(seq)) = seq
<1>1. /\ Append(seq, x) \in Seq(S)
      /\ Len(Append(seq, x)) = Len(seq) + 1
      /\ \A i \in 1 .. Len(seq) : Append(seq, x)[i] = seq[i]
  BY AppendProperties
<1>2. Len(seq) \in Nat
  BY LenProperties
<1>3. \A i \in 1 .. Len(seq) : Append(seq, x)[i] \in S
  BY <1>1
<1>4. /\ SubSeq(Append(seq, x), 1, Len(seq)) \in Seq(S)
      /\ Len(SubSeq(Append(seq, x), 1, Len(seq))) = Len(seq)
      /\ \A i \in 1 .. Len(seq) :
            SubSeq(Append(seq, x), 1, Len(seq))[i] = Append(seq, x)[i]
  BY <1>2, <1>3, SubSeqProperties
<1>5. SubSeq(Append(seq, x), 1, Len(seq)) = seq
  BY <1>1, <1>4, SeqEqual
<1>6. QED
  BY <1>1, <1>2, <1>5

(* No step changes or removes a line of the log or a row of the tables. *)
THEOREM HistoryNeverLost == Spec => HistoryKept
<1> DEFINE Kept == /\ Len(entries) <= Len(entries')
                   /\ SubSeq(entries', 1, Len(entries)) = entries
                   /\ stored \subseteq stored'
                   /\ logEntries \subseteq logEntries'
                   /\ timestamps \subseteq timestamps'
                   /\ conflicts \subseteq conflicts'
<1>1. TypeOK /\ [Next]_vars => Kept
  <2> SUFFICES ASSUME TypeOK, [Next]_vars
               PROVE  Kept
    OBVIOUS
  <2> USE DEF files, tables
  <2>1. UNCHANGED entries => /\ Len(entries) <= Len(entries')
                             /\ SubSeq(entries', 1, Len(entries)) = entries
    BY DEF TypeOK
  <2>2. ASSUME NEW w \in Worker, NEW e \in Envelope,
               AnswerAtOnce(w, e) \/ Receive(w, e)
        PROVE  Kept
    BY <2>1, <2>2 DEF AnswerAtOnce, Receive
  <2>3. ASSUME NEW w \in Worker, Step(w) \/ Fail(w), ~ WriteLog(w)
        PROVE  Kept
    BY <2>1, <2>3 DEF Step, RequireTimestamp, PassPriors, OpenArchive, WriteArchive, ReadLog,
           Prove, UnreadableLog, FindParties, FindObservation, SkipSave, CommitSave,
           RollBackSave, ReadSiblings, ReadPairs, RecordConflicts, RollBackConflicts,
           Fail
  <2>4. ASSUME NEW w \in Worker, WriteLog(w)
        PROVE  Kept
    <3>1. NewLine(w) \in LogLine
      BY <2>4 DEF TypeOK, NewLine, LogLine, Observed, Envelope
    <3>2. entries' = Append(entries, NewLine(w)) /\ UNCHANGED tables
      BY <2>4 DEF WriteLog, LogAppended
    <3>3. QED
      BY <3>1, <3>2, AppendKeepsPrefix DEF TypeOK
  <2>5. CASE Restart
    BY <2>1, <2>5 DEF Restart
  <2>6. CASE UNCHANGED vars
    BY <2>1, <2>6 DEF vars
  <2>7. QED
    BY <2>2, <2>3, <2>4, <2>5, <2>6 DEF Next, Exhausted
<1>2. QED
  BY <1>1, TypeCorrect, PTL DEF Spec, HistoryKept
=============================================================================
