------------------------- MODULE IngestStores_proofs ------------------------
(***************************************************************************)
(* Theorems about IngestNode that relate its three stores, the archive     *)
(* files, the log file and the database, for any set of Observations and   *)
(* any bounds: first for any number of threads, then for one.              *)
(***************************************************************************)
EXTENDS IngestNode_proofs, FiniteSetTheorems

-----------------------------------------------------------------------------
(* What is stored is backed by the files. *)

(* The threads that have opened the archive file of their Observation. *)
Archived(w) == pc[w] \in {"write_archive", "read_log", "write_log", "prove",
                          "save", "find", "commit"}

(* The threads that hold an inclusion proof. *)
Proved(w) == pc[w] \in {"save", "find", "commit"}

(* No file has bytes that fail the hashes of a manifest, and none that was
   opened disappears. *)
FilesInv ==
    /\ \A k \in Archive : blobs[k] # "foreign"
    /\ \A w \in Worker : Archived(w) => blobs[archiveOf[Observed(w)]] # "absent"
    /\ \A o \in stored : blobs[archiveOf[o]] # "absent"

(* What p says of o is what the log file says, now and later: it names the
   index on the first line of o, and the checkpoint covers that line. *)
Backed(o, p) ==
    /\ p.leaf_index < p.tree_size
    /\ p.tree_size <= Len(entries)
    /\ \E i \in 1 .. p.tree_size :
          IsFirstLine(i, o) /\ p.leaf_index = entries[i].leaf_index

(* The index that a thread read is never too high, so neither is that of any
   line, and proofs go from the log to the database as they are. *)
LinesInv ==
    /\ \A i \in 1 .. Len(entries) : entries[i].leaf_index < i
    /\ \A w \in Worker : pc[w] = "write_log" => leafIndex[w] <= Len(entries)
    /\ \A w \in Worker : Proved(w) => Backed(Observed(w), proof[w])
    /\ \A o \in stored : \E r \in logEntries : r.observation = o /\ Backed(o, r)

BackingInv == FilesInv /\ LinesInv

(* A step that writes no file and no row, and after which no thread is further
   on than before, keeps BackingInv. *)
LEMMA BackingKept ==
    ASSUME BackingInv,
           UNCHANGED <<blobs, entries, stored, logEntries>>,
           \A w \in Worker : Archived(w)' => Archived(w) /\ req'[w] = req[w],
           \A w \in Worker : Proved(w)' => Proved(w) /\ proof'[w] = proof[w],
           \A w \in Worker : pc'[w] = "write_log" =>
              pc[w] = "write_log" /\ leafIndex'[w] = leafIndex[w]
    PROVE  BackingInv'
<1>1. \A w \in Worker : Archived(w)' => Observed(w)' = Observed(w)
  BY DEF Observed
<1>2. \A o, p : Backed(o, p)' <=> Backed(o, p)
  BY DEF Backed, IsFirstLine
<1>3. FilesInv'
  BY <1>1 DEF BackingInv, FilesInv
<1>4. ASSUME NEW w \in Worker, Proved(w)'
      PROVE  Backed(Observed(w), proof[w])'
  <2>1. Proved(w) /\ proof'[w] = proof[w] /\ req'[w] = req[w]
    BY <1>4 DEF Proved, Archived
  <2>2. Backed(Observed(w), proof[w])
    BY <2>1 DEF BackingInv, LinesInv
  <2>3. QED
    BY <2>1, <2>2 DEF Backed, IsFirstLine, Observed
<1>5. LinesInv'
  BY <1>2, <1>4 DEF BackingInv, LinesInv
<1>6. QED
  BY <1>3, <1>5 DEF BackingInv

(* The line that append() is about to write comes after the one of any index
   it could have read. *)
LEMMA NewLineType ==
    ASSUME TypeOK, NEW w \in Worker
    PROVE  NewLine(w) \in LogLine /\ Observed(w) \in Observation
BY DEF TypeOK, NewLine, LogLine, Observed, Envelope

(* What appending a line does to the lines that were there. *)
LEMMA AppendedLines ==
    ASSUME TypeOK, NEW w \in Worker, entries' = Append(entries, NewLine(w))
    PROVE  /\ Len(entries) \in Nat
           /\ Len(entries') = Len(entries) + 1
           /\ \A i \in 1 .. Len(entries) : entries'[i] = entries[i]
           /\ entries'[Len(entries) + 1] = NewLine(w)
<1>1. entries \in Seq(LogLine) /\ NewLine(w) \in LogLine
  BY NewLineType DEF TypeOK
<1>2. QED
  BY <1>1, AppendProperties, LenProperties

(* A proof that is backed stays so when the log grows. *)
LEMMA BackedStays ==
    ASSUME TypeOK, NEW w \in Worker, entries' = Append(entries, NewLine(w)),
           NEW o, NEW p, p.tree_size \in Nat, Backed(o, p)
    PROVE  /\ p.leaf_index < p.tree_size
           /\ p.tree_size <= Len(entries')
           /\ \E i \in 1 .. p.tree_size :
                 /\ entries'[i].observation = o
                 /\ \A j \in 1 .. i - 1 : entries'[j].observation # o
                 /\ p.leaf_index = entries'[i].leaf_index
<1>1. PICK i \in 1 .. p.tree_size :
         IsFirstLine(i, o) /\ p.leaf_index = entries[i].leaf_index
  BY DEF Backed
<1>2. \A j \in 1 .. i : entries'[j] = entries[j]
  BY <1>1, AppendedLines DEF Backed
<1>3. QED
  BY <1>1, <1>2, AppendedLines DEF Backed, IsFirstLine

(* The proof that is read from the log is backed by it. *)
LEMMA ProvedIsBacked ==
    ASSUME TypeOK, LinesInv, NEW w \in Worker, Prove(w)
    PROVE  Backed(Observed(w), proof'[w])
<1>1. PICK i \in DOMAIN entries :
         /\ IsFirstLine(i, Observed(w))
         /\ proof' = [proof EXCEPT ![w] =
                         [leaf_index |-> entries[i].leaf_index,
                          tree_size |-> Len(entries)]]
  BY DEF Prove
<1>2. /\ Len(entries) \in Nat /\ i \in 1 .. Len(entries)
      /\ entries[i].leaf_index \in Nat
  <2>1. entries \in Seq(LogLine)
    BY DEF TypeOK
  <2>2. DOMAIN entries = 1 .. Len(entries) /\ Len(entries) \in Nat
    BY <2>1
  <2>3. entries[i] \in LogLine
    BY <2>1
  <2>4. QED
    BY <2>2, <2>3 DEF LogLine
<1>3. proof'[w] = [leaf_index |-> entries[i].leaf_index, tree_size |-> Len(entries)]
  BY <1>1 DEF TypeOK
<1>4. entries[i].leaf_index < i
  BY <1>1, <1>2 DEF LinesInv
<1>5. QED
  BY <1>1, <1>2, <1>3, <1>4 DEF Backed

(* BackingInv holds in every reachable state. *)
THEOREM BackingCorrect == Spec => []BackingInv
<1>1. Init => BackingInv
  <2> SUFFICES ASSUME Init PROVE BackingInv
    OBVIOUS
  <2>1. FilesInv
    BY DEF Init, FilesInv, Archived
  <2>2. LinesInv
    BY DEF Init, LinesInv, Proved
  <2>3. QED
    BY <2>1, <2>2 DEF BackingInv
<1>2. TypeOK /\ StoreInv /\ BackingInv /\ [Next]_vars => BackingInv'
  <2> SUFFICES ASSUME TypeOK, StoreInv, BackingInv, [Next]_vars
               PROVE  BackingInv'
    OBVIOUS
  <2> USE DEF At, GoTo, files, tables, locals, history
  <2>1. ASSUME NEW w \in Worker, NEW e \in Envelope, AnswerAtOnce(w, e)
        PROVE  BackingInv'
    BY <2>1, BackingKept DEF AnswerAtOnce, Archived, Proved
  <2>2. ASSUME NEW w \in Worker, NEW e \in Envelope, Receive(w, e)
        PROVE  BackingInv'
    BY <2>2, BackingKept DEF TypeOK, Receive, Archived, Proved
  <2>3. ASSUME NEW w \in Worker, RequireTimestamp(w)
        PROVE  BackingInv'
    BY <2>3, BackingKept DEF TypeOK, RequireTimestamp, Finish, Archived, Proved
  <2>4. ASSUME NEW w \in Worker, PassPriors(w)
        PROVE  BackingInv'
    BY <2>4, BackingKept DEF TypeOK, PassPriors, Archived, Proved
  <2>5. ASSUME NEW w \in Worker, OpenArchive(w)
        PROVE  BackingInv'
    <3>1. Observed(w) \in Observation /\ archiveOf[Observed(w)] \in Archive
      BY NewLineType, ObservationAssumption
    <3>2. FilesInv'
      BY <2>5, <3>1 DEF OpenArchive, BackingInv, FilesInv, TypeOK, Archived, Observed
    <3>3. LinesInv'
      BY <2>5 DEF OpenArchive, BackingInv, LinesInv, TypeOK, Proved, Backed,
                  IsFirstLine, Observed
    <3>4. QED
      BY <3>2, <3>3 DEF BackingInv
  <2>6. ASSUME NEW w \in Worker, WriteArchive(w)
        PROVE  BackingInv'
    <3>1. Observed(w) \in Observation /\ archiveOf[Observed(w)] \in Archive
      BY NewLineType, ObservationAssumption
    <3>2. req[w].bound
      BY <2>6 DEF WriteArchive, StoreInv, Verified
    <3>3. FilesInv'
      BY <2>6, <3>1, <3>2
      DEF WriteArchive, BackingInv, FilesInv, TypeOK, Archived, Observed
    <3>4. LinesInv'
      BY <2>6 DEF WriteArchive, BackingInv, LinesInv, TypeOK, Proved, Backed,
                  IsFirstLine, Observed
    <3>5. QED
      BY <3>3, <3>4 DEF BackingInv
  <2>7. ASSUME NEW w \in Worker, ReadLog(w)
        PROVE  BackingInv'
    <3>1. FilesInv'
      BY <2>7 DEF ReadLog, BackingInv, FilesInv, TypeOK, Archived, Observed
    <3>2. Len(entries) \in Nat
      BY DEF TypeOK
    <3>3. \A v \in Worker : pc'[v] = "write_log" => leafIndex'[v] <= Len(entries)
      BY <2>7, <3>2 DEF ReadLog, NextLeafIndex, BackingInv, LinesInv, TypeOK
    <3>4. LinesInv'
      BY <2>7, <3>3 DEF ReadLog, BackingInv, LinesInv, TypeOK, Proved, Backed,
                  IsFirstLine, Observed
    <3>5. QED
      BY <3>1, <3>4 DEF BackingInv
  <2>8. ASSUME NEW w \in Worker, WriteLog(w)
        PROVE  BackingInv'
    <3>1. entries' = Append(entries, NewLine(w))
      BY <2>8 DEF WriteLog, LogAppended
    <3>2. FilesInv'
      BY <2>8 DEF WriteLog, BackingInv, FilesInv, TypeOK, Archived, Observed
    <3>3. /\ NewLine(w).leaf_index = leafIndex[w]
          /\ leafIndex[w] \in Nat /\ leafIndex[w] <= Len(entries)
      BY <2>8 DEF WriteLog, NewLine, BackingInv, LinesInv, TypeOK
    <3>4. \A i \in 1 .. Len(entries') : entries'[i].leaf_index < i
      BY <3>1, <3>3, AppendedLines DEF BackingInv, LinesInv
    <3>5. ASSUME NEW v \in Worker, pc'[v] = "write_log"
          PROVE  leafIndex'[v] <= Len(entries')
      <4>1. v # w /\ pc[v] = "write_log" /\ leafIndex'[v] = leafIndex[v]
        BY <2>8, <3>5 DEF WriteLog, TypeOK
      <4>2. leafIndex[v] <= Len(entries) /\ leafIndex[v] \in Nat
        BY <4>1 DEF BackingInv, LinesInv, TypeOK
      <4>3. QED
        BY <3>1, <4>1, <4>2, AppendedLines
    <3>6. ASSUME NEW v \in Worker, Proved(v)'
          PROVE  Backed(Observed(v), proof[v])'
      <4>1. Proved(v) /\ req' = req /\ proof' = proof
        BY <2>8, <3>6 DEF WriteLog, Proved, TypeOK
      <4>2. Backed(Observed(v), proof[v]) /\ proof[v].tree_size \in Nat
        BY <4>1 DEF BackingInv, LinesInv, TypeOK, Proof
      <4>3. QED
        BY <3>1, <4>1, <4>2, BackedStays DEF Backed, IsFirstLine, Observed
    <3>7. ASSUME NEW o \in stored
          PROVE  \E r \in logEntries : r.observation = o /\ Backed(o, r)'
      <4>1. PICK r \in logEntries : r.observation = o /\ Backed(o, r)
        BY DEF BackingInv, LinesInv
      <4>2. r.tree_size \in Nat
        BY DEF TypeOK, LogEntry
      <4>3. QED
        BY <3>1, <4>1, <4>2, BackedStays DEF Backed, IsFirstLine
    <3>8. UNCHANGED <<stored, logEntries>>
      BY <2>8 DEF WriteLog
    <3>9. LinesInv'
      BY <3>4, <3>5, <3>6, <3>7, <3>8 DEF LinesInv
    <3>10. QED
      BY <3>2, <3>9 DEF BackingInv
  <2>9. ASSUME NEW w \in Worker, Prove(w)
        PROVE  BackingInv'
    <3>1. FilesInv'
      BY <2>9 DEF Prove, BackingInv, FilesInv, TypeOK, Archived, Observed
    <3>2. UNCHANGED <<entries, req, stored, logEntries, leafIndex>>
      BY <2>9 DEF Prove
    <3>3. Backed(Observed(w), proof'[w])
      BY <2>9, ProvedIsBacked DEF BackingInv
    <3>4. ASSUME NEW v \in Worker, Proved(v)'
          PROVE  Backed(Observed(v), proof[v])'
      <4>1. CASE v = w
        BY <3>2, <3>3, <4>1 DEF Backed, IsFirstLine, Observed
      <4>2. CASE v # w
        <5>1. Proved(v) /\ proof'[v] = proof[v]
          BY <2>9, <3>4, <4>2 DEF Prove, Proved, TypeOK
        <5>2. Backed(Observed(v), proof[v])
          BY <5>1 DEF BackingInv, LinesInv
        <5>3. QED
          BY <3>2, <5>1, <5>2 DEF Backed, IsFirstLine, Observed
      <4>3. QED
        BY <4>1, <4>2
    <3>5. \A v \in Worker : pc'[v] = "write_log" => pc[v] = "write_log"
      BY <2>9 DEF Prove, TypeOK
    <3>6. \A o, p : Backed(o, p)' <=> Backed(o, p)
      BY <3>2 DEF Backed, IsFirstLine
    <3>7. LinesInv'
      BY <3>2, <3>4, <3>5, <3>6 DEF BackingInv, LinesInv
    <3>8. QED
      BY <3>1, <3>7 DEF BackingInv
  <2>10. ASSUME NEW w \in Worker, FindParties(w)
         PROVE  BackingInv'
    BY <2>10, BackingKept DEF TypeOK, FindParties, Archived, Proved
  <2>11. ASSUME NEW w \in Worker, FindObservation(w)
         PROVE  BackingInv'
    BY <2>11, BackingKept DEF TypeOK, FindObservation, Archived, Proved
  <2>12. ASSUME NEW w \in Worker, SkipSave(w)
         PROVE  BackingInv'
    BY <2>12, BackingKept DEF TypeOK, SkipSave, Archived, Proved
  <2>13. ASSUME NEW w \in Worker, CommitSave(w)
         PROVE  BackingInv'
    <3> DEFINE row == [observation |-> Observed(w),
                       leaf_index |-> proof[w].leaf_index,
                       tree_size |-> proof[w].tree_size]
    <3>1. /\ UNCHANGED <<blobs, entries, req, proof, leafIndex>>
          /\ pc[w] = "commit" /\ pc' = [pc EXCEPT ![w] = "siblings"]
          /\ stored' = stored \cup {Observed(w)}
          /\ logEntries' = logEntries \cup {row}
      BY <2>13 DEF CommitSave
    <3>2. FilesInv'
      BY <3>1 DEF BackingInv, FilesInv, TypeOK, Archived, Observed
    <3>3. \A o, p : Backed(o, p)' <=> Backed(o, p)
      BY <3>1 DEF Backed, IsFirstLine
    <3>4. Backed(Observed(w), row)
      <4>1. Backed(Observed(w), proof[w])
        BY <3>1 DEF BackingInv, LinesInv, Proved
      <4>2. QED
        BY <4>1 DEF Backed
    <3>5. ASSUME NEW v \in Worker, Proved(v)'
          PROVE  Backed(Observed(v), proof[v])'
      <4>1. Proved(v)
        BY <3>1, <3>5 DEF Proved, TypeOK
      <4>2. Backed(Observed(v), proof[v])
        BY <4>1 DEF BackingInv, LinesInv
      <4>3. QED
        BY <3>1, <4>2 DEF Backed, IsFirstLine, Observed
    <3>6. \A v \in Worker : pc'[v] = "write_log" => pc[v] = "write_log"
      BY <3>1 DEF TypeOK
    <3>7. \A o \in stored' : \E r \in logEntries' : r.observation = o /\ Backed(o, r)
      <4>1. \A o \in stored : \E r \in logEntries : r.observation = o /\ Backed(o, r)
        BY DEF BackingInv, LinesInv
      <4>2. row.observation = Observed(w)
        OBVIOUS
      <4> HIDE DEF row
      <4>3. QED
        BY <3>1, <3>4, <4>1, <4>2
    <3>8. LinesInv'
      BY <3>1, <3>3, <3>5, <3>6, <3>7 DEF BackingInv, LinesInv
    <3>9. QED
      BY <3>2, <3>8 DEF BackingInv
  <2>14. ASSUME NEW w \in Worker, RollBackSave(w)
         PROVE  BackingInv'
    BY <2>14, BackingKept DEF TypeOK, RollBackSave, Finish, Archived, Proved
  <2>15. ASSUME NEW w \in Worker, ReadSiblings(w)
         PROVE  BackingInv'
    BY <2>15, BackingKept DEF TypeOK, ReadSiblings, Archived, Proved
  <2>16. ASSUME NEW w \in Worker, ReadPairs(w)
         PROVE  BackingInv'
    BY <2>16, BackingKept DEF TypeOK, ReadPairs, Archived, Proved
  <2>17. ASSUME NEW w \in Worker, RecordConflicts(w)
         PROVE  BackingInv'
    BY <2>17, BackingKept DEF TypeOK, RecordConflicts, Finish, Archived, Proved
  <2>18. ASSUME NEW w \in Worker, RollBackConflicts(w)
         PROVE  BackingInv'
    BY <2>18, BackingKept DEF TypeOK, RollBackConflicts, Finish, Archived, Proved
  <2>19. ASSUME NEW w \in Worker, Fail(w)
         PROVE  BackingInv'
    BY <2>19, BackingKept DEF TypeOK, Fail, Finish, Archived, Proved
  <2>20. ASSUME Restart
         PROVE  BackingInv'
    BY <2>20, BackingKept DEF TypeOK, Restart, Archived, Proved
  <2>21. ASSUME NEW w \in Worker, UnreadableLog(w)
         PROVE  BackingInv'
    BY <2>21, BackingKept DEF TypeOK, UnreadableLog, Finish, Archived, Proved
  <2>22. CASE UNCHANGED vars
    BY <2>22, BackingKept DEF vars, Archived, Proved
  <2>23. QED
    BY <2>1, <2>2, <2>3, <2>4, <2>5, <2>6, <2>7, <2>8, <2>9, <2>10, <2>11,
       <2>12, <2>13, <2>14, <2>15, <2>16, <2>17, <2>18, <2>19, <2>20, <2>21, <2>22
    DEF Next, Step, Exhausted
<1>3. QED
  BY <1>1, <1>2, TypeCorrect, StoreCorrect, PTL DEF Spec

(* What the database holds is backed by the archive files and the log file,
   whatever threads, failures and restarts do. *)
THEOREM StoredBacked == Spec => []StoredIsBacked
<1>1. TypeOK /\ StoreInv /\ BackingInv => StoredIsBacked
  <2> SUFFICES ASSUME TypeOK, StoreInv, BackingInv, NEW o \in stored
               PROVE  /\ o \in Signed
                      /\ blobs[archiveOf[o]] \in {"torn", "whole"}
                      /\ \E r \in logEntries : r.observation = o /\ Backed(o, r)
    BY DEF StoredIsBacked, Backed
  <2>1. o \in Signed /\ o \in Observation
    BY ObservationAssumption DEF StoreInv
  <2>2. archiveOf[o] \in Archive
    BY <2>1, ObservationAssumption
  <2>3. blobs[archiveOf[o]] \in BlobState \ {"foreign", "absent"}
    BY <2>2 DEF TypeOK, BackingInv, FilesInv
  <2>4. QED
    BY <2>1, <2>3 DEF BackingInv, LinesInv, BlobState
<1>2. QED
  BY <1>1, BackingCorrect, TypeCorrect, StoreCorrect, PTL

-----------------------------------------------------------------------------
(* How often a content is stored without third-party evidence. *)

(* The threads that have passed the check for repeated content. *)
Passed(w) == pc[w] = "open_archive" \/ Archived(w)

(* Those about to store one more undated Observation of content c. *)
Racing(c) ==
    {w \in Worker : /\ Passed(w)
                    /\ contentOf[Observed(w)] = c
                    /\ req[w].evidence # "rfc3161"
                    /\ Observed(w) \notin stored}

(* Undated Observations and the threads about to add one are together no more
   than the threads: once a content is stored, none passes the check for it. *)
RepeatsInv ==
    \A c \in Content :
       /\ IsFiniteSet(Undated(c))
       /\ Cardinality(Undated(c)) + Cardinality(Racing(c)) <= Cardinality(Worker)

(* The sets that are counted are finite, and no thread is counted twice. *)
LEMMA RacingCount ==
    ASSUME NEW S \in SUBSET Worker
    PROVE  /\ IsFiniteSet(S)
           /\ Cardinality(S) \in Nat /\ Cardinality(Worker) \in Nat
           /\ Cardinality(S) <= Cardinality(Worker)
BY BoundsAssumption, FS_Subset, FS_CardinalityType

(* A step after which no content has more undated Observations, or more
   threads about to add one, keeps RepeatsInv. *)
LEMMA RepeatsKept ==
    ASSUME RepeatsInv,
           \A c \in Content : /\ Undated(c)' \subseteq Undated(c)
                              /\ Racing(c)' \subseteq Racing(c)
    PROVE  RepeatsInv'
<1> SUFFICES ASSUME NEW c \in Content
             PROVE  /\ IsFiniteSet(Undated(c)')
                    /\ Cardinality(Undated(c)') + Cardinality(Racing(c)')
                          <= Cardinality(Worker)
  BY DEF RepeatsInv
<1>1. /\ IsFiniteSet(Undated(c))
      /\ Cardinality(Undated(c)) + Cardinality(Racing(c)) <= Cardinality(Worker)
  BY DEF RepeatsInv
<1>2. Racing(c) \in SUBSET Worker
  BY DEF Racing
<1>3. /\ IsFiniteSet(Undated(c)') /\ Cardinality(Undated(c)') \in Nat
      /\ Cardinality(Undated(c)') <= Cardinality(Undated(c))
  BY <1>1, FS_Subset, FS_CardinalityType
<1>4. /\ Cardinality(Racing(c)') \in Nat
      /\ Cardinality(Racing(c)') <= Cardinality(Racing(c))
  BY <1>2, RacingCount, FS_Subset, FS_CardinalityType
<1>5. /\ Cardinality(Undated(c)) \in Nat /\ Cardinality(Racing(c)) \in Nat
      /\ Cardinality(Worker) \in Nat
  BY <1>1, <1>2, RacingCount, FS_CardinalityType
<1>6. QED
  BY <1>1, <1>3, <1>4, <1>5

(* A step that stores nothing and lets no thread pass the check. *)
LEMMA NoneRaces ==
    ASSUME RepeatsInv,
           UNCHANGED <<stored, timestamps>>,
           \A w \in Worker : Passed(w)' => Passed(w) /\ req'[w] = req[w]
    PROVE  RepeatsInv'
<1>1. \A c \in Content : Undated(c)' \subseteq Undated(c)
  BY DEF Undated
<1>2. \A c \in Content : Racing(c)' \subseteq Racing(c)
  BY DEF Racing, Observed
<1>3. QED
  BY <1>1, <1>2, RepeatsKept

(* A thread passes the check for a content that is not stored, or only as its
   own Observation, which another thread has just stored. *)
LEMMA PassRaces ==
    ASSUME TypeOK, RepeatsInv, NEW w \in Worker, PassPriors(w)
    PROVE  RepeatsInv'
<1> SUFFICES ASSUME NEW c \in Content
             PROVE  /\ IsFiniteSet(Undated(c)')
                    /\ Cardinality(Undated(c)') + Cardinality(Racing(c)')
                          <= Cardinality(Worker)
  BY DEF RepeatsInv
<1>1. /\ UNCHANGED <<req, stored, timestamps>>
      /\ pc' = [pc EXCEPT ![w] = "open_archive"]
      /\ ~ NeedsTimestamp(w)
  BY DEF PassPriors, GoTo, tables
<1>2. Undated(c)' = Undated(c)
  BY <1>1 DEF Undated
<1>3. /\ IsFiniteSet(Undated(c))
      /\ Cardinality(Undated(c)) + Cardinality(Racing(c)) <= Cardinality(Worker)
  BY DEF RepeatsInv
<1>4. Racing(c)' \subseteq Racing(c) \cup {w}
  BY <1>1 DEF Racing, Passed, Archived, Observed, TypeOK
<1>5. CASE w \notin Racing(c)'
  <2>1. Racing(c)' \subseteq Racing(c)
    BY <1>4, <1>5
  <2>2. Racing(c) \in SUBSET Worker
    BY DEF Racing
  <2>3. /\ Cardinality(Racing(c)') \in Nat
        /\ Cardinality(Racing(c)') <= Cardinality(Racing(c))
    BY <2>1, <2>2, RacingCount, FS_Subset, FS_CardinalityType
  <2>4. /\ Cardinality(Undated(c)) \in Nat /\ Cardinality(Racing(c)) \in Nat
        /\ Cardinality(Worker) \in Nat
    BY <1>3, <2>2, RacingCount, FS_CardinalityType
  <2>5. QED
    BY <1>2, <1>3, <2>3, <2>4
<1>6. CASE w \in Racing(c)'
  <2>1. /\ contentOf[Observed(w)] = c /\ Observed(w) \notin stored
        /\ req[w].evidence # "rfc3161"
    BY <1>1, <1>6 DEF Racing, Observed
  <2>2. Priors(Observed(w)) = {}
    BY <1>1, <2>1 DEF NeedsTimestamp
  <2>3. Undated(c) = {}
    BY <2>1, <2>2 DEF Priors, Undated
  <2>4. Racing(c)' \in SUBSET Worker
    BY DEF Racing
  <2>5. Cardinality(Undated(c)') = 0 /\ IsFiniteSet(Undated(c)')
    BY <1>2, <2>3, FS_EmptySet
  <2>6. /\ Cardinality(Racing(c)') \in Nat /\ Cardinality(Worker) \in Nat
        /\ Cardinality(Racing(c)') <= Cardinality(Worker)
    BY <2>4, RacingCount
  <2>7. QED
    BY <2>5, <2>6
<1>7. QED
  BY <1>5, <1>6

(* A thread that stores an undated Observation was counted as racing. *)
LEMMA CommitRaces ==
    ASSUME TypeOK, RepeatsInv, NEW w \in Worker, CommitSave(w)
    PROVE  RepeatsInv'
<1> SUFFICES ASSUME NEW c \in Content
             PROVE  /\ IsFiniteSet(Undated(c)')
                    /\ Cardinality(Undated(c)') + Cardinality(Racing(c)')
                          <= Cardinality(Worker)
  BY DEF RepeatsInv
<1>1. /\ UNCHANGED req
      /\ pc[w] = "commit" /\ pc' = [pc EXCEPT ![w] = "siblings"]
      /\ stored' = stored \cup {Observed(w)}
      /\ timestamps' = timestamps \cup
            [observation : {Observed(w)}, kind : {req[w].evidence} \cap Declared]
      /\ Observed(w) \notin stored
  BY DEF CommitSave, At, GoTo, KeysFree
<1>2. Observed(w) \in Observation /\ req[w].evidence \in Evidence
  BY DEF TypeOK, Observed, Envelope
<1>3. /\ IsFiniteSet(Undated(c)) /\ Cardinality(Undated(c)) \in Nat
      /\ Cardinality(Undated(c)) + Cardinality(Racing(c)) <= Cardinality(Worker)
  BY FS_CardinalityType DEF RepeatsInv
<1>4. /\ Racing(c) \in SUBSET Worker /\ IsFiniteSet(Racing(c))
      /\ Cardinality(Racing(c)) \in Nat /\ Cardinality(Worker) \in Nat
  BY RacingCount DEF Racing
<1>5. Racing(c)' \subseteq Racing(c) \ {w}
  BY <1>1 DEF Racing, Passed, Archived, Observed, TypeOK
<1>6. Undated(c)' \subseteq Undated(c) \cup {Observed(w)}
  BY <1>1 DEF Undated
<1>7. CASE w \in Racing(c)
  <2>1. /\ IsFiniteSet(Racing(c) \ {w})
        /\ Cardinality(Racing(c) \ {w}) = Cardinality(Racing(c)) - 1
    BY <1>4, <1>7, FS_RemoveElement
  <2>2. /\ IsFiniteSet(Undated(c) \cup {Observed(w)})
        /\ Cardinality(Undated(c) \cup {Observed(w)}) <= Cardinality(Undated(c)) + 1
    <3>1. /\ IsFiniteSet(Undated(c) \cup {Observed(w)})
          /\ Cardinality(Undated(c) \cup {Observed(w)}) =
                IF Observed(w) \in Undated(c) THEN Cardinality(Undated(c))
                ELSE Cardinality(Undated(c)) + 1
      BY <1>3, FS_AddElement, Zenon
    <3>2. QED
      BY <1>3, <3>1
  <2>3. /\ Cardinality(Racing(c)') \in Nat
        /\ Cardinality(Racing(c)') <= Cardinality(Racing(c)) - 1
    BY <1>5, <2>1, FS_Subset, FS_CardinalityType
  <2>4. /\ IsFiniteSet(Undated(c)') /\ Cardinality(Undated(c)') \in Nat
        /\ Cardinality(Undated(c)') <= Cardinality(Undated(c) \cup {Observed(w)})
        /\ Cardinality(Undated(c) \cup {Observed(w)}) \in Nat
    BY <1>6, <2>2, FS_Subset, FS_CardinalityType
  <2>5. QED
    BY <1>3, <1>4, <2>2, <2>3, <2>4
<1>8. CASE w \notin Racing(c)
  <2>1. \/ contentOf[Observed(w)] # c
        \/ req[w].evidence = "rfc3161"
    BY <1>1, <1>8 DEF Racing, Passed, Archived
  <2>2. Observed(w) \notin Undated(c)'
    <3>1. CASE contentOf[Observed(w)] # c
      BY <3>1 DEF Undated
    <3>2. CASE req[w].evidence = "rfc3161"
      <4>1. [observation |-> Observed(w), kind |-> "rfc3161"] \in timestamps'
        BY <1>1, <1>2, <3>2 DEF Declared
      <4>2. QED
        BY <4>1 DEF Undated
    <3>3. QED
      BY <2>1, <3>1, <3>2
  <2>3. Undated(c)' \subseteq Undated(c) /\ Racing(c)' \subseteq Racing(c)
    BY <1>5, <1>6, <2>2
  <2>4. /\ IsFiniteSet(Undated(c)') /\ Cardinality(Undated(c)') \in Nat
        /\ Cardinality(Undated(c)') <= Cardinality(Undated(c))
        /\ Cardinality(Racing(c)') \in Nat
        /\ Cardinality(Racing(c)') <= Cardinality(Racing(c))
    BY <1>3, <1>4, <2>3, FS_Subset, FS_CardinalityType
  <2>5. QED
    BY <1>3, <1>4, <2>4
<1>9. QED
  BY <1>7, <1>8

(* RepeatsInv holds in every reachable state. *)
THEOREM RepeatsCorrect == Spec => []RepeatsInv
<1>1. Init => RepeatsInv
  <2> SUFFICES ASSUME Init, NEW c \in Content
               PROVE  /\ IsFiniteSet(Undated(c))
                      /\ Cardinality(Undated(c)) + Cardinality(Racing(c))
                            <= Cardinality(Worker)
    BY DEF RepeatsInv
  <2>1. Undated(c) = {} /\ Racing(c) = {}
    BY DEF Init, Undated, Racing, Passed, Archived
  <2>2. Cardinality(Worker) \in Nat
    BY BoundsAssumption, FS_CardinalityType
  <2>3. QED
    BY <2>1, <2>2, FS_EmptySet
<1>2. TypeOK /\ RepeatsInv /\ [Next]_vars => RepeatsInv'
  <2> SUFFICES ASSUME TypeOK, RepeatsInv, [Next]_vars
               PROVE  RepeatsInv'
    OBVIOUS
  <2> USE DEF TypeOK, At, GoTo, files, tables, locals, history, Passed, Archived
  <2>1. ASSUME NEW w \in Worker, NEW e \in Envelope,
               AnswerAtOnce(w, e) \/ Receive(w, e)
        PROVE  RepeatsInv'
    BY <2>1, NoneRaces DEF AnswerAtOnce, Receive
  <2>2. ASSUME NEW w \in Worker,
               RequireTimestamp(w) \/ UnreadableLog(w) \/ RollBackSave(w)
                  \/ RecordConflicts(w) \/ RollBackConflicts(w) \/ Fail(w)
        PROVE  RepeatsInv'
    BY <2>2, NoneRaces
    DEF RequireTimestamp, UnreadableLog, RollBackSave, RecordConflicts,
        RollBackConflicts, Fail, Finish
  <2>3. ASSUME NEW w \in Worker, PassPriors(w)
        PROVE  RepeatsInv'
    BY <2>3, PassRaces
  <2>4. ASSUME NEW w \in Worker,
               OpenArchive(w) \/ WriteArchive(w) \/ ReadLog(w) \/ WriteLog(w)
                  \/ Prove(w)
        PROVE  RepeatsInv'
    BY <2>4, NoneRaces DEF OpenArchive, WriteArchive, ReadLog, WriteLog, Prove
  <2>5. ASSUME NEW w \in Worker,
               FindParties(w) \/ FindObservation(w) \/ SkipSave(w)
                  \/ ReadSiblings(w) \/ ReadPairs(w)
        PROVE  RepeatsInv'
    BY <2>5, NoneRaces
    DEF FindParties, FindObservation, SkipSave, ReadSiblings, ReadPairs
  <2>6. ASSUME NEW w \in Worker, CommitSave(w)
        PROVE  RepeatsInv'
    BY <2>6, CommitRaces
  <2>7. CASE Restart
    BY <2>7, NoneRaces DEF Restart
  <2>8. CASE UNCHANGED vars
    BY <2>8, NoneRaces DEF vars
  <2>9. QED
    BY <2>1, <2>2, <2>3, <2>4, <2>5, <2>6, <2>7, <2>8 DEF Next, Step, Exhausted
<1>3. QED
  BY <1>1, <1>2, TypeCorrect, PTL DEF Spec

(* No content is stored without third-party evidence more often than there are
   threads. *)
THEOREM RepeatsBounded == Spec => []RepeatsBoundedByThreads
<1>1. RepeatsInv => RepeatsBoundedByThreads
  <2> SUFFICES ASSUME RepeatsInv, NEW c \in Content
               PROVE  Cardinality(Undated(c)) <= Cardinality(Worker)
    BY DEF RepeatsBoundedByThreads
  <2>1. /\ IsFiniteSet(Undated(c))
        /\ Cardinality(Undated(c)) + Cardinality(Racing(c)) <= Cardinality(Worker)
    BY DEF RepeatsInv
  <2>2. Cardinality(Racing(c)) \in Nat /\ Cardinality(Worker) \in Nat
    BY RacingCount DEF Racing
  <2>3. Cardinality(Undated(c)) \in Nat
    BY <2>1, FS_CardinalityType
  <2>4. QED
    BY <2>1, <2>2, <2>3
<1>2. QED
  BY <1>1, RepeatsCorrect, PTL

-----------------------------------------------------------------------------
(* One thread at a time. *)

OneThread == \A v, w \in Worker : v = w

(* Every capture writes an archive of its own: each WARC record has a fresh
   identifier (http_capture.py:46). *)
OwnArchives ==
    \A a, b \in Observation : archiveOf[a] = archiveOf[b] => a = b

(* The threads with an Observation that is not stored yet. *)
Unsaved(w) == pc[w] \in {"priors", "open_archive"} \/ Archived(w)

(* The threads whose archive file is complete. *)
Written(w) == pc[w] \in {"read_log", "write_log", "prove", "save", "find", "commit"}

(* The leaf index of a line is its place in the file, and every proof points
   at a line of its Observation. *)
IndexInv ==
    /\ \A i \in 1 .. Len(entries) : entries[i].leaf_index = i - 1
    /\ \A w \in Worker : pc[w] = "write_log" => leafIndex[w] = Len(entries)
    /\ \A w \in Worker : Proved(w) =>
          /\ proof[w].leaf_index < Len(entries)
          /\ entries[proof[w].leaf_index + 1].observation = Observed(w)
    /\ \A r \in logEntries : r.leaf_index < Len(entries) /\ ProofVerifies(r)

(* An archive file is only rewritten for an Observation that is not stored. *)
WholeInv ==
    /\ \A w \in Worker : Unsaved(w) => Observed(w) \notin stored
    /\ \A w \in Worker : Written(w) => blobs[archiveOf[Observed(w)]] = "whole"
    /\ \A o \in stored : blobs[archiveOf[o]] = "whole"

(* The session of save_observation is right about what is missing when it
   commits, so only the canonical URL can stand against it. *)
MissingInv ==
    \A w \in Worker : pc[w] \in {"find", "commit"} =>
       /\ "object" \in missing[w] => objectOf[Observed(w)] \notin objects
       /\ "observer" \in missing[w] => observerOf[Observed(w)] \notin observers
       /\ "observation" \in missing[w] => Observed(w) \notin stored

(* The threads whose line is in the log and whose rows are not committed. *)
Saving(w) == pc[w] = "prove" \/ Proved(w)

(* Until a step fails, each line of the log is that of a stored Observation,
   of one that cannot be stored, or of the one that is being saved. *)
LoggedInv ==
    failures = 0 =>
       \A i \in 1 .. Len(entries) :
          \/ entries[i].observation \in stored
          \/ UrlTaken(entries[i].observation)
          \/ \E w \in Worker : Saving(w) /\ Observed(w) = entries[i].observation

(* Only what fails or stops leaves a part of a line. *)
WholeLines == failures = 0 => logFile = "whole"

(* Nothing changes under record_conflicts, and until a step fails each pair
   without a row has the Observation that is being related. *)
RelatedInv ==
    /\ \A w \in Worker : Linking(w) => siblings[w] = SiblingsOf(Observed(w))
    /\ \A w \in Worker : pc[w] = "record" =>
          fresh[w] = {s \in siblings[w] : ~ HasRow(s, Observed(w))}
    /\ failures = 0 =>
          \A a, b \in stored : SameObject(a, b) =>
             \/ HasRow(a, b)
             \/ \E w \in Worker : Relating(w) /\ Observed(w) \in {a, b}

(* Nobody is between the file of another's Observation and its row. *)
LEMMA OnlyThread ==
    ASSUME OneThread, NEW w \in Worker, NEW v \in Worker
    PROVE  v = w
BY DEF OneThread

(* A step that does not write the log, and after which no thread is further on
   than before, keeps IndexInv. *)
LEMMA IndexKept ==
    ASSUME IndexInv,
           UNCHANGED <<entries, logEntries>>,
           \A w \in Worker : Proved(w)' =>
              Proved(w) /\ req'[w] = req[w] /\ proof'[w] = proof[w],
           \A w \in Worker : pc'[w] = "write_log" =>
              pc[w] = "write_log" /\ leafIndex'[w] = leafIndex[w]
    PROVE  IndexInv'
<1>1. \A r : ProofVerifies(r)' <=> ProofVerifies(r)
  BY DEF ProofVerifies
<1>2. ASSUME NEW w \in Worker, Proved(w)'
      PROVE  /\ proof'[w].leaf_index < Len(entries')
             /\ entries'[proof'[w].leaf_index + 1].observation = Observed(w)'
  <2>1. Proved(w) /\ req'[w] = req[w] /\ proof'[w] = proof[w]
    BY <1>2 DEF Proved
  <2>2. QED
    BY <2>1 DEF IndexInv, Observed
<1>3. QED
  BY <1>1, <1>2 DEF IndexInv

(* While one thread ingests, the number of lines it read is the number of
   lines it appends to, and the first line of its Observation has the index
   that is its place. *)
LEMMA IndexStep ==
    ASSUME OneThread, TypeOK, IndexInv, [Next]_vars
    PROVE  IndexInv'
<1> USE DEF At, GoTo, files, tables, locals, history
<1>1. ASSUME NEW w \in Worker, NEW e \in Envelope,
             AnswerAtOnce(w, e) \/ Receive(w, e)
      PROVE  IndexInv'
  BY <1>1, IndexKept DEF AnswerAtOnce, Receive, TypeOK, Proved
<1>2. ASSUME NEW w \in Worker,
             RequireTimestamp(w) \/ UnreadableLog(w) \/ RollBackSave(w)
                \/ RecordConflicts(w) \/ RollBackConflicts(w) \/ Fail(w)
      PROVE  IndexInv'
  BY <1>2, IndexKept
  DEF RequireTimestamp, UnreadableLog, RollBackSave, RecordConflicts,
      RollBackConflicts, Fail, Finish, TypeOK, Proved
<1>3. ASSUME NEW w \in Worker,
             PassPriors(w) \/ OpenArchive(w) \/ WriteArchive(w)
      PROVE  IndexInv'
  BY <1>3, IndexKept DEF PassPriors, OpenArchive, WriteArchive, TypeOK, Proved
<1>4. ASSUME NEW w \in Worker, ReadLog(w)
      PROVE  IndexInv'
  <2>1. /\ UNCHANGED <<entries, logEntries, req, proof>>
        /\ leafIndex'[w] = Len(entries)
        /\ pc' = [pc EXCEPT ![w] = "write_log"] /\ pc[w] = "read_log"
    BY <1>4 DEF ReadLog, NextLeafIndex, TypeOK
  <2>2. \A v \in Worker : ~ Proved(v)'
    BY <2>1, OnlyThread DEF Proved, TypeOK
  <2>3. \A v \in Worker : leafIndex'[v] = Len(entries')
    BY <2>1, OnlyThread
  <2>4. QED
    BY <2>1, <2>2, <2>3 DEF IndexInv, ProofVerifies
<1>5. ASSUME NEW w \in Worker, WriteLog(w)
      PROVE  IndexInv'
  <2>1. /\ entries' = Append(entries, NewLine(w)) /\ UNCHANGED logEntries
        /\ pc[w] = "write_log" /\ pc' = [pc EXCEPT ![w] = "prove"]
    BY <1>5 DEF WriteLog, LogAppended
  <2>2. \A v \in Worker : ~ Proved(v)' /\ pc'[v] # "write_log"
    BY <2>1, OnlyThread DEF Proved, TypeOK
  <2>3. NewLine(w).leaf_index = Len(entries)
    BY <2>1 DEF NewLine, IndexInv
  <2>4. \A i \in 1 .. Len(entries') : entries'[i].leaf_index = i - 1
    BY <2>1, <2>3, AppendedLines DEF IndexInv
  <2>5. ASSUME NEW r \in logEntries
        PROVE  r.leaf_index < Len(entries') /\ ProofVerifies(r)'
    <3>1. r.leaf_index \in Nat /\ r.leaf_index < Len(entries)
      BY DEF TypeOK, LogEntry, IndexInv
    <3>2. entries'[r.leaf_index + 1] = entries[r.leaf_index + 1]
      BY <2>1, <3>1, AppendedLines
    <3>3. QED
      BY <2>1, <3>1, <3>2, AppendedLines DEF IndexInv, ProofVerifies
  <2>6. QED
    BY <2>1, <2>2, <2>4, <2>5 DEF IndexInv
<1>6. ASSUME NEW w \in Worker, Prove(w)
      PROVE  IndexInv'
  <2>1. /\ UNCHANGED <<entries, logEntries, req>>
        /\ pc[w] = "prove" /\ pc' = [pc EXCEPT ![w] = "save"]
    BY <1>6 DEF Prove
  <2>2. PICK i \in DOMAIN entries :
           /\ IsFirstLine(i, Observed(w))
           /\ proof' = [proof EXCEPT ![w] =
                           [leaf_index |-> entries[i].leaf_index,
                            tree_size |-> Len(entries)]]
    BY <1>6 DEF Prove
  <2>3. Len(entries) \in Nat /\ i \in 1 .. Len(entries)
    <3>1. entries \in Seq(LogLine)
      BY DEF TypeOK
    <3>2. QED
      BY <3>1
  <2>4. proof'[w].leaf_index = i - 1
    BY <2>2, <2>3 DEF IndexInv, TypeOK
  <2>5. \A v \in Worker : pc'[v] # "write_log"
    BY <2>1, OnlyThread DEF TypeOK
  <2>6. \A v \in Worker :
           /\ proof'[v].leaf_index < Len(entries')
           /\ entries'[proof'[v].leaf_index + 1].observation = Observed(v)'
    <3>1. entries[i].observation = Observed(w)
      BY <2>2 DEF IsFirstLine
    <3>2. /\ proof'[w].leaf_index < Len(entries')
          /\ entries'[proof'[w].leaf_index + 1].observation = Observed(w)'
      BY <2>1, <2>3, <2>4, <3>1 DEF Observed
    <3>3. QED
      BY <3>2, OnlyThread
  <2>7. QED
    BY <2>1, <2>5, <2>6 DEF IndexInv, ProofVerifies
<1>7. ASSUME NEW w \in Worker,
             FindParties(w) \/ FindObservation(w) \/ SkipSave(w)
                \/ ReadSiblings(w) \/ ReadPairs(w)
      PROVE  IndexInv'
  BY <1>7, IndexKept
  DEF FindParties, FindObservation, SkipSave, ReadSiblings, ReadPairs, TypeOK, Proved
<1>8. ASSUME NEW w \in Worker, CommitSave(w)
      PROVE  IndexInv'
  <2> DEFINE row == [observation |-> Observed(w),
                     leaf_index |-> proof[w].leaf_index,
                     tree_size |-> proof[w].tree_size]
  <2>1. /\ UNCHANGED <<entries, req, proof, leafIndex>>
        /\ pc[w] = "commit" /\ pc' = [pc EXCEPT ![w] = "siblings"]
        /\ logEntries' = logEntries \cup {row}
    BY <1>8 DEF CommitSave
  <2>2. \A v \in Worker : ~ Proved(v)' /\ pc'[v] # "write_log"
    BY <2>1, OnlyThread DEF Proved, TypeOK
  <2>3. row.leaf_index < Len(entries) /\ ProofVerifies(row)
    BY <2>1 DEF IndexInv, Proved, ProofVerifies
  <2> HIDE DEF row
  <2>4. \A r : ProofVerifies(r)' <=> ProofVerifies(r)
    BY <2>1 DEF ProofVerifies
  <2>5. QED
    BY <2>1, <2>2, <2>3, <2>4 DEF IndexInv
<1>9. CASE Restart
  BY <1>9, IndexKept DEF Restart, TypeOK, Proved
<1>10. CASE UNCHANGED vars
  BY <1>10, IndexKept DEF vars, Proved
<1>11. QED
  BY <1>1, <1>2, <1>3, <1>4, <1>5, <1>6, <1>7, <1>8, <1>9, <1>10
  DEF Next, Step, Exhausted

(* A step that writes no archive and stores nothing, and after which no thread
   is further on than before, keeps WholeInv. *)
LEMMA WholeKept ==
    ASSUME WholeInv,
           UNCHANGED <<blobs, stored>>,
           \A w \in Worker : Unsaved(w)' => Unsaved(w) /\ req'[w] = req[w],
           \A w \in Worker : Written(w)' => Written(w) /\ req'[w] = req[w]
    PROVE  WholeInv'
<1>1. ASSUME NEW w \in Worker, Unsaved(w)'
      PROVE  Observed(w)' \notin stored'
  <2>1. Unsaved(w) /\ req'[w] = req[w]
    BY <1>1 DEF Unsaved, Archived
  <2>2. QED
    BY <2>1 DEF WholeInv, Observed
<1>2. ASSUME NEW w \in Worker, Written(w)'
      PROVE  blobs'[archiveOf[Observed(w)']] = "whole"
  <2>1. Written(w) /\ req'[w] = req[w]
    BY <1>2 DEF Written
  <2>2. QED
    BY <2>1 DEF WholeInv, Observed
<1>3. QED
  BY <1>1, <1>2 DEF WholeInv

(* Until the commit the thread's Observation is not stored, and its archive
   file, which no other Observation has, is complete by then. *)
LEMMA WholeStep ==
    ASSUME OneThread, OwnArchives, TypeOK, StoreInv, WholeInv, [Next]_vars
    PROVE  WholeInv'
<1> USE DEF At, GoTo, files, tables, locals, history, Unsaved, Written, Archived
<1>1. ASSUME NEW w \in Worker, NEW e \in Envelope,
             AnswerAtOnce(w, e) \/ Receive(w, e)
      PROVE  WholeInv'
  <2>1. CASE AnswerAtOnce(w, e)
    BY <2>1, WholeKept DEF AnswerAtOnce
  <2>2. CASE Receive(w, e)
    <3>1. /\ UNCHANGED <<blobs, stored>>
          /\ req'[w] = e /\ e.observation \notin stored /\ pc'[w] = "priors"
      BY <2>2 DEF Receive, Known, TypeOK
    <3>2. \A v \in Worker : ~ Written(v)' /\ Observed(v)' \notin stored'
      BY <3>1, OnlyThread DEF Observed
    <3>3. QED
      BY <3>1, <3>2 DEF WholeInv
  <2>3. QED
    BY <1>1, <2>1, <2>2
<1>2. ASSUME NEW w \in Worker,
             RequireTimestamp(w) \/ UnreadableLog(w) \/ RollBackSave(w)
                \/ RecordConflicts(w) \/ RollBackConflicts(w) \/ Fail(w)
      PROVE  WholeInv'
  BY <1>2, WholeKept
  DEF RequireTimestamp, UnreadableLog, RollBackSave, RecordConflicts,
      RollBackConflicts, Fail, Finish, TypeOK
<1>3. ASSUME NEW w \in Worker, PassPriors(w) \/ ReadLog(w) \/ WriteLog(w)
      PROVE  WholeInv'
  BY <1>3, WholeKept DEF PassPriors, ReadLog, WriteLog, TypeOK
<1>4. ASSUME NEW w \in Worker, OpenArchive(w) \/ WriteArchive(w)
      PROVE  WholeInv'
  <2>1. /\ UNCHANGED <<req, stored>> /\ pc[w] \in {"open_archive", "write_archive"}
        /\ \E x : blobs' = [blobs EXCEPT ![archiveOf[Observed(w)]] = x]
    BY <1>4 DEF OpenArchive, WriteArchive
  <2>2. Observed(w) \in Observation /\ archiveOf[Observed(w)] \in Archive
    BY NewLineType, ObservationAssumption
  <2>3. Observed(w) \notin stored
    BY <2>1 DEF WholeInv
  <2>4. \A o \in stored : o \in Observation /\ archiveOf[o] # archiveOf[Observed(w)]
    BY <2>2, <2>3 DEF OwnArchives, TypeOK
  <2>5. \A o \in stored : blobs'[archiveOf[o]] = "whole"
    BY <2>1, <2>4 DEF WholeInv, TypeOK
  <2>6. \A v \in Worker : Observed(v)' \notin stored'
    BY <2>1, <2>3, OnlyThread DEF Observed
  <2>7. \A v \in Worker : Written(v)' => blobs'[archiveOf[Observed(v)']] = "whole"
    <3>1. CASE OpenArchive(w)
      BY <3>1, OnlyThread DEF OpenArchive, TypeOK
    <3>2. CASE WriteArchive(w)
      <4>1. req[w].bound
        BY <3>2 DEF WriteArchive, StoreInv, Verified
      <4>2. blobs'[archiveOf[Observed(w)]] = "whole"
        BY <2>2, <3>2, <4>1 DEF WriteArchive, TypeOK
      <4>3. QED
        BY <2>1, <4>2, OnlyThread DEF Observed
    <3>3. QED
      BY <1>4, <3>1, <3>2
  <2>8. QED
    BY <2>1, <2>5, <2>6, <2>7 DEF WholeInv
<1>5. ASSUME NEW w \in Worker,
             Prove(w) \/ FindParties(w) \/ FindObservation(w) \/ SkipSave(w)
                \/ ReadSiblings(w) \/ ReadPairs(w)
      PROVE  WholeInv'
  BY <1>5, WholeKept
  DEF Prove, FindParties, FindObservation, SkipSave, ReadSiblings, ReadPairs, TypeOK
<1>6. ASSUME NEW w \in Worker, CommitSave(w)
      PROVE  WholeInv'
  <2>1. /\ UNCHANGED <<blobs, req>>
        /\ pc[w] = "commit" /\ pc' = [pc EXCEPT ![w] = "siblings"]
        /\ stored' = stored \cup {Observed(w)}
    BY <1>6 DEF CommitSave
  <2>2. \A v \in Worker : ~ Unsaved(v)' /\ ~ Written(v)'
    BY <2>1, OnlyThread DEF TypeOK
  <2>3. blobs[archiveOf[Observed(w)]] = "whole"
    BY <2>1 DEF WholeInv
  <2>4. QED
    BY <2>1, <2>2, <2>3 DEF WholeInv
<1>7. CASE Restart
  BY <1>7, WholeKept DEF Restart, TypeOK
<1>8. CASE UNCHANGED vars
  BY <1>8, WholeKept DEF vars
<1>9. QED
  BY <1>1, <1>2, <1>3, <1>4, <1>5, <1>6, <1>7, <1>8 DEF Next, Step, Exhausted

(* One thread at a time, each Observation with an archive of its own: the node
   never reports a stored Observation INVALID, whatever fails. *)
THEOREM StoredVerifies ==
    ASSUME OneThread, OwnArchives
    PROVE  Spec => []StoredVerify
<1>1. Init => IndexInv /\ WholeInv
  BY DEF Init, IndexInv, WholeInv, Proved, Unsaved, Archived, Written
<1>2. TypeOK /\ StoreInv /\ IndexInv /\ WholeInv /\ [Next]_vars
         => IndexInv' /\ WholeInv'
  BY IndexStep, WholeStep
<1>3. IndexInv /\ WholeInv => StoredVerify
  BY DEF IndexInv, WholeInv, StoredVerify, VerifiesValid
<1>4. QED
  BY <1>1, <1>2, <1>3, TypeCorrect, StoreCorrect, PTL DEF Spec

(* Nothing happens to the tables between what the session of save_observation
   finds missing and its commit. *)
LEMMA MissingStep ==
    ASSUME OneThread, TypeOK, MissingInv, [Next]_vars
    PROVE  MissingInv'
<1> USE DEF At, GoTo, files, tables, locals, history
<1>1. ASSUME NEW w \in Worker, pc'[w] \notin {"find", "commit"}
      PROVE  MissingInv'
  <2>1. \A v \in Worker : pc'[v] \notin {"find", "commit"}
    BY <1>1, OnlyThread
  <2>2. QED
    BY <2>1 DEF MissingInv
<1>2. ASSUME NEW w \in Worker, NEW e \in Envelope, AnswerAtOnce(w, e)
      PROVE  MissingInv'
  BY <1>1, <1>2 DEF AnswerAtOnce
<1>3. ASSUME NEW w \in Worker, NEW e \in Envelope, Receive(w, e)
      PROVE  MissingInv'
  BY <1>1, <1>3 DEF Receive, TypeOK
<1>4. ASSUME NEW w \in Worker, FindParties(w)
      PROVE  MissingInv'
  <2>1. /\ UNCHANGED <<req, objects, observers>>
        /\ pc'[w] = "find"
        /\ missing'[w] =
              {t \in {"object", "observer"} :
                 \/ t = "object" /\ objectOf[Observed(w)] \notin objects
                 \/ t = "observer" /\ observerOf[Observed(w)] \notin observers}
    BY <1>4 DEF FindParties, TypeOK
  <2>2. /\ "object" \in missing'[w] => objectOf[Observed(w)] \notin objects
        /\ "observer" \in missing'[w] => observerOf[Observed(w)] \notin observers
        /\ "observation" \notin missing'[w]
    BY <2>1
  <2>3. QED
    BY <2>1, <2>2, OnlyThread DEF MissingInv, Observed
<1>5. ASSUME NEW w \in Worker, FindObservation(w)
      PROVE  MissingInv'
  <2>1. /\ UNCHANGED <<req, objects, observers, stored>>
        /\ pc[w] = "find" /\ pc'[w] = "commit"
        /\ missing'[w] =
              missing[w] \cup {t \in {"observation"} : Observed(w) \notin stored}
    BY <1>5 DEF FindObservation, TypeOK
  <2>2. /\ "object" \in missing[w] => objectOf[Observed(w)] \notin objects
        /\ "observer" \in missing[w] => observerOf[Observed(w)] \notin observers
        /\ "observation" \in missing[w] => Observed(w) \notin stored
    BY <2>1 DEF MissingInv
  <2>3. /\ "object" \in missing'[w] => objectOf[Observed(w)] \notin objects
        /\ "observer" \in missing'[w] => observerOf[Observed(w)] \notin observers
        /\ "observation" \in missing'[w] => Observed(w) \notin stored
    BY <2>1, <2>2
  <2>4. QED
    BY <2>1, <2>3, OnlyThread DEF MissingInv, Observed
<1>6. ASSUME NEW w \in Worker, Step(w) \/ Fail(w),
             ~ FindParties(w), ~ FindObservation(w)
      PROVE  MissingInv'
  <2>1. pc'[w] \notin {"find", "commit"}
    BY <1>6
    DEF Step, RequireTimestamp, PassPriors, OpenArchive, WriteArchive, ReadLog,
        WriteLog, Prove, UnreadableLog, SkipSave, CommitSave, RollBackSave, ReadSiblings,
        ReadPairs, RecordConflicts, RollBackConflicts, Fail, Finish, TypeOK
  <2>2. QED
    BY <1>1, <2>1
<1>7. CASE Restart
  BY <1>7 DEF Restart, MissingInv
<1>8. CASE UNCHANGED vars
  BY <1>8 DEF vars, MissingInv, Observed
<1>9. QED
  BY <1>2, <1>3, <1>4, <1>5, <1>6, <1>7, <1>8 DEF Next, Exhausted

(* The rows of objects stay, so an Object that cannot be stored never can. *)
LEMMA UrlStaysTaken ==
    ASSUME NEW o, UrlTaken(o), objects \subseteq objects'
    PROVE  \E x \in objects' : x # objectOf[o] /\ urlOf[x] = urlOf[objectOf[o]]
BY DEF UrlTaken

(* A step that writes no line, keeps the rows and ends no save keeps what
   LoggedInv says of each line. *)
LEMMA LoggedKept ==
    ASSUME LoggedInv, failures = 0,
           UNCHANGED entries,
           stored \subseteq stored', objects \subseteq objects',
           \A w \in Worker : Saving(w) =>
              Saving(w)' /\ req'[w] = req[w]
    PROVE  LoggedInv'
<1> SUFFICES ASSUME NEW i \in 1 .. Len(entries)
             PROVE  \/ entries[i].observation \in stored'
                    \/ UrlTaken(entries[i].observation)'
                    \/ \E w \in Worker : Saving(w)' /\ Observed(w)' = entries[i].observation
  BY DEF LoggedInv, UrlTaken
<1>1. CASE entries[i].observation \in stored
  BY <1>1
<1>2. CASE UrlTaken(entries[i].observation)
  BY <1>2, UrlStaysTaken DEF UrlTaken
<1>3. ASSUME NEW w \in Worker, Saving(w), Observed(w) = entries[i].observation
      PROVE  Saving(w)' /\ Observed(w)' = entries[i].observation
  <2>1. Saving(w)' /\ req'[w] = req[w]
    BY <1>3
  <2>2. QED
    BY <1>3, <2>1 DEF Observed
<1>4. QED
  BY <1>1, <1>2, <1>3 DEF LoggedInv

(* What the one thread had to save is stored now, or cannot be. *)
LEMMA SavedOrRefused ==
    ASSUME OneThread, LoggedInv, failures = 0, NEW w \in Worker,
           UNCHANGED entries,
           stored \subseteq stored', objects \subseteq objects',
           Observed(w) \in stored' \/ UrlTaken(Observed(w))
    PROVE  LoggedInv'
<1> SUFFICES ASSUME NEW i \in 1 .. Len(entries)
             PROVE  \/ entries[i].observation \in stored'
                    \/ UrlTaken(entries[i].observation)'
  BY DEF LoggedInv, UrlTaken
<1>1. CASE entries[i].observation \in stored
  BY <1>1
<1>2. CASE UrlTaken(entries[i].observation)
  BY <1>2, UrlStaysTaken DEF UrlTaken
<1>3. CASE entries[i].observation = Observed(w)
  BY <1>3, UrlStaysTaken DEF UrlTaken
<1>4. QED
  BY <1>1, <1>2, <1>3, OnlyThread DEF LoggedInv

LEMMA WholeLinesStep ==
    ASSUME TypeOK, WholeLines, [Next]_vars
    PROVE  WholeLines'
<1> SUFFICES ASSUME failures' = 0
             PROVE  logFile' = "whole"
  BY DEF WholeLines
<1> USE DEF files, tables, history
<1>1. ASSUME NEW w \in Worker, Step(w)
      PROVE  UNCHANGED <<logFile, failures>>
  BY <1>1
  DEF Step, RequireTimestamp, PassPriors, OpenArchive, WriteArchive, ReadLog,
      WriteLog, Prove, UnreadableLog, FindParties, FindObservation, SkipSave,
      CommitSave, RollBackSave, ReadSiblings, ReadPairs, RecordConflicts,
      RollBackConflicts
<1>2. ASSUME NEW w \in Worker, NEW e \in Envelope,
             AnswerAtOnce(w, e) \/ Receive(w, e)
      PROVE  UNCHANGED <<logFile, failures>>
  BY <1>2 DEF AnswerAtOnce, Receive
<1>3. ASSUME NEW w \in Worker, Fail(w)
      PROVE  FALSE
  BY <1>3, BoundsAssumption DEF Fail, TypeOK
<1>4. ASSUME Restart
      PROVE  FALSE
  BY <1>4, BoundsAssumption DEF Restart, TypeOK
<1>5. QED
  BY <1>1, <1>2, <1>3, <1>4 DEF Next, Exhausted, vars, WholeLines

(* Without failures, the only thread takes its line of the log to the database,
   unless the canonical URL stands against it. *)
LEMMA LoggedStep ==
    ASSUME OneThread, TypeOK, StoreInv, MissingInv, WholeLines, LoggedInv, [Next]_vars
    PROVE  LoggedInv'
<1> SUFFICES ASSUME failures' = 0
             PROVE  LoggedInv'
  BY DEF LoggedInv
<1> USE DEF At, GoTo, files, tables, locals, history
<1>1. ASSUME NEW w \in Worker, NEW e \in Envelope,
             AnswerAtOnce(w, e) \/ Receive(w, e)
      PROVE  LoggedInv'
  BY <1>1, LoggedKept DEF AnswerAtOnce, Receive, TypeOK, Saving, Proved
<1>2. ASSUME NEW w \in Worker,
             RequireTimestamp(w) \/ RecordConflicts(w) \/ RollBackConflicts(w)
      PROVE  LoggedInv'
  BY <1>2, LoggedKept
  DEF RequireTimestamp, RecordConflicts, RollBackConflicts, Finish, TypeOK,
      Saving, Proved
<1>3. ASSUME NEW w \in Worker,
             PassPriors(w) \/ OpenArchive(w) \/ WriteArchive(w) \/ ReadLog(w)
      PROVE  LoggedInv'
  BY <1>3, LoggedKept
  DEF PassPriors, OpenArchive, WriteArchive, ReadLog, TypeOK, Saving, Proved
<1>4. ASSUME NEW w \in Worker, WriteLog(w)
      PROVE  LoggedInv'
  <2>1. /\ entries' = Append(entries, NewLine(w))
        /\ UNCHANGED <<stored, objects, req, failures>>
        /\ pc[w] = "write_log" /\ pc' = [pc EXCEPT ![w] = "prove"]
    BY <1>4 DEF WriteLog, LogAppended
  <2>2. \A i \in 1 .. Len(entries) :
           entries[i].observation \in stored \/ UrlTaken(entries[i].observation)
    BY <2>1, OnlyThread DEF LoggedInv, Saving, Proved
  <2>3. Saving(w)' /\ Observed(w)' = NewLine(w).observation
    BY <2>1 DEF Saving, NewLine, Observed, TypeOK
  <2>4. ASSUME NEW i \in 1 .. Len(entries')
        PROVE  (\/ entries[i].observation \in stored
                \/ UrlTaken(entries[i].observation)
                \/ Observed(w) = entries[i].observation)'
    <3>1. CASE i \in 1 .. Len(entries)
      <4>1. entries'[i] = entries[i]
        BY <2>1, <3>1, AppendedLines
      <4>2. entries[i].observation \in stored \/ UrlTaken(entries[i].observation)
        BY <2>2, <3>1
      <4>3. QED
        BY <2>1, <4>1, <4>2 DEF UrlTaken
    <3>2. CASE i = Len(entries) + 1
      BY <2>1, <2>3, <3>2, AppendedLines
    <3>3. QED
      BY <2>1, <3>1, <3>2, AppendedLines
  <2>5. QED
    BY <2>3, <2>4 DEF LoggedInv
<1>5. ASSUME NEW w \in Worker,
             Prove(w) \/ FindParties(w) \/ FindObservation(w)
      PROVE  LoggedInv'
  BY <1>5, LoggedKept DEF Prove, FindParties, FindObservation, TypeOK, Saving, Proved
<1>6. ASSUME NEW w \in Worker, SkipSave(w)
      PROVE  LoggedInv'
  <2>1. Observed(w) \in stored
    BY <1>6 DEF SkipSave, StoreInv
  <2>2. QED
    BY <1>6, <2>1, SavedOrRefused DEF SkipSave
<1>7. ASSUME NEW w \in Worker, CommitSave(w)
      PROVE  LoggedInv'
  BY <1>7, SavedOrRefused DEF CommitSave
<1>8. ASSUME NEW w \in Worker, RollBackSave(w)
      PROVE  LoggedInv'
  <2>1. /\ pc[w] = "commit" /\ ~ KeysFree(w)
        /\ UNCHANGED <<entries, stored, objects, failures>>
    BY <1>8 DEF RollBackSave
  <2>2. UrlTaken(Observed(w))
    BY <2>1 DEF KeysFree, MissingInv, UrlTaken
  <2>3. QED
    BY <2>1, <2>2, SavedOrRefused
<1>9. ASSUME NEW w \in Worker, ReadSiblings(w) \/ ReadPairs(w)
      PROVE  LoggedInv'
  BY <1>9, LoggedKept DEF ReadSiblings, ReadPairs, TypeOK, Saving, Proved
<1>10. ASSUME NEW w \in Worker, Fail(w)
       PROVE  FALSE
  BY <1>10, BoundsAssumption DEF Fail, TypeOK
<1>11. ASSUME Restart
       PROVE  FALSE
  BY <1>11, BoundsAssumption DEF Restart, TypeOK
<1>12. ASSUME NEW w \in Worker, UnreadableLog(w)
       PROVE  FALSE
  BY <1>12 DEF UnreadableLog, WholeLines
<1>13. CASE UNCHANGED vars
  BY <1>13, LoggedKept DEF vars, Saving, Proved
<1>14. QED
  BY <1>1, <1>2, <1>3, <1>4, <1>5, <1>6, <1>7, <1>8, <1>9, <1>10, <1>11, <1>12,
     <1>13
  DEF Next, Step, Exhausted

(* One thread at a time and no failure: whenever no ingest is under way, each
   line of the log is that of a stored Observation, or of one whose Object
   cannot be stored. *)
THEOREM CleanLogStored ==
    ASSUME OneThread
    PROVE  Spec => []CleanLogIsStored
<1>1. Init => MissingInv /\ WholeLines /\ LoggedInv
  BY DEF Init, MissingInv, WholeLines, LoggedInv
<1>2. TypeOK /\ StoreInv /\ MissingInv /\ WholeLines /\ LoggedInv /\ [Next]_vars
         => MissingInv' /\ WholeLines' /\ LoggedInv'
  BY MissingStep, WholeLinesStep, LoggedStep
<1>3. TypeOK /\ LoggedInv => CleanLogIsStored
  <2> SUFFICES ASSUME TypeOK, LoggedInv, failures = 0,
                      \A w \in Worker : pc[w] = "idle",
                      NEW i \in DOMAIN entries
               PROVE  \/ entries[i].observation \in stored
                      \/ UrlTaken(entries[i].observation)
    BY DEF CleanLogIsStored, At
  <2>1. entries \in Seq(LogLine)
    BY DEF TypeOK
  <2>2. i \in 1 .. Len(entries)
    BY <2>1
  <2>3. \A w \in Worker : ~ Saving(w)
    BY DEF Saving, Proved
  <2>4. QED
    BY <2>2, <2>3 DEF LoggedInv
<1>4. QED
  BY <1>1, <1>2, <1>3, TypeCorrect, StoreCorrect, PTL DEF Spec

(* A step that stores and relates nothing, and after which the thread is not
   further on in record_conflicts than before, keeps RelatedInv. *)
LEMMA RelatedKept ==
    ASSUME RelatedInv,
           UNCHANGED <<stored, conflicts>>,
           \A w \in Worker : Linking(w)' =>
              Linking(w) /\ req'[w] = req[w] /\ siblings'[w] = siblings[w],
           \A w \in Worker : pc'[w] = "record" =>
              pc[w] = "record" /\ fresh'[w] = fresh[w],
           failures' = 0 => failures = 0,
           failures' = 0 =>
              \A w \in Worker : Relating(w) => Relating(w)' /\ req'[w] = req[w]
    PROVE  RelatedInv'
<1>1. \A x, y : HasRow(x, y)' <=> HasRow(x, y)
  BY DEF HasRow
<1>2. ASSUME NEW w \in Worker, Linking(w)'
      PROVE  (siblings[w] = SiblingsOf(Observed(w)))'
  <2>1. /\ Linking(w) /\ req'[w] = req[w] /\ siblings'[w] = siblings[w]
    BY <1>2 DEF Linking
  <2>2. QED
    BY <2>1 DEF RelatedInv, SiblingsOf, Observed
<1>3. ASSUME NEW w \in Worker, pc'[w] = "record"
      PROVE  (fresh[w] = {s \in siblings[w] : ~ HasRow(s, Observed(w))})'
  <2>1. /\ pc[w] = "record" /\ fresh'[w] = fresh[w] /\ Linking(w)'
        /\ req'[w] = req[w] /\ siblings'[w] = siblings[w]
    BY <1>3 DEF Linking
  <2>2. fresh[w] = {s \in siblings[w] : ~ HasRow(s, Observed(w))}
    BY <2>1 DEF RelatedInv
  <2>3. QED
    BY <2>1, <2>2 DEF HasRow, Observed
<1>4. ASSUME failures' = 0, NEW x \in stored', NEW y \in stored', SameObject(x, y)
      PROVE  \/ HasRow(x, y)'
             \/ \E w \in Worker : (Relating(w) /\ Observed(w) \in {x, y})'
  <2>1. \/ HasRow(x, y)
        \/ \E w \in Worker : Relating(w) /\ Observed(w) \in {x, y}
    BY <1>4 DEF RelatedInv
  <2>2. ASSUME NEW w \in Worker, Relating(w), Observed(w) \in {x, y}
        PROVE  (Relating(w) /\ Observed(w) \in {x, y})'
    <3>1. Relating(w)' /\ req'[w] = req[w]
      BY <1>4, <2>2
    <3>2. QED
      BY <2>2, <3>1 DEF Observed
  <2>3. QED
    BY <1>1, <2>1, <2>2
<1>5. QED
  BY <1>2, <1>3, <1>4 DEF RelatedInv

(* The only thread finds every sibling and every row there is. *)
LEMMA RelatedStep ==
    ASSUME OneThread, TypeOK, StoreInv, RelatedInv, [Next]_vars
    PROVE  RelatedInv'
<1> USE DEF At, GoTo, files, tables, locals, history
<1>1. ASSUME NEW w \in Worker, NEW e \in Envelope,
             AnswerAtOnce(w, e) \/ Receive(w, e)
      PROVE  RelatedInv'
  BY <1>1, RelatedKept DEF AnswerAtOnce, Receive, TypeOK, Relating, Linking
<1>2. ASSUME NEW w \in Worker, RequireTimestamp(w) \/ UnreadableLog(w) \/ RollBackSave(w)
      PROVE  RelatedInv'
  BY <1>2, RelatedKept
  DEF RequireTimestamp, UnreadableLog, RollBackSave, Finish, TypeOK, Relating, Linking
<1>3. ASSUME NEW w \in Worker,
             PassPriors(w) \/ OpenArchive(w) \/ WriteArchive(w) \/ ReadLog(w)
                \/ WriteLog(w)
      PROVE  RelatedInv'
  BY <1>3, RelatedKept
  DEF PassPriors, OpenArchive, WriteArchive, ReadLog, WriteLog, TypeOK,
      Relating, Linking
<1>4. ASSUME NEW w \in Worker,
             Prove(w) \/ FindParties(w) \/ FindObservation(w) \/ SkipSave(w)
      PROVE  RelatedInv'
  BY <1>4, RelatedKept
  DEF Prove, FindParties, FindObservation, SkipSave, TypeOK, Relating, Linking
<1>5. ASSUME NEW w \in Worker, CommitSave(w)
      PROVE  RelatedInv'
  <2>1. /\ UNCHANGED <<req, conflicts, failures>>
        /\ pc[w] = "commit" /\ pc' = [pc EXCEPT ![w] = "siblings"]
        /\ stored' = stored \cup {Observed(w)}
    BY <1>5 DEF CommitSave
  <2>2. \A v \in Worker : ~ Linking(v)' /\ pc'[v] # "record"
    BY <2>1, OnlyThread DEF Linking, TypeOK
  <2>3. Relating(w)' /\ Observed(w)' = Observed(w)
    BY <2>1 DEF Relating, Observed, TypeOK
  <2>4. \A v \in Worker : ~ Relating(v)
    BY <2>1, OnlyThread DEF Relating
  <2>5. failures' = 0 =>
          \A x, y \in stored' : SameObject(x, y) =>
             HasRow(x, y)' \/ Observed(w)' \in {x, y}
    BY <2>1, <2>3, <2>4 DEF RelatedInv, HasRow
  <2>6. QED
    BY <2>2, <2>3, <2>5 DEF RelatedInv
<1>6. ASSUME NEW w \in Worker, ReadSiblings(w)
      PROVE  RelatedInv'
  <2>1. /\ UNCHANGED <<req, stored, conflicts, failures>>
        /\ pc[w] = "siblings" /\ pc' = [pc EXCEPT ![w] = "pairs"]
        /\ siblings'[w] = SiblingsOf(Observed(w))
    BY <1>6 DEF ReadSiblings, TypeOK
  <2>2. \A v \in Worker : siblings'[v] = SiblingsOf(Observed(v))'
    BY <2>1, OnlyThread DEF SiblingsOf, Observed
  <2>3. \A v \in Worker : pc'[v] # "record"
    BY <2>1, OnlyThread DEF TypeOK
  <2>4. \A v \in Worker : Relating(v) => Relating(v)' /\ Observed(v)' = Observed(v)
    BY <2>1, OnlyThread DEF Relating, Observed, TypeOK
  <2>5. failures' = 0 =>
          \A x, y \in stored' : SameObject(x, y) =>
             \/ HasRow(x, y)'
             \/ \E v \in Worker : Relating(v)' /\ Observed(v)' \in {x, y}
    BY <2>1, <2>4 DEF RelatedInv, HasRow
  <2>6. QED
    BY <2>2, <2>3, <2>5 DEF RelatedInv
<1>7. ASSUME NEW w \in Worker, ReadPairs(w)
      PROVE  RelatedInv'
  <2>1. /\ UNCHANGED <<req, stored, conflicts, failures, siblings>>
        /\ pc[w] = "pairs" /\ pc' = [pc EXCEPT ![w] = "record"]
        /\ fresh'[w] = {s \in siblings[w] : ~ HasRow(s, Observed(w))}
    BY <1>7 DEF ReadPairs, TypeOK
  <2>2. siblings[w] = SiblingsOf(Observed(w))
    BY <2>1 DEF RelatedInv, Linking
  <2>3. \A v \in Worker : siblings'[v] = SiblingsOf(Observed(v))'
    BY <2>1, <2>2, OnlyThread DEF SiblingsOf, Observed
  <2>4. \A v \in Worker :
           fresh'[v] = {s \in siblings'[v] : ~ HasRow(s, Observed(v))'}
    BY <2>1, OnlyThread DEF HasRow, Observed
  <2>5. \A v \in Worker : Relating(v) => Relating(v)' /\ Observed(v)' = Observed(v)
    BY <2>1, OnlyThread DEF Relating, Observed, TypeOK
  <2>6. failures' = 0 =>
          \A x, y \in stored' : SameObject(x, y) =>
             \/ HasRow(x, y)'
             \/ \E v \in Worker : Relating(v)' /\ Observed(v)' \in {x, y}
    BY <2>1, <2>5 DEF RelatedInv, HasRow
  <2>7. QED
    BY <2>3, <2>4, <2>6 DEF RelatedInv
<1>8. ASSUME NEW w \in Worker, RecordConflicts(w)
      PROVE  RelatedInv'
  <2>1. /\ UNCHANGED <<stored, failures>>
        /\ pc[w] = "record" /\ pc' = [pc EXCEPT ![w] = "idle"]
        /\ conflicts' = conflicts \cup {ConflictRow(s, Observed(w)) : s \in fresh[w]}
    BY <1>8 DEF RecordConflicts, Finish
  <2>2. \A v \in Worker : ~ Linking(v)' /\ pc'[v] # "record"
    BY <2>1, OnlyThread DEF Linking, TypeOK
  <2>3. /\ Observed(w) \in stored
        /\ siblings[w] = SiblingsOf(Observed(w))
        /\ fresh[w] = {s \in siblings[w] : ~ HasRow(s, Observed(w))}
    BY <2>1 DEF StoreInv, Relating, RelatedInv, Linking
  <2>4. \A x, y : HasRow(x, y) => HasRow(x, y)'
    BY <2>1 DEF HasRow
  <2>5. ASSUME NEW s \in stored, SameObject(s, Observed(w))
        PROVE  \E r \in conflicts' : r.pair = {s, Observed(w)}
    <3>1. CASE s \in fresh[w]
      <4>1. ConflictRow(s, Observed(w)) \in conflicts'
        BY <2>1, <3>1
      <4>2. QED
        BY <4>1 DEF ConflictRow
    <3>2. CASE s \notin fresh[w]
      <4>1. HasRow(s, Observed(w))
        BY <2>3, <2>5, <3>2 DEF SiblingsOf
      <4>2. QED
        BY <2>1, <4>1 DEF HasRow
    <3>3. QED
      BY <3>1, <3>2
  <2>6. ASSUME failures' = 0, NEW x \in stored', NEW y \in stored', SameObject(x, y)
        PROVE  HasRow(x, y)'
    <3>1. x \in stored /\ y \in stored /\ failures = 0
      BY <2>1, <2>6
    <3>2. CASE HasRow(x, y)
      BY <2>4, <3>2
    <3>3. CASE Observed(w) = y
      BY <2>5, <2>6, <3>1, <3>3 DEF HasRow
    <3>4. CASE Observed(w) = x
      <4>1. SameObject(y, x)
        BY <2>6 DEF SameObject
      <4>2. \E r \in conflicts' : r.pair = {y, x}
        BY <2>5, <3>1, <3>4, <4>1
      <4>3. QED
        BY <4>2 DEF HasRow
    <3>5. QED
      BY <2>6, <3>1, <3>2, <3>3, <3>4, OnlyThread DEF RelatedInv
  <2>7. QED
    BY <2>2, <2>6 DEF RelatedInv
<1>9. ASSUME NEW w \in Worker, RollBackConflicts(w)
      PROVE  FALSE
  <2>1. fresh[w] = {s \in siblings[w] : ~ HasRow(s, Observed(w))}
    BY <1>9 DEF RollBackConflicts, RelatedInv
  <2>2. QED
    BY <1>9, <2>1 DEF RollBackConflicts
<1>10. ASSUME NEW w \in Worker, Fail(w)
       PROVE  RelatedInv'
  <2>1. failures' # 0
    BY <1>10, BoundsAssumption DEF Fail, TypeOK
  <2>2. QED
    BY <1>10, <2>1, RelatedKept DEF Fail, Finish, TypeOK, Linking
<1>11. CASE Restart
  <2>1. failures' # 0
    BY <1>11, BoundsAssumption DEF Restart, TypeOK
  <2>2. QED
    BY <1>11, <2>1, RelatedKept DEF Restart, TypeOK, Linking
<1>12. CASE UNCHANGED vars
  BY <1>12, RelatedKept DEF vars, Relating, Linking
<1>13. QED
  BY <1>1, <1>2, <1>3, <1>4, <1>5, <1>6, <1>7, <1>8, <1>9, <1>10, <1>11, <1>12
  DEF Next, Step, Exhausted

(* One thread at a time and no failure: whenever no ingest is under way, every
   two stored Observations of an Object are related. *)
THEOREM CleanGraphComplete ==
    ASSUME OneThread
    PROVE  Spec => []CleanGraphIsComplete
<1>1. Init => RelatedInv
  BY DEF Init, RelatedInv, Linking
<1>2. TypeOK /\ StoreInv /\ RelatedInv /\ [Next]_vars => RelatedInv'
  BY RelatedStep
<1>3. RelatedInv => CleanGraphIsComplete
  BY DEF RelatedInv, CleanGraphIsComplete, ConflictGraphComplete, At, Relating
<1>4. QED
  BY <1>1, <1>2, <1>3, TypeCorrect, StoreCorrect, PTL DEF Spec

=============================================================================
