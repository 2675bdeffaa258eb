------------------------ MODULE OperatorDemo_proofs ------------------------
(***************************************************************************)
(* Theorems about OperatorDemo, for any operators, keys, Observations and  *)
(* bounds.                                                                 *)
(***************************************************************************)
EXTENDS OperatorDemo, FiniteSetTheorems, TLAPS

(* The type invariant, by the groups of variables that change together. *)
KeyTypes ==
    /\ keyOf \in [Operator -> [FileName -> KeyFile]]
    /\ usedKeys \subseteq Key
    /\ cutInit \subseteq Operator

CustodyTypes ==
    /\ evidence \in [Operator -> [Observation -> Held]]
    /\ manifests \in [Operator -> SUBSET Observation]
    /\ receipts \in [Operator -> [Digest -> Status]]
    /\ cut \in [Operator -> SUBSET Observation]
    /\ swapped \in [Operator -> SUBSET Observation]
    /\ spoiled \subseteq Observation

TransportTypes ==
    /\ exports \in [Operator -> [Observation -> Digest]]
    /\ packages \in Seq(Package)

CommandTypes ==
    /\ pc \in [Operator -> Steps]
    /\ job \in [Operator -> Job]

OtherTypes ==
    /\ disturbances \in Nat
    /\ offline \subseteq Operator
    /\ captured \subseteq Observation
    /\ query \in Query
    /\ begun \in Nat
    /\ steady \subseteq Operator \X Observation

InitSteps == {"old_public", "private", "public", "identity", "descriptor"}
ImportSteps == {"verify", "discard", "retain", "retained", "receipt"}

(* What a command works on is set from its first step to its last. *)
JobsHold ==
    \A o \in Operator :
       /\ pc[o] \in {"bundle", "index", "zip"} \cup ImportSteps => job[o].observation \in Observation
       /\ pc[o] \in ImportSteps => job[o].source \in Operator

(* There is something to write into an export file that is open. *)
ZipHold ==
    \A o \in Operator : pc[o] = "zip" => evidence[o][job[o].observation].state # "absent"

TypeInv ==
    /\ KeyTypes /\ CustodyTypes /\ TransportTypes /\ CommandTypes /\ OtherTypes
    /\ JobsHold /\ ZipHold

LEMMA TypesAgree ==
    TypeOK <=> KeyTypes /\ CustodyTypes /\ TransportTypes /\ CommandTypes /\ OtherTypes
BY DEF TypeOK, KeyTypes, CustodyTypes, TransportTypes, CommandTypes, OtherTypes

LEMMA Digests2 == 
    /\ Missing \in Digest /\ Torn \in Digest
    /\ \A d \in 1 .. MaxPackages : d \in Digest
BY DemoAssumption DEF Missing, Torn, Digest

LEMMA NoJobType == NoJob \in Job
BY Digests2 DEF NoJob, Job

LEMMA HeldTypes ==
    /\ Absent \in Held /\ Partial \in Held
    /\ \A parts \in SUBSET Part : Whole(parts) \in Held /\ Bare(parts) \in Held
    /\ \A held \in Held : WithoutEvidence(held) \in Held
BY DEF Absent, Partial, Bare, Whole, WithoutEvidence, Held

LEMMA LeftoverTypes ==
    ASSUME NEW o \in Operator, NEW held \in Held
    PROVE  Leftovers(o, held) \subseteq Held
<1>1. Bare({}) \in Held /\ WithoutEvidence(held) \in Held
  BY HeldTypes
<1>2. QED
  BY <1>1, HeldTypes DEF Leftovers

(* What is read of a bundle that is there can be put into a package. *)
LEMMA ReadingTypes ==
    ASSUME NEW held \in Held, held.state # "absent", NEW reading \in Readings(held)
    PROVE  reading.state \in Complete /\ reading.changed \subseteq Part
<1>1. CASE held.state = "partial"
  BY <1>1 DEF Readings, Bare, Whole, Complete, Part
<1>2. CASE held.state # "partial"
  BY <1>2 DEF Readings, Held, Complete
<1>3. QED
  BY <1>1, <1>2

-----------------------------------------------------------------------------
(* Which commands touch which variables *)

LEMMA KeysWritten ==
    ASSUME NEW o \in Operator,
           CaptureCommand(o) \/ ExportCommand(o) \/ ImportCommand(o) \/ HistoryCommand
    PROVE  UNCHANGED keyFiles
<1>1. CASE CaptureCommand(o)
  BY <1>1 DEF CaptureCommand, Capture, WriteBundle, IndexCapture
<1>2. CASE ExportCommand(o)
  BY <1>2 DEF ExportCommand, OpenExport, WriteExport
<1>3. CASE ImportCommand(o)
  BY <1>3 DEF ImportCommand, ReadDigest, Verify, Refuse, Discard, Retain, IndexImport,
              Accept, FailImport
<1>4. CASE HistoryCommand
  BY <1>4 DEF HistoryCommand, Ask, VisitUnavailable, VisitFails, Visit, AnswerQuery
<1>5. QED
  BY <1>1, <1>2, <1>3, <1>4

LEMMA HistoryReads ==
    ASSUME HistoryCommand
    PROVE  UNCHANGED <<keyFiles, custody, transport, command, disturbances, offline, captured>>
BY DEF HistoryCommand, Ask, VisitUnavailable, VisitFails, Visit, AnswerQuery

LEMMA InitCustody ==
    ASSUME NEW o \in Operator, InitCommand(o)
    PROVE  UNCHANGED <<custody, transport, surroundings>>
BY DEF InitCommand, BeginInit, BeginRotation, RemovePublicKey, WritePrivateKey,
       WritePublicKey, WriteIdentity, WriteFile, WriteDescriptor

LEMMA TransportWritten ==
    ASSUME NEW o \in Operator, CaptureCommand(o) \/ ImportCommand(o)
    PROVE  UNCHANGED transport
<1>1. CASE CaptureCommand(o)
  BY <1>1 DEF CaptureCommand, Capture, WriteBundle, IndexCapture
<1>2. CASE ImportCommand(o)
  BY <1>2 DEF ImportCommand, ReadDigest, Verify, Refuse, Discard, Retain, IndexImport,
              Accept, FailImport
<1>3. QED
  BY <1>1, <1>2

LEMMA ExportCustody ==
    ASSUME NEW o \in Operator, ExportCommand(o)
    PROVE  UNCHANGED <<custody, surroundings>>
BY DEF ExportCommand, OpenExport, WriteExport

-----------------------------------------------------------------------------
(* Types *)

LEMMA InitTyped == Init => TypeInv
<1>1. Init => KeyTypes
  BY DEF Init, KeyTypes, KeyFile
<1>2. Init => CustodyTypes
  BY HeldTypes DEF Init, CustodyTypes, Status
<1>3. Init => TransportTypes
  BY Digests2 DEF Init, TransportTypes
<1>4. Init => CommandTypes /\ JobsHold /\ ZipHold
  BY NoJobType DEF Init, CommandTypes, Steps, JobsHold, ImportSteps, ZipHold
<1>5. Init => OtherTypes
  BY DEF Init, OtherTypes, NoQuery, Asked, Query
<1>6. QED
  BY <1>1, <1>2, <1>3, <1>4, <1>5 DEF TypeInv

LEMMA KeysTyped == TypeInv /\ [Next]_vars => KeyTypes'
<1> SUFFICES ASSUME TypeInv, [Next]_vars
             PROVE  KeyTypes'
  OBVIOUS
<1> USE DEF KeyTypes
<1>1. KeyTypes
  BY DEF TypeInv
<1>2. UNCHANGED keyFiles => KeyTypes'
  BY <1>1 DEF keyFiles
<1>3. ASSUME NEW o \in Operator, InitCommand(o)
      PROVE  KeyTypes'
  <2>1. CASE BeginInit(o)
    BY <1>2, <2>1 DEF BeginInit
  <2>2. CASE BeginRotation(o) \/ RemovePublicKey(o)
    BY <1>1, <2>2 DEF BeginRotation, RemovePublicKey, Remove, KeyFile, FileName
  <2>3. CASE WritePrivateKey(o)
    BY <1>1, <2>3 DEF WritePrivateKey, KeyFile, FileName
  <2>4. CASE WritePublicKey(o) \/ WriteIdentity(o)
    BY <1>1, <2>4 DEF WritePublicKey, WriteIdentity, WriteFile, FileName
  <2>5. CASE WriteDescriptor(o)
    BY <1>1, <2>5 DEF WriteDescriptor, NewDescriptor, FileName
  <2>6. QED
    BY <1>3, <2>1, <2>2, <2>3, <2>4, <2>5 DEF InitCommand
<1>4. ASSUME NEW o \in Operator, Disturbance(o)
      PROVE  KeyTypes'
  <2>1. CASE Stop(o)
    <3>1. usedKeys' = usedKeys /\ cutInit' \subseteq Operator
      BY <1>1, <2>1 DEF Stop, CutOffKeys
    <3>2. keyOf' \in [Operator -> [FileName -> KeyFile]]
      BY <1>1, <2>1 DEF Stop, CutOffKeys, KeyFile
    <3>3. QED
      BY <1>1, <3>1, <3>2
  <2>2. CASE ~ Stop(o)
    BY <1>2, <1>4, <2>2 DEF Disturbance, SetAvailability, Lose, Damage
  <2>3. QED
    BY <2>1, <2>2
<1>5. ASSUME NEW o \in Operator, CaptureCommand(o) \/ ExportCommand(o) \/ ImportCommand(o)
      PROVE  KeyTypes'
  BY <1>2, <1>5, KeysWritten
<1>6. CASE HistoryCommand
  BY <1>2, <1>6, HistoryReads
<1>7. CASE UNCHANGED vars
  BY <1>2, <1>7 DEF vars
<1>8. QED
  BY <1>3, <1>4, <1>5, <1>6, <1>7 DEF Next, Step

(* A command that ends leaves no job behind. *)
LEMMA FinishTyped ==
    ASSUME TypeInv, NEW o \in Operator, Finish(o)
    PROVE  CommandTypes' /\ JobsHold'
<1>1. CommandTypes'
  BY NoJobType DEF TypeInv, CommandTypes, Finish, GoTo, Steps
<1>2. pc'[o] = "idle" /\ \A v \in Operator \ {o} : pc'[v] = pc[v] /\ job'[v] = job[v]
  BY DEF TypeInv, CommandTypes, Finish, GoTo
<1>3. QED
  BY <1>1, <1>2 DEF TypeInv, JobsHold, ImportSteps

(* One that goes on with the job it has. *)
LEMMA GoToTyped ==
    ASSUME TypeInv, NEW o \in Operator, NEW step \in Steps, GoTo(o, step), job' = job,
           step \in {"bundle", "index", "zip"} \cup ImportSteps => job[o].observation \in Observation,
           step \in ImportSteps => job[o].source \in Operator
    PROVE  CommandTypes' /\ JobsHold'
<1>1. CommandTypes'
  BY DEF TypeInv, CommandTypes, GoTo
<1>2. pc'[o] = step /\ \A v \in Operator \ {o} : pc'[v] = pc[v]
  BY DEF TypeInv, CommandTypes, GoTo
<1>3. QED
  BY <1>1, <1>2 DEF TypeInv, JobsHold

LEMMA CommandsTyped == TypeInv /\ [Next]_vars => CommandTypes' /\ JobsHold'
<1> SUFFICES ASSUME TypeInv, [Next]_vars
             PROVE  CommandTypes' /\ JobsHold'
  OBVIOUS
<1>1. UNCHANGED command => CommandTypes' /\ JobsHold'
  BY DEF TypeInv, CommandTypes, JobsHold, command
<1>2. ASSUME NEW o \in Operator, InitCommand(o)
      PROVE  CommandTypes' /\ JobsHold'
  <2>1. CASE WriteDescriptor(o)
    BY <2>1, FinishTyped DEF WriteDescriptor
  <2>2. CASE ~ WriteDescriptor(o)
    <3>1. job' = job /\ \E step \in InitSteps : GoTo(o, step)
      BY <1>2, <2>2
      DEF InitCommand, InitSteps, BeginInit, BeginRotation, RemovePublicKey, WritePrivateKey, WritePublicKey,
          WriteIdentity, WriteFile
    <3>2. QED
      BY <3>1, GoToTyped DEF InitSteps, ImportSteps, Steps
  <2>3. QED
    BY <2>1, <2>2
<1>3. ASSUME NEW o \in Operator, CaptureCommand(o)
      PROVE  CommandTypes' /\ JobsHold'
  <2>1. ASSUME NEW b \in Observation, Capture(o, b)
        PROVE  CommandTypes' /\ JobsHold'
    <3>1. /\ job' = [job EXCEPT ![o].observation = b]
          /\ pc' = [pc EXCEPT ![o] = "bundle"]
      BY <2>1 DEF Capture, GoTo
    <3>2. job' \in [Operator -> Job] /\ job'[o].observation = b
      BY <3>1 DEF TypeInv, CommandTypes, Job
    <3>3. pc' \in [Operator -> Steps] /\ pc'[o] = "bundle"
      BY <3>1 DEF TypeInv, CommandTypes, Steps
    <3>4. \A v \in Operator \ {o} : pc'[v] = pc[v] /\ job'[v] = job[v]
      BY <3>1 DEF TypeInv, CommandTypes
    <3>5. QED
      BY <3>2, <3>3, <3>4 DEF TypeInv, CommandTypes, JobsHold, ImportSteps
  <2>2. CASE WriteBundle(o)
    <3>1. pc[o] = "bundle" /\ GoTo(o, "index") /\ job' = job
      BY <2>2 DEF WriteBundle, At
    <3>2. job[o].observation \in Observation
      BY <3>1 DEF TypeInv, JobsHold
    <3>3. QED
      BY <3>1, <3>2, GoToTyped DEF Steps, ImportSteps
  <2>3. CASE IndexCapture(o)
    BY <2>3, FinishTyped DEF IndexCapture
  <2>4. QED
    BY <1>3, <2>1, <2>2, <2>3 DEF CaptureCommand
<1>4. ASSUME NEW o \in Operator, ExportCommand(o)
      PROVE  CommandTypes' /\ JobsHold'
  <2>1. ASSUME NEW b \in Observation, OpenExport(o, b)
        PROVE  CommandTypes' /\ JobsHold'
    <3>1. /\ job' = [job EXCEPT ![o].observation = b]
          /\ pc' = [pc EXCEPT ![o] = "zip"]
      BY <2>1 DEF OpenExport, GoTo
    <3>2. job' \in [Operator -> Job] /\ job'[o].observation = b
      BY <3>1 DEF TypeInv, CommandTypes, Job
    <3>3. pc' \in [Operator -> Steps] /\ pc'[o] = "zip"
      BY <3>1 DEF TypeInv, CommandTypes, Steps
    <3>4. \A v \in Operator \ {o} : pc'[v] = pc[v] /\ job'[v] = job[v]
      BY <3>1 DEF TypeInv, CommandTypes
    <3>5. QED
      BY <3>2, <3>3, <3>4 DEF TypeInv, CommandTypes, JobsHold, ImportSteps
  <2>2. CASE WriteExport(o)
    BY <2>2, FinishTyped DEF WriteExport
  <2>3. QED
    BY <1>4, <2>1, <2>2 DEF ExportCommand
<1>5. ASSUME NEW o \in Operator, ImportCommand(o)
      PROVE  CommandTypes' /\ JobsHold'
  <2>1. ASSUME NEW source \in Operator, NEW b \in Observation, ReadDigest(o, source, b)
        PROVE  CommandTypes' /\ JobsHold'
    <3>1. /\ job' = [job EXCEPT ![o] = [observation |-> b, source |-> source,
                                        digest |-> exports[source][b], verified |-> Missing]]
          /\ pc' = [pc EXCEPT ![o] = "verify"]
      BY <2>1 DEF ReadDigest, GoTo
    <3>2. exports[source][b] \in Digest
      BY DEF TypeInv, TransportTypes
    <3>3. [observation |-> b, source |-> source,
           digest |-> exports[source][b], verified |-> Missing] \in Job
      BY <3>2, Digests2 DEF Job
    <3>4. /\ job' \in [Operator -> Job]
          /\ job'[o].observation = b /\ job'[o].source = source
      BY <3>1, <3>3 DEF TypeInv, CommandTypes
    <3>5. pc' \in [Operator -> Steps] /\ pc'[o] = "verify"
      BY <3>1 DEF TypeInv, CommandTypes, Steps
    <3>6. \A v \in Operator \ {o} : pc'[v] = pc[v] /\ job'[v] = job[v]
      BY <3>1 DEF TypeInv, CommandTypes
    <3>7. QED
      BY <3>4, <3>5, <3>6 DEF TypeInv, CommandTypes, JobsHold
  <2>2. CASE Verify(o)
    <3>1. /\ pc[o] = "verify"
          /\ job' = [job EXCEPT ![o].verified = SourceOf(o)]
          /\ pc' = [pc EXCEPT ![o] = "discard"]
      BY <2>2 DEF Verify, At, GoTo
    <3>2. job[o].observation \in Observation /\ job[o].source \in Operator
      BY <3>1 DEF TypeInv, JobsHold, ImportSteps
    <3>3. SourceOf(o) \in Digest
      BY <3>2 DEF SourceOf, TypeInv, TransportTypes
    <3>4. /\ job' \in [Operator -> Job]
          /\ job'[o].observation = job[o].observation /\ job'[o].source = job[o].source
      BY <3>1, <3>3 DEF TypeInv, CommandTypes, Job
    <3>5. pc' \in [Operator -> Steps] /\ pc'[o] = "discard"
      BY <3>1 DEF TypeInv, CommandTypes, Steps
    <3>6. \A v \in Operator \ {o} : pc'[v] = pc[v] /\ job'[v] = job[v]
      BY <3>1 DEF TypeInv, CommandTypes
    <3>7. QED
      BY <3>2, <3>4, <3>5, <3>6 DEF TypeInv, CommandTypes, JobsHold
  <2>3. CASE Discard(o) \/ Retain(o) \/ IndexImport(o)
    <3>1. pc[o] \in ImportSteps /\ job' = job /\ \E step \in ImportSteps : GoTo(o, step)
      BY <2>3 DEF Discard, Retain, IndexImport, At, ImportSteps
    <3>2. job[o].observation \in Observation /\ job[o].source \in Operator
      BY <3>1 DEF TypeInv, JobsHold
    <3>3. QED
      BY <3>1, <3>2, GoToTyped DEF Steps, ImportSteps
  <2>4. CASE Refuse(o) \/ Accept(o) \/ FailImport(o)
    BY <2>4, FinishTyped DEF Refuse, Accept, FailImport
  <2>5. QED
    BY <1>5, <2>1, <2>2, <2>3, <2>4 DEF ImportCommand
<1>6. ASSUME NEW o \in Operator, Disturbance(o)
      PROVE  CommandTypes' /\ JobsHold'
  <2>1. CASE Stop(o)
    BY <2>1, FinishTyped DEF Stop
  <2>2. CASE ~ Stop(o)
    BY <1>1, <1>6, <2>2 DEF Disturbance, SetAvailability, Lose, Damage
  <2>3. QED
    BY <2>1, <2>2
<1>7. CASE HistoryCommand
  BY <1>1, <1>7, HistoryReads
<1>8. CASE UNCHANGED vars
  BY <1>1, <1>8 DEF vars
<1>9. QED
  BY <1>2, <1>3, <1>4, <1>5, <1>6, <1>7, <1>8 DEF Next, Step

LEMMA RecordTyped ==
    ASSUME CustodyTypes, NEW o \in Operator, NEW status \in Status, Record(o, status)
    PROVE  receipts' \in [Operator -> [Digest -> Status]]
<1>1. receipts' = [receipts EXCEPT ![o][job[o].digest] = status]
  BY DEF Record
<1>2. receipts \in [Operator -> [Digest -> Status]]
  BY DEF CustodyTypes
<1>3. [receipts[o] EXCEPT ![job[o].digest] = status] \in [Digest -> Status]
  BY <1>2
<1>4. receipts' = [receipts EXCEPT ![o] = [receipts[o] EXCEPT ![job[o].digest] = status]]
  BY <1>1
<1>5. QED
  BY <1>2, <1>3, <1>4

(* What is left of the bundle that a command works on when it is cut off. *)
CutOffTyped(o) ==
    /\ evidence' \in [Operator -> [Observation -> Held]]
    /\ cut' \in [Operator -> SUBSET Observation]
    /\ swapped' \in [Operator -> SUBSET Observation]
    /\ spoiled' \subseteq Observation

CutOffLeaves(o) ==
    /\ UNCHANGED swapped
    /\ spoiled \subseteq spoiled'
    /\ \A v \in Operator : v # o => evidence'[v] = evidence[v] /\ cut'[v] = cut[v]
    /\ cut[o] \subseteq cut'[o]
    /\ pc[o] \in {"bundle", "retain"} =>
          job[o].observation \in cut'[o] /\ job[o].observation \in spoiled'
    /\ \A b \in Observation :
          \/ evidence'[o][b] = evidence[o][b]
          \/ /\ b = job[o].observation
             /\ pc[o] \in {"bundle", "discard", "retain"}
             /\ b \in cut'[o] /\ b \in spoiled'
             /\ \/ evidence'[o][b].changed = {}
                \/ /\ evidence[o][b].state \in Complete
                   /\ evidence'[o][b].changed \subseteq evidence[o][b].changed

LEMMA CutOffWrites ==
    ASSUME TypeInv, NEW o \in Operator, CutOff(o)
    PROVE  CutOffTyped(o) /\ CutOffLeaves(o)
<1> DEFINE b == job[o].observation
<1> USE DEF CutOffTyped, CutOffLeaves
<1>1. CustodyTypes
  BY DEF TypeInv
<1>2. CASE pc[o] \notin {"bundle", "discard", "retain"}
  <2>1. UNCHANGED <<evidence, cut, swapped, spoiled>>
    BY <1>2 DEF CutOff, history
  <2>2. QED
    BY <1>1, <1>2, <2>1 DEF CustodyTypes
<1>3. CASE pc[o] \in {"bundle", "discard", "retain"}
  <2>1. b \in Observation
    BY <1>3 DEF TypeInv, JobsHold, ImportSteps
  <2>2. PICK left \in Leftovers(o, evidence[o][b]) :
           /\ evidence' = [evidence EXCEPT ![o][b] = left]
           /\ IF At(o, "discard") /\ left = evidence[o][b]
              THEN UNCHANGED history
              ELSE /\ cut' = [cut EXCEPT ![o] = @ \cup {b}]
                   /\ spoiled' = spoiled \cup {b}
                   /\ UNCHANGED swapped
    BY <1>3 DEF CutOff
  <2>3. evidence[o][b] \in Held
    BY <1>1, <2>1 DEF CustodyTypes
  <2>4. left \in Held
    BY <2>3, LeftoverTypes
  <2>5. /\ evidence' \in [Operator -> [Observation -> Held]]
        /\ evidence'[o][b] = left
        /\ \A c \in Observation : c # b => evidence'[o][c] = evidence[o][c]
        /\ \A v \in Operator : v # o => evidence'[v] = evidence[v]
    BY <1>1, <2>1, <2>2, <2>4 DEF CustodyTypes
  <2>6. \/ left = evidence[o][b] \/ left.changed = {}
        \/ evidence[o][b].state \in Complete /\ left.changed \subseteq evidence[o][b].changed
    BY DEF Leftovers, Partial, Absent, Bare, WithoutEvidence
  <2>7. CASE At(o, "discard") /\ left = evidence[o][b]
    <3>1. UNCHANGED <<cut, swapped, spoiled>> /\ pc[o] = "discard"
      BY <2>2, <2>7 DEF history, At
    <3>2. QED
      BY <1>1, <2>5, <2>7, <3>1 DEF CustodyTypes
  <2>8. CASE ~ (At(o, "discard") /\ left = evidence[o][b])
    <3>1. /\ cut' = [cut EXCEPT ![o] = @ \cup {b}]
          /\ spoiled' = spoiled \cup {b}
          /\ UNCHANGED swapped
      BY <2>2, <2>8
    <3>2. /\ cut' \in [Operator -> SUBSET Observation]
          /\ cut'[o] = cut[o] \cup {b}
          /\ \A v \in Operator : v # o => cut'[v] = cut[v]
      BY <1>1, <2>1, <3>1 DEF CustodyTypes
    <3>3. QED
      BY <1>1, <1>3, <2>1, <2>5, <2>6, <3>1, <3>2 DEF CustodyTypes
  <2>9. QED
    BY <2>7, <2>8
<1>4. QED
  BY <1>2, <1>3

LEMMA CustodyTyped == TypeInv /\ [Next]_vars => CustodyTypes'
<1> SUFFICES ASSUME TypeInv, [Next]_vars
             PROVE  CustodyTypes'
  OBVIOUS
<1>1. CustodyTypes
  BY DEF TypeInv
<1>2. UNCHANGED custody => CustodyTypes'
  BY <1>1 DEF CustodyTypes, custody, history
<1>3. ASSUME NEW o \in Operator, InitCommand(o) \/ ExportCommand(o)
      PROVE  CustodyTypes'
  BY <1>2, <1>3, InitCustody, ExportCustody
<1>4. ASSUME NEW o \in Operator, CaptureCommand(o)
      PROVE  CustodyTypes'
  <2>1. ASSUME NEW b \in Observation, Capture(o, b)
        PROVE  CustodyTypes'
    BY <1>1, <2>1, HeldTypes DEF CustodyTypes, Capture, history
  <2>2. CASE WriteBundle(o)
    <3>1. Whole({}) \in Held
      BY HeldTypes
    <3>2. QED
      BY <1>1, <2>2, <3>1 DEF CustodyTypes, WriteBundle, history
  <2>3. CASE IndexCapture(o)
    <3>1. job[o].observation \in Observation
      BY <2>3 DEF IndexCapture, At, TypeInv, JobsHold
    <3>2. QED
      BY <1>1, <2>3, <3>1 DEF CustodyTypes, IndexCapture, history
  <2>4. QED
    BY <1>4, <2>1, <2>2, <2>3 DEF CaptureCommand
<1>5. ASSUME NEW o \in Operator, ImportCommand(o)
      PROVE  CustodyTypes'
  <2>1. CASE pc[o] \notin ImportSteps
    <3>1. \E source \in Operator, b \in Observation : ReadDigest(o, source, b)
      BY <1>5, <2>1
      DEF ImportCommand, Verify, Refuse, Discard, Retain, IndexImport, Accept, FailImport, At,
          ImportSteps
    <3>2. QED
      BY <1>2, <3>1 DEF ReadDigest
  <2>2. CASE pc[o] \in ImportSteps
    <3>1. job[o].observation \in Observation /\ job[o].source \in Operator
      BY <2>2 DEF TypeInv, JobsHold
    <3>2. ~ \E source \in Operator, b \in Observation : ReadDigest(o, source, b)
      BY <2>2 DEF ReadDigest, Begin, At, ImportSteps
    <3>3. ASSUME NEW status \in Status, Record(o, status)
          PROVE  receipts' \in [Operator -> [Digest -> Status]]
      BY <1>1, <3>3, RecordTyped
    <3>4. "REJECTED" \in Status /\ "ACCEPTED" \in Status
      BY DEF Status
    <3>5. CASE Verify(o)
      BY <1>2, <3>5 DEF Verify
    <3>6. CASE Refuse(o)
      BY <1>1, <3>3, <3>4, <3>6 DEF Refuse, CustodyTypes, history
    <3>7. CASE Discard(o)
      BY <1>1, <3>7, HeldTypes DEF Discard, CustodyTypes, history
    <3>8. CASE Retain(o)
      <4>1. SourceOf(o) \in DOMAIN packages
        BY <3>8 DEF Retain, CannotCopy, Readable
      <4>2. packages[SourceOf(o)].changed \subseteq Part
        <5>1. packages[SourceOf(o)] \in Package
          BY <4>1 DEF TypeInv, TransportTypes
        <5>2. QED
          BY <5>1 DEF Package
      <4>3. Copied(packages[job[o].verified], packages[SourceOf(o)]) \in Held
        BY <4>2, HeldTypes DEF PartsOf, Copied
      <4>4. evidence' \in [Operator -> [Observation -> Held]]
        BY <1>1, <3>8, <4>3 DEF Retain, CustodyTypes
      <4>5. swapped' \in [Operator -> SUBSET Observation] /\ spoiled' \subseteq Observation
        <5>1. CASE SourceOf(o) = job[o].verified
          <6>1. swapped' = [swapped EXCEPT ![o] = @ \ {job[o].observation}] /\ spoiled' = spoiled
            BY <3>8, <5>1 DEF Retain, NoteSource
          <6>2. swapped[o] \ {job[o].observation} \in SUBSET Observation
            BY <1>1 DEF CustodyTypes
          <6>3. QED
            BY <1>1, <6>1, <6>2 DEF CustodyTypes
        <5>2. CASE SourceOf(o) # job[o].verified
          <6>1. /\ swapped' = [swapped EXCEPT ![o] = @ \cup {job[o].observation}]
                /\ spoiled' = spoiled \cup {job[o].observation}
            BY <3>8, <5>2 DEF Retain, NoteSource
          <6>2. swapped[o] \cup {job[o].observation} \in SUBSET Observation
            BY <1>1, <3>1 DEF CustodyTypes
          <6>3. QED
            BY <1>1, <3>1, <6>1, <6>2 DEF CustodyTypes
        <5>3. QED
          BY <5>1, <5>2
      <4>6. QED
        BY <1>1, <3>8, <4>4, <4>5 DEF Retain, CustodyTypes
    <3>9. CASE IndexImport(o)
      BY <1>1, <3>1, <3>9 DEF IndexImport, CustodyTypes
    <3>10. CASE Accept(o)
      BY <1>1, <3>3, <3>4, <3>10 DEF Accept, CustodyTypes, history
    <3>11. CASE FailImport(o)
      <4>1. CutOffTyped(o)
        BY <3>11, CutOffWrites DEF FailImport
      <4>2. receipts' \in [Operator -> [Digest -> Status]]
        BY <3>3, <3>4, <3>11 DEF FailImport
      <4>3. QED
        BY <1>1, <3>11, <4>1, <4>2 DEF FailImport, CustodyTypes, CutOffTyped
    <3>12. QED
      BY <1>5, <3>2, <3>5, <3>6, <3>7, <3>8, <3>9, <3>10, <3>11 DEF ImportCommand
  <2>3. QED
    BY <2>1, <2>2
<1>6. ASSUME NEW o \in Operator, Disturbance(o)
      PROVE  CustodyTypes'
  <2>1. CASE Stop(o)
    <3>1. CutOffTyped(o)
      BY <2>1, CutOffWrites DEF Stop
    <3>2. QED
      BY <1>1, <2>1, <3>1 DEF Stop, CustodyTypes, CutOffTyped
  <2>2. ASSUME NEW b \in Observation, Lose(o, b)
        PROVE  CustodyTypes'
    BY <1>1, <2>2, HeldTypes DEF Lose, CustodyTypes
  <2>3. CASE SetAvailability(o)
    BY <1>2, <2>3 DEF SetAvailability
  <2>4. ASSUME NEW b \in Observation, NEW part \in Fragile, Damage(o, b, part)
        PROVE  CustodyTypes'
    BY <1>2, <2>4 DEF Damage
  <2>5. QED
    BY <1>6, <2>1, <2>2, <2>3, <2>4 DEF Disturbance
<1>7. CASE HistoryCommand
  BY <1>2, <1>7, HistoryReads
<1>8. CASE UNCHANGED vars
  BY <1>2, <1>8 DEF vars
<1>9. QED
  BY <1>3, <1>4, <1>5, <1>6, <1>7, <1>8 DEF Next, Step

(* A file gets a new content: the next number. *)
LEMMA NewContent ==
    ASSUME TypeInv, Len(packages) < MaxPackages, NEW o \in Operator, NEW b \in Observation,
           NEW p \in Package, packages' = Append(packages, p),
           exports' = [exports EXCEPT ![o][b] = Len(packages')]
    PROVE  /\ TransportTypes'
           /\ Len(packages') = Len(packages) + 1
           /\ DOMAIN packages' = DOMAIN packages \cup {Len(packages')}
           /\ Len(packages') \notin DOMAIN packages
           /\ packages'[Len(packages')] = p
           /\ \A d \in DOMAIN packages : packages'[d] = packages[d]
<1>1. packages \in Seq(Package)
  BY DEF TypeInv, TransportTypes
<1>2. /\ packages' \in Seq(Package)
      /\ Len(packages') = Len(packages) + 1
      /\ packages'[Len(packages')] = p
      /\ \A d \in DOMAIN packages : packages'[d] = packages[d]
  BY <1>1
<1>3. /\ DOMAIN packages' = DOMAIN packages \cup {Len(packages')}
      /\ Len(packages') \notin DOMAIN packages
  BY <1>1, <1>2
<1>4. Len(packages') \in 1 .. MaxPackages
  BY <1>1, <1>2, DemoAssumption
<1>5. Len(packages') \in Digest
  BY <1>4, Digests2
<1>6. exports' \in [Operator -> [Observation -> Digest]]
  BY <1>5 DEF TypeInv, TransportTypes
<1>7. QED
  BY <1>2, <1>3, <1>6 DEF TransportTypes

LEMMA ExportedType ==
    ASSUME TypeInv, NEW o \in Operator, pc[o] = "zip",
           NEW reading \in Readings(evidence[o][job[o].observation])
    PROVE  /\ Exported(o, job[o].observation, reading) \in Package
           /\ Exported(o, job[o].observation, reading).observation = job[o].observation
<1>1. \A file \in FileName : keyOf[o][file] \in KeyFile
  BY DEF TypeInv, KeyTypes
<1>2. job[o].observation \in Observation
  BY DEF TypeInv, JobsHold
<1>3. /\ evidence[o][job[o].observation] \in Held
      /\ evidence[o][job[o].observation].state # "absent"
  BY <1>2 DEF TypeInv, CustodyTypes, ZipHold
<1>4. reading.state \in Complete /\ reading.changed \subseteq Part
  BY <1>3, ReadingTypes
<1>5. QED
  BY <1>1, <1>2, <1>4 DEF Exported, Package, FileName

(* A written export is the package of what was read. *)
LEMMA ExportWritten ==
    ASSUME TypeInv, NEW o \in Operator, WriteExport(o)
    PROVE  \E reading \in Readings(evidence[o][job[o].observation]) :
              LET p == Exported(o, job[o].observation, reading) IN
              /\ p \in Package
              /\ p.observation = job[o].observation
              /\ packages' = Append(packages, p)
<1>1. pc[o] = "zip"
  BY DEF WriteExport, At
<1>2. PICK reading \in Readings(evidence[o][job[o].observation]) :
         packages' = Append(packages, Exported(o, job[o].observation, reading))
  BY DEF WriteExport
<1>3. QED
  BY <1>1, <1>2, ExportedType

LEMMA DamageType ==
    ASSUME NEW p \in Package, NEW part \in Fragile
    PROVE  /\ [p EXCEPT !.damaged = part] \in Package
           /\ [p EXCEPT !.damaged = part].damaged # "nothing"
           /\ [p EXCEPT !.damaged = part].observation = p.observation
BY DemoAssumption DEF Package, Part, Member

LEMMA TransportTyped == TypeInv /\ [Next]_vars => TransportTypes'
<1> SUFFICES ASSUME TypeInv, [Next]_vars
             PROVE  TransportTypes'
  OBVIOUS
<1>1. UNCHANGED transport => TransportTypes'
  BY DEF TypeInv, TransportTypes, transport
<1>2. ASSUME NEW o \in Operator, InitCommand(o) \/ CaptureCommand(o) \/ ImportCommand(o)
      PROVE  TransportTypes'
  BY <1>1, <1>2, InitCustody, TransportWritten
<1>3. ASSUME NEW o \in Operator, ExportCommand(o)
      PROVE  TransportTypes'
  <2>1. ASSUME NEW b \in Observation, OpenExport(o, b)
        PROVE  TransportTypes'
    BY <2>1, Digests2 DEF OpenExport, TypeInv, TransportTypes
  <2>2. CASE WriteExport(o)
    <3>1. job[o].observation \in Observation
      BY <2>2 DEF WriteExport, At, TypeInv, JobsHold
    <3>2. PICK p \in Package : packages' = Append(packages, p)
      BY <2>2, ExportWritten
    <3>3. QED
      BY <2>2, <3>1, <3>2, NewContent DEF WriteExport
  <2>3. QED
    BY <1>3, <2>1, <2>2 DEF ExportCommand
<1>4. ASSUME NEW o \in Operator, Disturbance(o)
      PROVE  TransportTypes'
  <2>1. ASSUME NEW b \in Observation, NEW part \in Fragile, Damage(o, b, part)
        PROVE  TransportTypes'
    <3>1. packages[exports[o][b]] \in Package
      BY <2>1 DEF Damage, TypeInv, TransportTypes
    <3>2. [packages[exports[o][b]] EXCEPT !.damaged = part] \in Package
      BY <3>1, DamageType
    <3>3. QED
      BY <2>1, <3>2, NewContent DEF Damage
  <2>2. CASE UNCHANGED transport
    BY <1>1, <2>2
  <2>3. QED
    BY <1>4, <2>1, <2>2 DEF Disturbance, Stop, SetAvailability, Lose
<1>5. CASE HistoryCommand
  BY <1>1, <1>5, HistoryReads
<1>6. CASE UNCHANGED vars
  BY <1>1, <1>6 DEF vars
<1>7. QED
  BY <1>2, <1>3, <1>4, <1>5, <1>6 DEF Next, Step

(* What one visit of a query adds. *)
LEMMA VisitAdds ==
    ASSUME TypeInv, NEW o \in Operator, Visit(o)
    PROVE  /\ query'.state = query.state
           /\ query'.todo = query.todo \ {o}
           /\ query'.unavailable = query.unavailable
           /\ query'.listed = query.listed \cup Listed(o)
           /\ query.found \cup {b \in Listed(o) : Intact(o, b)} \subseteq query'.found
           /\ query'.found \subseteq query.found \cup Listed(o)
           /\ query' \in Query
<1>1. query \in Query /\ Listed(o) \subseteq Observation
  BY DEF TypeInv, OtherTypes, CustodyTypes, Listed
<1>2. PICK half \in SUBSET Half(o) :
         query' = [query EXCEPT !.todo = query.todo \ {o},
                                !.listed = query.listed \cup Listed(o),
                                !.found = query.found \cup half
                                          \cup {b \in Listed(o) : Intact(o, b)}]
  BY DEF Visit
<1>3. half \subseteq Listed(o)
  BY DEF Half
<1>4. QED
  BY <1>1, <1>2, <1>3 DEF Query

LEMMA OthersTyped == TypeInv /\ [Next]_vars => OtherTypes'
<1> SUFFICES ASSUME TypeInv, [Next]_vars
             PROVE  OtherTypes'
  OBVIOUS
<1>1. OtherTypes
  BY DEF TypeInv
<1>2. steady' \subseteq Operator \X Observation
  <2>1. Shown' \subseteq Operator \X Observation
    BY DEF Shown
  <2>2. CASE Next
    BY <2>1, <2>2 DEF Next, WatchQuery
  <2>3. CASE UNCHANGED vars
    BY <1>1, <2>3 DEF vars, OtherTypes
  <2>4. QED
    BY <2>2, <2>3
<1>3. begun' \in Nat
  <2>1. begun' = begun \/ begun' = begun + 1
    <3>1. ASSUME NEW o \in Operator, InitCommand(o)
          PROVE  begun' = begun \/ begun' = begun + 1
      BY <3>1 DEF InitCommand, BeginInit, BeginRotation, RemovePublicKey, WritePrivateKey, WritePublicKey,
                  WriteIdentity, WriteFile, WriteDescriptor, Begin, BeginCommand
    <3>2. ASSUME NEW o \in Operator, CaptureCommand(o) \/ ExportCommand(o)
          PROVE  begun' = begun \/ begun' = begun + 1
      BY <3>2 DEF CaptureCommand, Capture, WriteBundle, IndexCapture, ExportCommand, OpenExport,
                  WriteExport, Begin, BeginCommand
    <3>3. ASSUME NEW o \in Operator, ImportCommand(o)
          PROVE  begun' = begun \/ begun' = begun + 1
      BY <3>3 DEF ImportCommand, ReadDigest, Verify, Refuse, Discard, Retain, IndexImport,
                  Accept, FailImport, Begin, BeginCommand
    <3>4. ASSUME NEW o \in Operator, Disturbance(o)
          PROVE  begun' = begun \/ begun' = begun + 1
      BY <3>4 DEF Disturbance, Stop, SetAvailability, Lose, Damage, Begin, BeginCommand
    <3>5. CASE HistoryCommand
      BY <3>5 DEF HistoryCommand, Ask, VisitUnavailable, VisitFails, Visit, AnswerQuery,
                  BeginCommand
    <3>6. CASE UNCHANGED vars
      BY <3>6 DEF vars
    <3>7. QED
      BY <3>1, <3>2, <3>3, <3>4, <3>5, <3>6 DEF Next, Step
  <2>2. QED
    BY <1>1, <2>1 DEF OtherTypes
<1>4. disturbances' \in Nat /\ offline' \subseteq Operator /\ captured' \subseteq Observation /\ query' \in Query
  <2> DEFINE Rest == /\ disturbances \in Nat /\ offline \subseteq Operator
                     /\ captured \subseteq Observation /\ query \in Query
  <2>1. Rest
    BY <1>1 DEF OtherTypes
  <2>2. UNCHANGED surroundings => Rest'
    BY <2>1 DEF surroundings
  <2>3. ASSUME NEW o \in Operator, InitCommand(o) \/ ExportCommand(o)
        PROVE  Rest'
    BY <2>2, <2>3, InitCustody, ExportCustody
  <2>4. ASSUME NEW o \in Operator, CaptureCommand(o)
        PROVE  Rest'
    <3>1. ASSUME NEW b \in Observation, Capture(o, b)
          PROVE  Rest'
      BY <2>1, <3>1 DEF Capture
    <3>2. CASE WriteBundle(o) \/ IndexCapture(o)
      BY <2>2, <3>2 DEF WriteBundle, IndexCapture
    <3>3. QED
      BY <2>4, <3>1, <3>2 DEF CaptureCommand
  <2>5. ASSUME NEW o \in Operator, ImportCommand(o)
        PROVE  Rest'
    <3>1. CASE FailImport(o)
      BY <2>1, <3>1 DEF FailImport, Disturb
    <3>2. CASE ~ FailImport(o)
      BY <2>2, <2>5, <3>2 DEF ImportCommand, ReadDigest, Verify, Refuse, Discard, Retain,
                              IndexImport, Accept
    <3>3. QED
      BY <3>1, <3>2
  <2>6. ASSUME NEW o \in Operator, Disturbance(o)
        PROVE  Rest'
    <3>1. CASE Stop(o)
      BY <2>1, <3>1 DEF Stop, Disturb
    <3>2. CASE SetAvailability(o)
      BY <2>1, <3>2 DEF SetAvailability
    <3>3. ASSUME NEW b \in Observation, Lose(o, b)
          PROVE  Rest'
      BY <2>1, <3>3 DEF Lose, Disturb
    <3>4. ASSUME NEW b \in Observation, NEW part \in Fragile, Damage(o, b, part)
          PROVE  Rest'
      BY <2>1, <3>4 DEF Damage, Disturb
    <3>5. QED
      BY <2>6, <3>1, <3>2, <3>3, <3>4 DEF Disturbance
  <2>7. CASE HistoryCommand
    <3>1. query' \in Query
      <4>1. CASE Ask
        BY <4>1 DEF Ask, Asked, Query
      <4>2. ASSUME NEW o \in Operator, VisitUnavailable(o)
            PROVE  query' \in Query
        <5>1. query' = [query EXCEPT !.todo = query.todo \ {o},
                                     !.unavailable = query.unavailable \cup {o}]
          BY <4>2 DEF VisitUnavailable
        <5>2. QED
          BY <2>1, <5>1 DEF Query
      <4>3. ASSUME NEW o \in Operator, VisitFails(o)
            PROVE  query' \in Query
        BY <2>1, <4>3 DEF VisitFails, Query
      <4>4. ASSUME NEW o \in Operator, Visit(o)
            PROVE  query' \in Query
        BY <4>4, VisitAdds
      <4>5. CASE AnswerQuery
        BY <2>1, <4>5 DEF AnswerQuery, Query
      <4>6. QED
        BY <2>7, <4>1, <4>2, <4>3, <4>4, <4>5 DEF HistoryCommand
    <3>2. QED
      BY <2>1, <2>7, <3>1, HistoryReads
  <2>8. CASE UNCHANGED vars
    BY <2>2, <2>8 DEF vars
  <2>9. Rest'
    BY <2>3, <2>4, <2>5, <2>6, <2>7, <2>8 DEF Next, Step
  <2>10. QED
    BY <2>9
<1>5. QED
  BY <1>2, <1>3, <1>4 DEF OtherTypes

(* The operators a step is not one of keep what they have. *)
Others(o) == \A v \in Operator \ {o} :
    /\ pc'[v] = pc[v] /\ job'[v] = job[v]
    /\ evidence'[v] = evidence[v] /\ manifests'[v] = manifests[v]
    /\ receipts'[v] = receipts[v] /\ cut'[v] = cut[v] /\ swapped'[v] = swapped[v]
    /\ keyOf'[v] = keyOf[v] /\ (v \in cutInit' <=> v \in cutInit)

LEMMA OthersKeep ==
    ASSUME TypeInv, NEW o \in Operator,
           \/ InitCommand(o) \/ CaptureCommand(o) \/ ExportCommand(o)
           \/ ImportCommand(o) \/ Disturbance(o)
    PROVE  Others(o)
<1> USE DEF TypeInv, KeyTypes, CustodyTypes, CommandTypes, Others, GoTo, Finish
<1>1. CASE InitCommand(o)
  <2>1. UNCHANGED <<evidence, manifests, receipts, cut, swapped>>
    BY <1>1, InitCustody DEF custody, history
  <2>2. \A v \in Operator \ {o} :
           pc'[v] = pc[v] /\ job'[v] = job[v] /\ keyOf'[v] = keyOf[v] /\ (v \in cutInit' <=> v \in cutInit)
    BY <1>1 DEF InitCommand, BeginInit, BeginRotation, RemovePublicKey, Remove, WritePrivateKey,
                WritePublicKey, WriteIdentity, WriteFile, WriteDescriptor, keyFiles
  <2>3. QED
    BY <2>1, <2>2
<1>2. CASE CaptureCommand(o)
  BY <1>2 DEF CaptureCommand, Capture, WriteBundle, IndexCapture, keyFiles, custody, history
<1>3. CASE ExportCommand(o)
  BY <1>3 DEF ExportCommand, OpenExport, WriteExport, keyFiles, custody, history
<1>4. CASE ImportCommand(o)
  <2>1. CASE \E source \in Operator, b \in Observation : ReadDigest(o, source, b)
    BY <2>1 DEF ReadDigest, keyFiles, custody, history
  <2>2. CASE Verify(o) \/ Discard(o) \/ Retain(o) \/ IndexImport(o)
    BY <2>2 DEF Verify, Discard, Retain, NoteSource, IndexImport, keyFiles, custody, history
  <2>3. CASE Refuse(o) \/ Accept(o)
    BY <2>3 DEF Refuse, Accept, Record, keyFiles, custody, history
  <2>4. CASE FailImport(o)
    <3>1. CutOffLeaves(o)
      BY <2>4, CutOffWrites DEF FailImport
    <3>2. QED
      BY <2>4, <3>1 DEF FailImport, Record, keyFiles, CutOffLeaves
  <2>5. QED
    BY <1>4, <2>1, <2>2, <2>3, <2>4 DEF ImportCommand
<1>5. CASE Disturbance(o)
  <2>1. CASE Stop(o)
    <3>1. CutOffLeaves(o)
      BY <2>1, CutOffWrites DEF Stop
    <3>2. \A v \in Operator \ {o} : keyOf'[v] = keyOf[v] /\ (v \in cutInit' <=> v \in cutInit)
      BY <2>1 DEF Stop, CutOffKeys
    <3>3. QED
      BY <2>1, <3>1, <3>2 DEF Stop, CutOffLeaves
  <2>2. CASE ~ Stop(o)
    BY <1>5, <2>2 DEF Disturbance, SetAvailability, Lose, Damage, keyFiles, custody, command, history
  <2>3. QED
    BY <2>1, <2>2
<1>6. QED
  BY <1>1, <1>2, <1>3, <1>4, <1>5

LEMMA ZipTyped == TypeInv /\ [Next]_vars => ZipHold'
<1> SUFFICES ASSUME TypeInv, [Next]_vars, NEW v \in Operator, pc'[v] = "zip"
             PROVE  evidence'[v][job'[v].observation].state # "absent"
  BY DEF ZipHold
<1> DEFINE Goal == evidence'[v][job'[v].observation].state # "absent"
<1>1. pc'[v] = pc[v] /\ job'[v] = job[v] /\ evidence'[v] = evidence[v] => Goal
  BY DEF TypeInv, ZipHold
<1>2. ASSUME NEW o \in Operator,
             \/ InitCommand(o) \/ CaptureCommand(o) \/ ExportCommand(o)
             \/ ImportCommand(o) \/ Disturbance(o)
      PROVE  Goal
  <2> USE DEF TypeInv, CommandTypes, GoTo, Finish, At
  <2>1. CASE v # o
    BY <1>1, <1>2, <2>1, OthersKeep DEF Others
  <2>2. CASE v = o /\ InitCommand(o)
    BY <2>2 DEF InitCommand, BeginInit, BeginRotation, RemovePublicKey, WritePrivateKey,
                WritePublicKey, WriteIdentity, WriteFile, WriteDescriptor
  <2>3. CASE v = o /\ CaptureCommand(o)
    BY <2>3 DEF CaptureCommand, Capture, WriteBundle, IndexCapture
  <2>4. ASSUME v = o, NEW b \in Observation, OpenExport(o, b)
        PROVE  Goal
    <3>1. job'[v].observation = b /\ evidence' = evidence
      BY <2>4 DEF OpenExport, Job, custody
    <3>2. QED
      BY <2>4, <3>1 DEF OpenExport
  <2>5. CASE v = o /\ WriteExport(o)
    BY <2>5 DEF WriteExport
  <2>6. CASE v = o /\ ImportCommand(o)
    BY <2>6 DEF ImportCommand, ReadDigest, Verify, Refuse, Discard, Retain, IndexImport, Accept,
                FailImport
  <2>7. CASE v = o /\ Disturbance(o)
    BY <1>1, <2>7 DEF Disturbance, Stop, SetAvailability, Lose, Damage, command, custody
  <2>8. QED
    BY <1>2, <2>1, <2>2, <2>3, <2>4, <2>5, <2>6, <2>7 DEF ExportCommand
<1>3. CASE UNCHANGED <<custody, command>>
  BY <1>1, <1>3 DEF command, custody
<1>4. QED
  BY <1>2, <1>3, HistoryReads DEF Next, Step, vars

LEMMA StepTyped == TypeInv /\ [Next]_vars => TypeInv'
BY KeysTyped, CommandsTyped, CustodyTyped, TransportTyped, OthersTyped, ZipTyped DEF TypeInv

(* Type correctness: every variable keeps its type. *)
THEOREM TypeCorrect == Spec => []TypeOK
<1>1. TypeInv => TypeOK
  BY TypesAgree DEF TypeInv
<1>2. QED
  BY <1>1, InitTyped, StepTyped, PTL DEF Spec

-----------------------------------------------------------------------------
(* Packages *)

(* Contents of export files are added, never changed. *)
LEMMA PackagesKept ==
    ASSUME TypeInv, [Next]_vars, NEW d \in DOMAIN packages
    PROVE  d \in DOMAIN packages' /\ packages'[d] = packages[d]
<1>1. CASE UNCHANGED packages
  BY <1>1
<1>2. ASSUME NEW p, packages' = Append(packages, p)
      PROVE  d \in DOMAIN packages' /\ packages'[d] = packages[d]
  BY <1>2 DEF TypeInv, TransportTypes
<1>3. CASE UNCHANGED transport
  BY <1>1, <1>3 DEF transport
<1>4. ASSUME NEW o \in Operator, ExportCommand(o)
      PROVE  d \in DOMAIN packages' /\ packages'[d] = packages[d]
  BY <1>1, <1>2, <1>4 DEF ExportCommand, OpenExport, WriteExport
<1>5. ASSUME NEW o \in Operator, Disturbance(o)
      PROVE  d \in DOMAIN packages' /\ packages'[d] = packages[d]
  BY <1>2, <1>3, <1>5 DEF Disturbance, Stop, SetAvailability, Lose, Damage
<1>6. QED
  BY <1>3, <1>4, <1>5, InitCustody, TransportWritten, HistoryReads DEF Next, Step, vars

-----------------------------------------------------------------------------
(* Keys *)

(* An init that runs has written each file but the ones it is still to write; one
   that came to its end has written all of them for one key. *)
KeysHold ==
    \A o \in Operator :
       /\ pc[o] = "identity" => keyOf[o]["public"] = keyOf[o]["private"]
       /\ pc[o] = "descriptor" =>
             /\ keyOf[o]["public"] = keyOf[o]["private"]
             /\ keyOf[o]["identity"] = keyOf[o]["private"]
       /\ pc[o] \notin InitSteps /\ o \notin cutInit =>
             \A file \in FileName : keyOf[o][file] = keyOf[o]["private"]

LEMMA KeysStep == TypeInv /\ KeysHold /\ [Next]_vars => KeysHold'
<1> SUFFICES ASSUME TypeInv, KeysHold, [Next]_vars
             PROVE  KeysHold'
  OBVIOUS
<1> DEFINE Holds(o) ==
       /\ pc[o] = "identity" => keyOf[o]["public"] = keyOf[o]["private"]
       /\ pc[o] = "descriptor" =>
             /\ keyOf[o]["public"] = keyOf[o]["private"]
             /\ keyOf[o]["identity"] = keyOf[o]["private"]
       /\ pc[o] \notin InitSteps /\ o \notin cutInit =>
             \A file \in FileName : keyOf[o][file] = keyOf[o]["private"]
<1>1. \A v \in Operator : Holds(v)
  BY DEF KeysHold
<1>2. ASSUME NEW o \in Operator, Others(o), NEW v \in Operator \ {o}
      PROVE  Holds(v)'
  BY <1>1, <1>2 DEF Others
<1>3. ASSUME NEW o \in Operator, InitCommand(o)
      PROVE  Holds(o)'
  <2> USE DEF TypeInv, KeyTypes, CommandTypes, InitSteps, GoTo, At
  <2>1. CASE BeginInit(o)
    BY <1>1, <2>1 DEF BeginInit, keyFiles
  <2>2. CASE BeginRotation(o) \/ RemovePublicKey(o)
    BY <1>1, <2>2 DEF BeginRotation, RemovePublicKey, Remove
  <2>3. CASE WritePrivateKey(o)
    BY <1>1, <2>3 DEF WritePrivateKey
  <2>4. CASE WritePublicKey(o)
    BY <1>1, <2>4 DEF WritePublicKey, WriteFile, FileName
  <2>5. CASE WriteIdentity(o)
    BY <1>1, <2>5 DEF WriteIdentity, WriteFile, FileName
  <2>6. CASE WriteDescriptor(o)
    BY <1>1, <2>6 DEF WriteDescriptor, NewDescriptor, Finish, FileName
  <2>7. QED
    BY <1>3, <2>1, <2>2, <2>3, <2>4, <2>5, <2>6 DEF InitCommand
<1>4. ASSUME NEW o \in Operator, CaptureCommand(o) \/ ExportCommand(o) \/ ImportCommand(o)
      PROVE  Holds(o)'
  <2>1. UNCHANGED <<keyOf, cutInit>>
    BY <1>4, KeysWritten DEF keyFiles
  <2>2. pc[o] \notin InitSteps /\ pc'[o] \notin InitSteps
    <3> USE DEF InitSteps, GoTo, Finish, At, Begin, TypeInv, CommandTypes
    <3>1. CASE CaptureCommand(o)
      BY <3>1 DEF CaptureCommand, Capture, WriteBundle, IndexCapture
    <3>2. CASE ExportCommand(o)
      BY <3>2 DEF ExportCommand, OpenExport, WriteExport
    <3>3. CASE ImportCommand(o)
      BY <3>3 DEF ImportCommand, ReadDigest, Verify, Refuse, Discard, Retain, IndexImport,
                  Accept, FailImport
    <3>4. QED
      BY <1>4, <3>1, <3>2, <3>3
  <2>3. QED
    BY <1>1, <2>1, <2>2 DEF InitSteps
<1>5. ASSUME NEW o \in Operator, Disturbance(o)
      PROVE  Holds(o)'
  <2>1. CASE Stop(o)
    <3>1. pc'[o] = "idle"
      BY <2>1 DEF Stop, Finish, GoTo, TypeInv, CommandTypes
    <3>2. o \notin cutInit' => pc[o] \notin InitSteps /\ o \notin cutInit /\ keyOf' = keyOf
      BY <2>1 DEF Stop, CutOffKeys, InitSteps, FileName
    <3>3. QED
      BY <1>1, <3>1, <3>2
  <2>2. CASE UNCHANGED <<pc, keyOf, cutInit>>
    BY <1>1, <2>2
  <2>3. QED
    BY <1>5, <2>1, <2>2 DEF Disturbance, SetAvailability, Lose, Damage, keyFiles, command
<1>6. UNCHANGED <<pc, keyOf, cutInit>> => KeysHold'
  BY DEF KeysHold
<1>7. ASSUME NEW o \in Operator,
             \/ InitCommand(o) \/ CaptureCommand(o) \/ ExportCommand(o)
             \/ ImportCommand(o) \/ Disturbance(o)
      PROVE  KeysHold'
  <2>1. Others(o)
    BY <1>7, OthersKeep
  <2>2. Holds(o)'
    BY <1>3, <1>4, <1>5, <1>7
  <2>3. \A v \in Operator : Holds(v)'
    BY <1>2, <2>1, <2>2
  <2>4. QED
    BY <2>3 DEF KeysHold
<1>8. CASE HistoryCommand \/ UNCHANGED vars
  BY <1>6, <1>8, HistoryReads DEF keyFiles, command, vars
<1>9. QED
  BY <1>7, <1>8 DEF Next, Step

(* Every export of an operator whose last init came to its end is bound to one
   key in all its parts. *)
THEOREM ExportsBound == Spec => ExportsAreBound
<1>1. Init => KeysHold
  BY DEF Init, KeysHold, FileName
<1>2. ASSUME TypeInv, KeysHold, [Next]_vars
      PROVE  \A d \in DOMAIN packages' \ DOMAIN packages :
                LET p == packages'[d] IN
                p.damaged = "nothing" =>
                   p.source \in cutInit \/ (KeysBound(p) /\ p.signed = p.public)
  <2>1. ASSUME NEW o \in Operator, WriteExport(o)
        PROVE  \A d \in DOMAIN packages' \ DOMAIN packages :
                  LET p == packages'[d] IN
                  p.damaged = "nothing" =>
                     p.source \in cutInit \/ (KeysBound(p) /\ p.signed = p.public)
    <3>1. job[o].observation \in Observation /\ pc[o] \notin InitSteps
      BY <1>2, <2>1 DEF WriteExport, At, TypeInv, JobsHold, InitSteps
    <3>2. PICK reading \in Readings(evidence[o][job[o].observation]) :
             /\ Exported(o, job[o].observation, reading) \in Package
             /\ packages' = Append(packages, Exported(o, job[o].observation, reading))
      BY <1>2, <2>1, ExportWritten
    <3> DEFINE p == Exported(o, job[o].observation, reading)
    <3>3. /\ DOMAIN packages' = DOMAIN packages \cup {Len(packages')}
          /\ packages'[Len(packages')] = p
      BY <1>2, <2>1, <3>1, <3>2, NewContent DEF WriteExport
    <3>4. o \in cutInit \/ (KeysBound(p) /\ p.signed = p.public)
      <4>1. CASE o \in cutInit
        BY <4>1
      <4>2. CASE o \notin cutInit
        <5>1. \A file \in FileName : keyOf[o][file] = keyOf[o]["private"]
          BY <1>2, <3>1, <4>2 DEF KeysHold
        <5>2. QED
          BY <5>1 DEF KeysBound, Exported, FileName
      <4>3. QED
        BY <4>1, <4>2
    <3>5. p.source = o
      BY DEF Exported
    <3>6. QED
      BY <3>3, <3>4, <3>5
  <2>2. ASSUME NEW o \in Operator, NEW b \in Observation, NEW part \in Fragile,
               Damage(o, b, part)
        PROVE  \A d \in DOMAIN packages' \ DOMAIN packages : packages'[d].damaged # "nothing"
    <3>1. packages[exports[o][b]] \in Package
      BY <1>2, <2>2 DEF Damage, TypeInv, TransportTypes
    <3> DEFINE p == [packages[exports[o][b]] EXCEPT !.damaged = part]
    <3>2. p \in Package /\ p.damaged # "nothing"
      BY <3>1, DamageType
    <3>3. packages' = Append(packages, p)
      BY <2>2 DEF Damage
    <3>4. packages \in Seq(Package)
      BY <1>2 DEF TypeInv, TransportTypes
    <3> HIDE DEF p
    <3>5. \A d \in DOMAIN packages' \ DOMAIN packages : packages'[d] = p
      BY <3>2, <3>3, <3>4
    <3>6. QED
      BY <3>2, <3>5
  <2>3. CASE UNCHANGED packages
    BY <2>3
  <2>4. CASE UNCHANGED transport
    BY <2>3, <2>4 DEF transport
  <2>5. ASSUME NEW o \in Operator, ExportCommand(o), ~ WriteExport(o)
        PROVE  UNCHANGED packages
    BY <2>5 DEF ExportCommand, OpenExport
  <2>6. ASSUME NEW o \in Operator, Disturbance(o),
               ~ \E b \in Observation, part \in Fragile : Damage(o, b, part)
        PROVE  UNCHANGED packages
    BY <2>6 DEF Disturbance, Stop, SetAvailability, Lose, transport
  <2>7. QED
    BY <1>2, <2>1, <2>2, <2>3, <2>4, <2>5, <2>6, InitCustody, TransportWritten, HistoryReads
    DEF Next, Step, vars
<1>3. TypeInv /\ KeysHold /\ [Next]_vars =>
         [\A d \in DOMAIN packages' \ DOMAIN packages :
             LET p == packages'[d] IN
             p.damaged = "nothing" =>
                p.source \in cutInit \/ (KeysBound(p) /\ p.signed = p.public)]_vars
  BY <1>2
<1>4. QED
  BY <1>1, <1>3, InitTyped, StepTyped, KeysStep, PTL DEF Spec, ExportsAreBound

-----------------------------------------------------------------------------
(* Queries *)

(* What the visits so far have found. *)
QueryHold ==
    /\ query.found \subseteq query.listed
    /\ query.state = "answered" => query.todo = {}
    /\ query.state \in {"asking", "answered"} =>
          \A h \in steady : h[1] \in query.todo \/ h[2] \in query.found

LEMMA QueryKept ==
    ASSUME TypeInv, NEW o \in Operator,
           \/ InitCommand(o) \/ CaptureCommand(o) \/ ExportCommand(o)
           \/ ImportCommand(o) \/ Disturbance(o)
    PROVE  query' = query
<1>1. CASE InitCommand(o) \/ ExportCommand(o)
  BY <1>1, InitCustody, ExportCustody DEF surroundings
<1>2. CASE CaptureCommand(o)
  BY <1>2 DEF CaptureCommand, Capture, WriteBundle, IndexCapture, surroundings
<1>3. CASE ImportCommand(o)
  BY <1>3 DEF ImportCommand, ReadDigest, Verify, Refuse, Discard, Retain, IndexImport,
              Accept, FailImport, surroundings
<1>4. CASE Disturbance(o)
  BY <1>4 DEF Disturbance, Stop, SetAvailability, Lose, Damage
<1>5. QED
  BY <1>1, <1>2, <1>3, <1>4

LEMMA QueryStep == TypeInv /\ QueryHold /\ [Next]_vars => QueryHold'
<1> SUFFICES ASSUME TypeInv, QueryHold, [Next]_vars
             PROVE  QueryHold'
  OBVIOUS
<1>1. CASE UNCHANGED vars
  BY <1>1 DEF QueryHold, vars, surroundings
<1>2. CASE Next /\ ~ (query.state # "asking" /\ query'.state = "asking")
  <2>1. steady' \subseteq steady /\ steady' \subseteq Shown'
    BY <1>2 DEF Next, WatchQuery
  <2>2. CASE query' = query
    BY <2>1, <2>2 DEF QueryHold
  <2>3. ASSUME NEW o \in Operator, VisitUnavailable(o)
        PROVE  QueryHold'
    <3>1. query' = [query EXCEPT !.todo = query.todo \ {o},
                                 !.unavailable = query.unavailable \cup {o}]
      BY <2>3 DEF VisitUnavailable
    <3>2. query \in Query
      BY DEF TypeInv, OtherTypes
    <3>3. /\ query'.state = query.state /\ query'.todo = query.todo \ {o}
          /\ query'.found = query.found /\ query'.listed = query.listed
      BY <3>1, <3>2 DEF Query
    <3>4. \A h \in steady' : h[1] # o
      <4>1. UNCHANGED <<offline, keyOf>> /\ ~ Available(o)
        BY <2>3 DEF VisitUnavailable, keyFiles
      <4>2. \A h \in Shown' : h[1] # o
        BY <4>1 DEF Shown, Available
      <4>3. QED
        BY <2>1, <4>2
    <3>5. QED
      BY <2>1, <3>3, <3>4 DEF QueryHold
  <2>4. ASSUME NEW o \in Operator, VisitFails(o)
        PROVE  QueryHold'
    <3>1. /\ query'.state = "failed"
          /\ query'.found = query.found /\ query'.listed = query.listed
      BY <2>4 DEF VisitFails, TypeInv, OtherTypes, Query
    <3>2. QED
      BY <3>1 DEF QueryHold
  <2>5. ASSUME NEW o \in Operator, Visit(o)
        PROVE  QueryHold'
    <3>1. UNCHANGED <<evidence, manifests>> /\ query.state = "asking"
      BY <2>5 DEF Visit, custody
    <3>2. \A h \in Shown' : h[1] = o => h[2] \in {b \in Listed(o) : Intact(o, b)}
      BY <3>1 DEF Shown, Listed, Intact
    <3>3. \A h \in steady' : h[1] \in query'.todo \/ h[2] \in query'.found
      BY <2>1, <2>5, <3>1, <3>2, VisitAdds DEF QueryHold
    <3>4. query'.found \subseteq query'.listed
      BY <2>5, VisitAdds DEF QueryHold
    <3>5. query'.state = "asking"
      BY <2>5, <3>1, VisitAdds
    <3>6. QED
      BY <3>3, <3>4, <3>5 DEF QueryHold
  <2>6. CASE AnswerQuery
    <3>1. /\ query.todo = {} /\ query.state = "asking" /\ query'.state = "answered"
          /\ query'.todo = query.todo
          /\ query'.found = query.found /\ query'.listed = query.listed
      BY <2>6 DEF AnswerQuery, TypeInv, OtherTypes, Query
    <3>2. QED
      BY <2>1, <3>1 DEF QueryHold
  <2>7. ~ Ask
    BY <1>2 DEF Ask, Asked
  <2>8. QED
    BY <1>2, <2>2, <2>3, <2>4, <2>5, <2>6, <2>7, QueryKept DEF Next, Step, HistoryCommand
<1>3. CASE Next /\ query.state # "asking" /\ query'.state = "asking"
  <2>1. Ask
    <3>1. query' # query
      BY <1>3
    <3>2. HistoryCommand
      BY <1>3, <3>1, QueryKept DEF Next, Step
    <3>3. QED
      BY <1>3, <3>2 DEF HistoryCommand, VisitUnavailable, VisitFails, Visit, AnswerQuery
  <2>2. query' = Asked("asking", Operator)
    BY <2>1 DEF Ask
  <2>3. \A h \in steady' : h[1] \in Operator
    BY <1>3 DEF Next, WatchQuery, Shown
  <2>4. QED
    BY <2>2, <2>3 DEF QueryHold, Asked
<1>4. QED
  BY <1>1, <1>2, <1>3

(* A query finds what was there all the time it took, and tells two captures
   that were there from one. *)
THEOREM SteadyFound == Spec => []SteadyIsFound
<1>1. Init => QueryHold
  BY DEF Init, QueryHold, NoQuery, Asked
<1>2. TypeInv /\ QueryHold => SteadyIsFound
  <2> SUFFICES ASSUME TypeInv, QueryHold
               PROVE  SteadyIsFound
    OBVIOUS
  <2>1. ASSUME query.state = "answered", Cardinality({h[2] : h \in steady}) > 1
        PROVE  HistoryStatus(query) = "CONFLICT"
    <3> DEFINE Seen == {h[2] : h \in steady}
    <3>1. Seen \subseteq query.found
      BY <2>1 DEF QueryHold
    <3>2. query.found \subseteq Observation
      BY DEF TypeInv, OtherTypes, Query
    <3>3. IsFiniteSet(query.found)
      BY <3>2, FS_Subset, DemoAssumption
    <3>4. IsFiniteSet(Seen) /\ Cardinality(Seen) <= Cardinality(query.found)
      BY <3>1, <3>3, FS_Subset
    <3>5. Cardinality(Seen) \in Nat /\ Cardinality(query.found) \in Nat
      BY <3>3, <3>4, FS_CardinalityType
    <3>6. Cardinality(query.found) > 1
      BY <2>1, <3>4, <3>5
    <3>7. query.listed # {}
      <4>1. query.found # {}
        BY <3>6, FS_EmptySet
      <4>2. QED
        BY <4>1 DEF QueryHold
    <3>8. QED
      BY <3>5, <3>6, <3>7 DEF HistoryStatus
  <2>2. QED
    BY <2>1 DEF SteadyIsFound, QueryHold
<1>3. QED
  BY <1>1, <1>2, InitTyped, StepTyped, QueryStep, PTL DEF Spec

-----------------------------------------------------------------------------
(* Receipts *)

(* Numbers that name a content, or none. *)
Named(d) == d \in DOMAIN packages \cup {Missing, Torn}

(* An export file holds a package of the Observation it is named after, and a
   job or a receipt only names a content there is. *)
NamesHold ==
    /\ \A o \in Operator, b \in Observation :
          /\ Named(exports[o][b])
          /\ exports[o][b] \in DOMAIN packages => packages[exports[o][b]].observation = b
    /\ \A o \in Operator : pc[o] \in ImportSteps =>
          /\ Named(job[o].digest)
          /\ job[o].digest \in DOMAIN packages =>
                packages[job[o].digest].observation = job[o].observation
    /\ \A o \in Operator, d \in Digest : receipts[o][d] = "ACCEPTED" => Named(d)

(* What there is of an Observation was captured, and a capture is made once. *)
OnceHold ==
    /\ DOMAIN packages \subseteq Digest
    /\ \A d \in DOMAIN packages : packages[d].observation \in captured
    /\ \A o \in Operator, b \in Observation :
          evidence[o][b].state # "absent" => b \in captured
    /\ \A o \in Operator : pc[o] \in {"bundle", "zip", "discard", "retain"} =>
          job[o].observation \in captured

(* What an import has written when it comes to the receipt. *)
WrittenHold ==
    \A o \in Operator :
       /\ pc[o] \in {"retained", "receipt"} => evidence[o][job[o].observation].state \in Complete
       /\ pc[o] = "receipt" => job[o].observation \in manifests[o]

(* Custody, with the index entry that is kept while a bundle is rewritten. *)
Kept(o, b) ==
    \/ b \in cut[o]
    \/ /\ b \in manifests[o]
       /\ evidence[o][b].state \in Complete \/ (At(o, "retain") /\ job[o].observation = b)

KeptHold ==
    \A o \in Operator : \A d \in DOMAIN packages :
       receipts[o][d] = "ACCEPTED" => Kept(o, packages[d].observation)

(* A number that names a content, or none, goes on to do so. *)
LEMMA NumberKept ==
    ASSUME TypeInv, [Next]_vars, NEW d, Named(d)
    PROVE  /\ Named(d)'
           /\ d \in DOMAIN packages' => d \in DOMAIN packages /\ packages'[d] = packages[d]
<1>1. TypeInv'
  BY StepTyped
<1>2. Missing \notin DOMAIN packages' /\ Torn \notin DOMAIN packages'
  BY <1>1 DEF TypeInv, TransportTypes, Missing, Torn
<1>3. CASE d \in DOMAIN packages
  BY <1>3, PackagesKept DEF Named
<1>4. CASE d \in {Missing, Torn}
  BY <1>2, <1>4 DEF Named
<1>5. QED
  BY <1>3, <1>4 DEF Named

(* The job of an import is set when the export is looked for. *)
LEMMA ImportJobKept ==
    ASSUME TypeInv, [Next]_vars, NEW v \in Operator, pc'[v] \in ImportSteps
    PROVE  \/ /\ pc[v] \in ImportSteps
              /\ job'[v].digest = job[v].digest
              /\ job'[v].observation = job[v].observation
           \/ \E source \in Operator, b \in Observation : ReadDigest(v, source, b)
<1> DEFINE Goal ==
       \/ /\ pc[v] \in ImportSteps
          /\ job'[v].digest = job[v].digest
          /\ job'[v].observation = job[v].observation
       \/ \E source \in Operator, b \in Observation : ReadDigest(v, source, b)
<1>1. pc'[v] = pc[v] /\ job'[v] = job[v] => Goal
  OBVIOUS
<1>2. ASSUME NEW o \in Operator,
             \/ InitCommand(o) \/ CaptureCommand(o) \/ ExportCommand(o)
             \/ ImportCommand(o) \/ Disturbance(o)
      PROVE  Goal
  <2> USE DEF TypeInv, CommandTypes, GoTo, Finish, At, ImportSteps
  <2>1. CASE v # o
    BY <1>1, <1>2, <2>1, OthersKeep DEF Others
  <2>2. CASE v = o /\ InitCommand(o)
    BY <2>2 DEF InitCommand, BeginInit, BeginRotation, RemovePublicKey, WritePrivateKey, WritePublicKey,
                WriteIdentity, WriteFile, WriteDescriptor
  <2>3. CASE v = o /\ (CaptureCommand(o) \/ ExportCommand(o))
    BY <2>3 DEF CaptureCommand, Capture, WriteBundle, IndexCapture, ExportCommand, OpenExport,
                WriteExport
  <2>4. CASE v = o /\ ImportCommand(o)
    <3>1. CASE Verify(o)
      BY <2>4, <3>1 DEF Verify, Job
    <3>2. CASE Discard(o) \/ Retain(o) \/ IndexImport(o)
      BY <2>4, <3>2 DEF Discard, Retain, IndexImport
    <3>3. CASE Refuse(o) \/ Accept(o) \/ FailImport(o)
      BY <2>4, <3>3 DEF Refuse, Accept, FailImport
    <3>4. QED
      BY <2>4, <3>1, <3>2, <3>3 DEF ImportCommand
  <2>5. CASE v = o /\ Disturbance(o)
    BY <1>1, <2>5 DEF Disturbance, Stop, SetAvailability, Lose, Damage, command
  <2>6. QED
    BY <1>2, <2>1, <2>2, <2>3, <2>4, <2>5
<1>3. CASE UNCHANGED command
  BY <1>1, <1>3 DEF command
<1>4. QED
  BY <1>2, <1>3, HistoryReads DEF Next, Step, vars

(* Only the last step of an import says that it was accepted. *)
LEMMA ReceiptsWritten ==
    ASSUME TypeInv, [Next]_vars, NEW v \in Operator, NEW d \in Digest,
           receipts'[v][d] = "ACCEPTED"
    PROVE  receipts[v][d] = "ACCEPTED" \/ (Accept(v) /\ d = job[v].digest)
<1> DEFINE Goal == receipts[v][d] = "ACCEPTED" \/ (Accept(v) /\ d = job[v].digest)
<1>1. receipts'[v] = receipts[v] => Goal
  OBVIOUS
<1>2. ASSUME NEW o \in Operator,
             \/ InitCommand(o) \/ CaptureCommand(o) \/ ExportCommand(o)
             \/ ImportCommand(o) \/ Disturbance(o)
      PROVE  Goal
  <2>1. CASE v # o
    BY <1>1, <1>2, <2>1, OthersKeep DEF Others
  <2>2. CASE v = o /\ (InitCommand(o) \/ ExportCommand(o))
    BY <1>1, <2>2, InitCustody, ExportCustody DEF custody
  <2>3. CASE v = o /\ CaptureCommand(o)
    BY <1>1, <2>3 DEF CaptureCommand, Capture, WriteBundle, IndexCapture
  <2>4. ASSUME v = o, NEW status \in Status, Record(o, status)
        PROVE  receipts[v][d] = "ACCEPTED" \/ (d = job[v].digest /\ status = "ACCEPTED")
    <3>1. receipts' = [receipts EXCEPT ![o] = [receipts[o] EXCEPT ![job[o].digest] = status]]
      BY <2>4 DEF Record
    <3>2. receipts'[o] = [receipts[o] EXCEPT ![job[o].digest] = status]
      BY <3>1 DEF TypeInv, CustodyTypes
    <3>3. receipts[o] \in [Digest -> Status]
      BY DEF TypeInv, CustodyTypes
    <3>4. QED
      BY <2>4, <3>2, <3>3
  <2>5. CASE v = o /\ (Refuse(o) \/ FailImport(o))
    BY <2>4, <2>5 DEF Refuse, FailImport, Status
  <2>6. CASE v = o /\ Accept(o)
    BY <2>4, <2>6 DEF Accept, Status
  <2>7. CASE v = o /\ ImportCommand(o) /\ ~ (Refuse(o) \/ FailImport(o) \/ Accept(o))
    BY <1>1, <2>7 DEF ImportCommand, ReadDigest, Verify, Discard, Retain, IndexImport, custody
  <2>8. CASE v = o /\ Disturbance(o)
    BY <1>1, <2>8 DEF Disturbance, Stop, SetAvailability, Lose, Damage, custody
  <2>9. QED
    BY <1>2, <2>1, <2>2, <2>3, <2>5, <2>6, <2>7, <2>8
<1>3. CASE UNCHANGED custody
  BY <1>1, <1>3 DEF custody
<1>4. QED
  BY <1>2, <1>3, HistoryReads DEF Next, Step, vars

(* What is written to an export file is a package of its Observation. *)
LEMMA ExportNamed ==
    ASSUME TypeInv, NamesHold, [Next]_vars, NEW v \in Operator, NEW b \in Observation
    PROVE  /\ Named(exports[v][b])'
           /\ exports'[v][b] \in DOMAIN packages' =>
                 packages'[exports'[v][b]].observation = b
<1> DEFINE Goal ==
       /\ Named(exports[v][b])'
       /\ exports'[v][b] \in DOMAIN packages' =>
             packages'[exports'[v][b]].observation = b
<1>1. ASSUME exports'[v][b] = exports[v][b]
      PROVE  Goal
  <2>1. Named(exports[v][b])
    BY DEF NamesHold
  <2>2. \/ exports[v][b] \notin DOMAIN packages'
        \/ exports[v][b] \in DOMAIN packages /\ packages'[exports[v][b]] = packages[exports[v][b]]
    BY <2>1, NumberKept
  <2>3. exports[v][b] \in DOMAIN packages' \cup {Missing, Torn}
    BY <2>1, NumberKept DEF Named
  <2>4. QED
    BY <1>1, <2>2, <2>3 DEF NamesHold, Named
<1>2. ASSUME NEW o \in Operator, NEW c \in Observation, NEW p \in Package, p.observation = c,
             Len(packages) < MaxPackages,
             packages' = Append(packages, p),
             exports' = [exports EXCEPT ![o][c] = Len(packages')]
      PROVE  Goal
  <2>1. CASE v = o /\ b = c
    <3>1. exports'[v][b] = Len(packages')
      BY <1>2, <2>1 DEF TypeInv, TransportTypes
    <3>2. Len(packages') \in DOMAIN packages' /\ packages'[Len(packages')] = p
      BY <1>2, NewContent
    <3>3. QED
      BY <1>2, <2>1, <3>1, <3>2 DEF Named
  <2>2. CASE ~ (v = o /\ b = c)
    <3>1. exports'[v][b] = exports[v][b]
      BY <1>2, <2>2 DEF TypeInv, TransportTypes
    <3>2. QED
      BY <1>1, <3>1
  <2>3. QED
    BY <2>1, <2>2
<1>3. ASSUME NEW o \in Operator, NEW c \in Observation, OpenExport(o, c)
      PROVE  Goal
  <2>1. CASE v = o /\ b = c
    <3>1. exports'[v][b] = Torn
      BY <1>3, <2>1 DEF OpenExport, TypeInv, TransportTypes
    <3>2. packages' = packages
      BY <1>3 DEF OpenExport
    <3>3. Torn \notin DOMAIN packages
      BY DEF TypeInv, TransportTypes, Torn
    <3>4. QED
      BY <3>1, <3>2, <3>3 DEF Named
  <2>2. CASE ~ (v = o /\ b = c)
    <3>1. exports'[v][b] = exports[v][b]
      BY <1>3, <2>2 DEF OpenExport, TypeInv, TransportTypes
    <3>2. QED
      BY <1>1, <3>1
  <2>3. QED
    BY <2>1, <2>2
<1>4. ASSUME NEW o \in Operator, WriteExport(o)
      PROVE  Goal
  <2>1. job[o].observation \in Observation
    BY <1>4 DEF WriteExport, At, TypeInv, JobsHold
  <2>2. PICK p \in Package :
           p.observation = job[o].observation /\ packages' = Append(packages, p)
    BY <1>4, ExportWritten
  <2>3. QED
    BY <1>2, <1>4, <2>1, <2>2 DEF WriteExport
<1>5. ASSUME NEW o \in Operator, NEW c \in Observation, NEW part \in Fragile,
             Damage(o, c, part)
      PROVE  Goal
  <2>1. packages[exports[o][c]] \in Package /\ packages[exports[o][c]].observation = c
    BY <1>5 DEF Damage, TypeInv, TransportTypes, NamesHold
  <2>2. /\ [packages[exports[o][c]] EXCEPT !.damaged = part] \in Package
        /\ [packages[exports[o][c]] EXCEPT !.damaged = part].observation = c
    BY <2>1, DamageType
  <2>3. QED
    BY <1>2, <1>5, <2>2 DEF Damage
<1>6. CASE UNCHANGED transport
  BY <1>1, <1>6 DEF transport
<1>7. ASSUME NEW o \in Operator, Disturbance(o)
      PROVE  Goal
  BY <1>5, <1>6, <1>7 DEF Disturbance, Stop, SetAvailability, Lose
<1>8. ASSUME NEW o \in Operator, ExportCommand(o)
      PROVE  Goal
  BY <1>3, <1>4, <1>8 DEF ExportCommand
<1>9. QED
  BY <1>6, <1>7, <1>8, InitCustody, TransportWritten, HistoryReads DEF Next, Step, vars

LEMMA NamesStep == TypeInv /\ NamesHold /\ [Next]_vars => NamesHold'
<1> SUFFICES ASSUME TypeInv, NamesHold, [Next]_vars
             PROVE  NamesHold'
  OBVIOUS
<1>1. ASSUME NEW v \in Operator, pc'[v] \in ImportSteps
      PROVE  /\ Named(job[v].digest)'
             /\ job'[v].digest \in DOMAIN packages' =>
                   packages'[job'[v].digest].observation = job'[v].observation
  <2>1. CASE /\ pc[v] \in ImportSteps
             /\ job'[v].digest = job[v].digest
             /\ job'[v].observation = job[v].observation
    <3>1. /\ Named(job[v].digest)
          /\ job[v].digest \in DOMAIN packages =>
                packages[job[v].digest].observation = job[v].observation
      BY <2>1 DEF NamesHold
    <3>2. /\ job[v].digest \in DOMAIN packages' \cup {Missing, Torn}
          /\ job[v].digest \in DOMAIN packages' =>
                /\ job[v].digest \in DOMAIN packages
                /\ packages'[job[v].digest] = packages[job[v].digest]
      BY <3>1, NumberKept DEF Named
    <3>3. QED
      BY <2>1, <3>1, <3>2 DEF Named
  <2>2. ASSUME NEW source \in Operator, NEW b \in Observation, ReadDigest(v, source, b)
        PROVE  /\ Named(job[v].digest)'
               /\ job'[v].digest \in DOMAIN packages' =>
                     packages'[job'[v].digest].observation = job'[v].observation
    <3>1. job'[v].digest = exports[source][b] /\ job'[v].observation = b
      BY <2>2 DEF ReadDigest, TypeInv, CommandTypes
    <3>2. packages' = packages
      BY <2>2 DEF ReadDigest, transport
    <3>3. QED
      BY <3>1, <3>2 DEF NamesHold, Named
  <2>3. QED
    BY <1>1, <2>1, <2>2, ImportJobKept
<1>2. ASSUME NEW v \in Operator, NEW d \in Digest, receipts'[v][d] = "ACCEPTED"
      PROVE  Named(d)'
  <2>1. Named(d)
    <3>1. CASE receipts[v][d] = "ACCEPTED"
      BY <3>1 DEF NamesHold
    <3>2. CASE Accept(v) /\ d = job[v].digest
      BY <3>2 DEF Accept, At, NamesHold, ImportSteps
    <3>3. QED
      BY <1>2, <3>1, <3>2, ReceiptsWritten
  <2>2. QED
    BY <2>1, NumberKept
<1>3. \A v \in Operator, b \in Observation :
         /\ Named(exports[v][b])'
         /\ exports'[v][b] \in DOMAIN packages' =>
               packages'[exports'[v][b]].observation = b
  BY ExportNamed
<1>4. QED
  BY <1>1, <1>2, <1>3 DEF NamesHold

(* Captures are only added. *)
LEMMA CapturedKept ==
    ASSUME [Next]_vars
    PROVE  captured \subseteq captured'
<1>1. ASSUME NEW o \in Operator, InitCommand(o) \/ ExportCommand(o)
      PROVE  captured' = captured
  BY <1>1, InitCustody, ExportCustody DEF surroundings
<1>2. ASSUME NEW o \in Operator, CaptureCommand(o)
      PROVE  captured \subseteq captured'
  BY <1>2 DEF CaptureCommand, Capture, WriteBundle, IndexCapture, surroundings
<1>3. ASSUME NEW o \in Operator, ImportCommand(o)
      PROVE  captured' = captured
  BY <1>3 DEF ImportCommand, ReadDigest, Verify, Refuse, Discard, Retain, IndexImport,
              Accept, FailImport, surroundings
<1>4. ASSUME NEW o \in Operator, Disturbance(o)
      PROVE  captured' = captured
  BY <1>4 DEF Disturbance, Stop, SetAvailability, Lose, Damage
<1>5. QED
  BY <1>1, <1>2, <1>3, <1>4, HistoryReads DEF Next, Step, vars, surroundings

LEMMA OnceStep == TypeInv /\ NamesHold /\ OnceHold /\ [Next]_vars => OnceHold'
<1> SUFFICES ASSUME TypeInv, NamesHold, OnceHold, [Next]_vars
             PROVE  OnceHold'
  OBVIOUS
<1> USE CapturedKept
<1>1. ASSUME NEW d \in DOMAIN packages'
      PROVE  packages'[d].observation \in captured'
  <2>1. CASE d \in DOMAIN packages
    BY <2>1, PackagesKept DEF OnceHold
  <2>2. CASE UNCHANGED packages
    BY <2>2 DEF OnceHold
  <2>3. ASSUME NEW p \in Package, p.observation \in captured, packages' = Append(packages, p)
        PROVE  packages'[d].observation \in captured'
    <3>1. packages'[d] = p \/ d \in DOMAIN packages
      BY <2>3 DEF TypeInv, TransportTypes
    <3>2. QED
      BY <2>1, <2>3, <3>1
  <2>4. ASSUME NEW o \in Operator, WriteExport(o)
        PROVE  packages'[d].observation \in captured'
    <3>1. job[o].observation \in Observation /\ job[o].observation \in captured
      BY <2>4 DEF WriteExport, At, TypeInv, JobsHold, OnceHold
    <3>2. PICK p \in Package :
             p.observation = job[o].observation /\ packages' = Append(packages, p)
      BY <2>4, ExportWritten
    <3>3. QED
      BY <2>3, <3>1, <3>2
  <2>5. ASSUME NEW o \in Operator, NEW c \in Observation, NEW part \in Fragile,
               Damage(o, c, part)
        PROVE  packages'[d].observation \in captured'
    <3>1. /\ packages[exports[o][c]] \in Package
          /\ packages[exports[o][c]].observation \in captured
      BY <2>5 DEF Damage, TypeInv, TransportTypes, OnceHold
    <3>2. /\ [packages[exports[o][c]] EXCEPT !.damaged = part] \in Package
          /\ [packages[exports[o][c]] EXCEPT !.damaged = part].observation \in captured
      BY <3>1, DamageType
    <3>3. QED
      BY <2>3, <2>5, <3>2 DEF Damage
  <2>6. ASSUME NEW o \in Operator, ExportCommand(o)
        PROVE  packages'[d].observation \in captured'
    BY <2>2, <2>4, <2>6 DEF ExportCommand, OpenExport
  <2>7. ASSUME NEW o \in Operator, Disturbance(o)
        PROVE  packages'[d].observation \in captured'
    BY <2>2, <2>5, <2>7 DEF Disturbance, Stop, SetAvailability, Lose, transport
  <2>8. CASE UNCHANGED transport
    BY <2>2, <2>8 DEF transport
  <2>9. QED
    BY <2>6, <2>7, <2>8, InitCustody, TransportWritten, HistoryReads DEF Next, Step, vars
<1>2. ASSUME NEW v \in Operator, NEW b \in Observation, evidence'[v][b].state # "absent"
      PROVE  b \in captured'
  <2> USE DEF TypeInv, CustodyTypes
  <2>1. CASE evidence'[v][b] = evidence[v][b]
    BY <1>2, <2>1 DEF OnceHold
  <2>8. ASSUME NEW o \in Operator, CutOffLeaves(o)
        PROVE  b \in captured'
    <3>1. \/ evidence'[v][b] = evidence[v][b]
          \/ b = job[o].observation /\ pc[o] \in {"bundle", "discard", "retain"}
      BY <2>8 DEF CutOffLeaves
    <3>2. QED
      BY <2>1, <3>1 DEF OnceHold
  <2>2. ASSUME NEW o \in Operator, InitCommand(o) \/ ExportCommand(o)
        PROVE  b \in captured'
    BY <2>1, <2>2, InitCustody, ExportCustody DEF custody
  <2>3. ASSUME NEW o \in Operator, CaptureCommand(o)
        PROVE  b \in captured'
    <3>1. ASSUME NEW c \in Observation, Capture(o, c)
          PROVE  b \in captured'
      <4>1. CASE b = c
        BY <3>1, <4>1 DEF Capture
      <4>2. CASE b # c
        BY <2>1, <3>1, <4>2 DEF Capture
      <4>3. QED
        BY <4>1, <4>2
    <3>2. CASE WriteBundle(o)
      <4>1. job[o].observation \in captured
        BY <3>2 DEF WriteBundle, At, OnceHold
      <4>2. b = job[o].observation \/ evidence'[v][b] = evidence[v][b]
        BY <3>2 DEF WriteBundle
      <4>3. QED
        BY <2>1, <4>1, <4>2
    <3>3. CASE IndexCapture(o)
      BY <2>1, <3>3 DEF IndexCapture
    <3>4. QED
      BY <2>3, <3>1, <3>2, <3>3 DEF CaptureCommand
  <2>4. ASSUME NEW o \in Operator, ImportCommand(o)
        PROVE  b \in captured'
    <3>1. CASE Discard(o) \/ Retain(o)
      <4>1. job[o].observation \in captured
        BY <3>1 DEF Discard, Retain, At, OnceHold
      <4>2. b = job[o].observation \/ evidence'[v][b] = evidence[v][b]
        BY <3>1 DEF Discard, Retain
      <4>3. QED
        BY <2>1, <4>1, <4>2
    <3>2. CASE UNCHANGED evidence
      BY <2>1, <3>2
    <3>3. CASE FailImport(o)
      BY <2>8, <3>3, CutOffWrites DEF FailImport
    <3>4. QED
      BY <2>4, <3>1, <3>2, <3>3 DEF ImportCommand, ReadDigest, Verify, Refuse, IndexImport,
                                    Accept, custody
  <2>5. ASSUME NEW o \in Operator, Disturbance(o)
        PROVE  b \in captured'
    <3>1. ASSUME NEW c \in Observation, Lose(o, c)
          PROVE  b \in captured'
      <4>1. evidence'[v][b] = evidence[v][b] \/ evidence'[v][b] = Absent
        BY <3>1 DEF Lose
      <4>2. QED
        BY <1>2, <2>1, <4>1 DEF Absent
    <3>2. CASE UNCHANGED evidence
      BY <2>1, <3>2
    <3>3. CASE Stop(o)
      BY <2>8, <3>3, CutOffWrites DEF Stop
    <3>4. QED
      BY <2>5, <3>1, <3>2, <3>3 DEF Disturbance, SetAvailability, Damage, custody
  <2>6. CASE UNCHANGED custody
    BY <2>1, <2>6 DEF custody
  <2>7. QED
    BY <2>2, <2>3, <2>4, <2>5, <2>6, HistoryReads DEF Next, Step, vars
<1>3. ASSUME NEW v \in Operator, pc'[v] \in {"bundle", "zip", "discard", "retain"}
      PROVE  job'[v].observation \in captured'
  <2> USE DEF TypeInv, CommandTypes, GoTo, Finish, At
  <2>1. pc'[v] = pc[v] /\ job'[v] = job[v] => job'[v].observation \in captured'
    BY <1>3 DEF OnceHold
  <2>2. ASSUME NEW o \in Operator,
               \/ InitCommand(o) \/ CaptureCommand(o) \/ ExportCommand(o)
               \/ ImportCommand(o) \/ Disturbance(o)
        PROVE  job'[v].observation \in captured'
    <3>1. CASE v # o
      BY <2>1, <2>2, <3>1, OthersKeep DEF Others
    <3>2. CASE v = o /\ InitCommand(o)
      BY <1>3, <3>2 DEF InitCommand, BeginInit, BeginRotation, RemovePublicKey, WritePrivateKey,
         WritePublicKey, WriteIdentity, WriteFile, WriteDescriptor
    <3>3. ASSUME v = o, NEW c \in Observation, Capture(o, c)
          PROVE  job'[v].observation \in captured'
      BY <3>3 DEF Capture, Job
    <3>4. ASSUME v = o, NEW c \in Observation, OpenExport(o, c)
          PROVE  job'[v].observation \in captured'
      <4>1. c \in captured
        BY <3>4 DEF OpenExport, OnceHold
      <4>2. job'[v].observation = c
        BY <3>4 DEF OpenExport, Job
      <4>3. QED
        BY <4>1, <4>2
    <3>5. CASE v = o /\ (WriteBundle(o) \/ IndexCapture(o) \/ WriteExport(o))
      BY <1>3, <3>5 DEF WriteBundle, IndexCapture, WriteExport
    <3>6. CASE v = o /\ Verify(o)
      <4>1. job[o].observation \in Observation /\ job[o].source \in Operator
        BY <3>6 DEF Verify, JobsHold, ImportSteps
      <4>2. SourceOf(o) \in DOMAIN packages
        BY <3>6 DEF Verify, Verified, Readable
      <4>3. packages[SourceOf(o)].observation = job[o].observation
        BY <4>1, <4>2 DEF SourceOf, NamesHold
      <4>4. job'[v].observation = job[o].observation
        BY <3>6 DEF Verify, Job
      <4>5. QED
        BY <4>2, <4>3, <4>4 DEF OnceHold
    <3>7. CASE v = o /\ Discard(o)
      BY <3>7 DEF Discard, OnceHold
    <3>8. CASE v = o /\ ImportCommand(o) /\ ~ Verify(o) /\ ~ Discard(o)
      BY <1>3, <3>8 DEF ImportCommand, ReadDigest, Refuse, Retain, IndexImport, Accept,
                        FailImport
    <3>9. CASE v = o /\ Disturbance(o)
      BY <1>3, <2>1, <3>9 DEF Disturbance, Stop, SetAvailability, Lose, Damage, command
    <3>10. QED
      BY <2>2, <3>1, <3>2, <3>3, <3>4, <3>5, <3>6, <3>7, <3>8, <3>9
      DEF CaptureCommand, ExportCommand
  <2>3. CASE UNCHANGED command
    BY <2>1, <2>3 DEF command
  <2>4. QED
    BY <2>2, <2>3, HistoryReads DEF Next, Step, vars
<1>4. DOMAIN packages' \subseteq Digest
  <2>1. ASSUME NEW p \in Package, packages' = Append(packages, p), Len(packages) < MaxPackages
        PROVE  DOMAIN packages' \subseteq Digest
    <3>1. packages' \in Seq(Package) /\ Len(packages') \in 1 .. MaxPackages
      BY <2>1, DemoAssumption DEF TypeInv, TransportTypes
    <3>2. DOMAIN packages' \subseteq 1 .. MaxPackages
      BY <3>1, DemoAssumption
    <3>3. QED
      BY <3>2, Digests2
  <2>2. UNCHANGED packages => DOMAIN packages' \subseteq Digest
    BY DEF OnceHold
  <2>3. ASSUME NEW o \in Operator, ExportCommand(o)
        PROVE  DOMAIN packages' \subseteq Digest
    <3>1. CASE WriteExport(o)
      <4>1. PICK p \in Package : packages' = Append(packages, p)
        BY <3>1, ExportWritten
      <4>2. QED
        BY <2>1, <3>1, <4>1 DEF WriteExport
    <3>2. CASE ~ WriteExport(o)
      BY <2>2, <2>3, <3>2 DEF ExportCommand, OpenExport
    <3>3. QED
      BY <3>1, <3>2
  <2>4. ASSUME NEW o \in Operator, NEW c \in Observation, NEW part \in Fragile,
               Damage(o, c, part)
        PROVE  DOMAIN packages' \subseteq Digest
    <3>1. packages[exports[o][c]] \in Package
      BY <2>4 DEF Damage, TypeInv, TransportTypes
    <3>2. [packages[exports[o][c]] EXCEPT !.damaged = part] \in Package
      BY <3>1, DamageType
    <3>3. QED
      BY <2>1, <2>4, <3>2 DEF Damage
  <2>5. ASSUME NEW o \in Operator, Disturbance(o)
        PROVE  DOMAIN packages' \subseteq Digest
    BY <2>2, <2>4, <2>5 DEF Disturbance, Stop, SetAvailability, Lose, transport
  <2>6. UNCHANGED transport => DOMAIN packages' \subseteq Digest
    BY <2>2 DEF transport
  <2>7. QED
    BY <2>3, <2>5, <2>6, InitCustody, TransportWritten, HistoryReads DEF Next, Step, vars
<1>5. QED
  BY <1>1, <1>2, <1>3, <1>4 DEF OnceHold

(* A copy that came to its end is complete. *)
LEMMA CopiedComplete == \A verified, p : Copied(verified, p).state \in Complete
BY DEF Copied, WithoutEvidence, Bare, Whole, Complete

LEMMA WrittenStep == TypeInv /\ WrittenHold /\ [Next]_vars => WrittenHold'
<1> SUFFICES ASSUME TypeInv, WrittenHold, [Next]_vars, NEW v \in Operator,
                    pc'[v] \in {"retained", "receipt"}
             PROVE  /\ evidence'[v][job'[v].observation].state \in Complete
                    /\ pc'[v] = "receipt" => job'[v].observation \in manifests'[v]
  BY DEF WrittenHold
<1> DEFINE Goal == /\ evidence'[v][job'[v].observation].state \in Complete
                   /\ pc'[v] = "receipt" => job'[v].observation \in manifests'[v]
<1>1. ASSUME pc'[v] = pc[v], job'[v] = job[v], evidence'[v] = evidence[v],
             manifests'[v] = manifests[v]
      PROVE  Goal
  BY <1>1 DEF WrittenHold
<1>2. ASSUME NEW o \in Operator,
             \/ InitCommand(o) \/ CaptureCommand(o) \/ ExportCommand(o)
             \/ ImportCommand(o) \/ Disturbance(o)
      PROVE  Goal
  <2> USE DEF TypeInv, CommandTypes, GoTo, Finish, At
  <2>1. CASE v # o
    BY <1>1, <1>2, <2>1, OthersKeep DEF Others
  <2>2. CASE v = o /\ (InitCommand(o) \/ CaptureCommand(o) \/ ExportCommand(o))
    <3>1. CASE InitCommand(o)
      BY <2>2, <3>1 DEF InitCommand, BeginInit, BeginRotation, RemovePublicKey, WritePrivateKey, WritePublicKey,
                        WriteIdentity, WriteFile, WriteDescriptor
    <3>2. CASE CaptureCommand(o) \/ ExportCommand(o)
      BY <2>2, <3>2 DEF CaptureCommand, Capture, WriteBundle, IndexCapture, ExportCommand,
                        OpenExport, WriteExport
    <3>3. QED
      BY <2>2, <3>1, <3>2
  <2>3. CASE v = o /\ Retain(o)
    <3>1. job[o].observation \in Observation /\ job' = job /\ pc'[v] = "retained"
      BY <2>3 DEF Retain, JobsHold, ImportSteps
    <3>2. evidence'[o][job[o].observation] =
             Copied(packages[job[o].verified], packages[SourceOf(o)])
      BY <2>3, <3>1 DEF Retain, CustodyTypes
    <3>3. QED
      BY <2>3, <3>1, <3>2, CopiedComplete
  <2>4. CASE v = o /\ IndexImport(o)
    <3>1. /\ pc[o] = "retained" /\ job' = job /\ evidence' = evidence
          /\ manifests'[o] = manifests[o] \cup {job[o].observation}
      BY <2>4 DEF IndexImport, CustodyTypes
    <3>2. QED
      BY <2>4, <3>1 DEF WrittenHold
  <2>5. CASE v = o /\ ImportCommand(o) /\ ~ Retain(o) /\ ~ IndexImport(o)
    BY <2>5 DEF ImportCommand, ReadDigest, Verify, Refuse, Discard, Accept, FailImport
  <2>6. CASE v = o /\ Disturbance(o)
    <3>1. CASE Stop(o)
      BY <2>6, <3>1 DEF Stop
    <3>2. CASE pc[o] = "idle" /\ UNCHANGED command
      BY <2>6, <3>2 DEF command
    <3>3. CASE UNCHANGED custody /\ UNCHANGED command
      BY <1>1, <2>6, <3>3 DEF custody, command
    <3>4. QED
      BY <2>6, <3>1, <3>2, <3>3 DEF Disturbance, SetAvailability, Lose, Damage
  <2>7. QED
    BY <1>2, <2>1, <2>2, <2>3, <2>4, <2>5, <2>6
<1>3. CASE UNCHANGED <<custody, command>>
  BY <1>1, <1>3 DEF custody, command
<1>4. QED
  BY <1>2, <1>3, HistoryReads DEF Next, Step, vars

(* What is kept stays kept, through every command of its operator and of others. *)
LEMMA KeptStays ==
    ASSUME TypeInv, WrittenHold, [Next]_vars, NEW v \in Operator, NEW b \in Observation,
           b \in captured, Kept(v, b)
    PROVE  Kept(v, b)'
<1> DEFINE Goal == Kept(v, b)'
<1>1. ASSUME pc'[v] = pc[v], job'[v] = job[v], evidence'[v] = evidence[v],
             manifests'[v] = manifests[v], cut'[v] = cut[v]
      PROVE  Goal
  BY <1>1 DEF Kept, At
<1>2. ASSUME pc[v] # "retain", evidence'[v][b] = evidence[v][b],
             manifests[v] \subseteq manifests'[v], cut[v] \subseteq cut'[v]
      PROVE  Goal
  BY <1>2 DEF Kept, At
<1>10. ASSUME CutOffLeaves(v), manifests' = manifests
      PROVE  Goal
  <2>1. \/ evidence'[v][b] = evidence[v][b]
        \/ b \in cut'[v]
    BY <1>10 DEF CutOffLeaves
  <2>2. cut[v] \subseteq cut'[v] /\ (pc[v] = "retain" => job[v].observation \in cut'[v])
    BY <1>10 DEF CutOffLeaves
  <2>3. QED
    BY <1>10, <2>1, <2>2 DEF Kept, At
<1>3. ASSUME NEW o \in Operator, v = o, CaptureCommand(o)
      PROVE  Goal
  <2> USE DEF TypeInv, CustodyTypes, CommandTypes
  <2>1. ASSUME NEW c \in Observation, Capture(o, c)
        PROVE  Goal
    BY <1>2, <1>3, <2>1 DEF Capture, Begin, At, history
  <2>2. CASE WriteBundle(o)
    <3>1. pc[v] = "bundle" /\ cut' = cut /\ manifests' = manifests
      BY <1>3, <2>2 DEF WriteBundle, At, history
    <3>2. evidence'[v][b] = evidence[v][b] \/ evidence'[v][b].state \in Complete
      BY <1>3, <2>2 DEF WriteBundle, Whole, Complete
    <3>3. QED
      BY <3>1, <3>2 DEF Kept, At
  <2>3. CASE IndexCapture(o)
    BY <1>2, <1>3, <2>3 DEF IndexCapture, At, history
  <2>4. QED
    BY <1>3, <2>1, <2>2, <2>3 DEF CaptureCommand
<1>4. ASSUME NEW o \in Operator, v = o, ImportCommand(o)
      PROVE  Goal
  <2> USE DEF TypeInv, CustodyTypes, CommandTypes
  <2>1. CASE Discard(o)
    <3>1. /\ pc[v] = "discard" /\ pc'[v] = "retain" /\ job' = job
          /\ cut' = cut /\ manifests' = manifests
      BY <1>4, <2>1 DEF Discard, At, GoTo, history
    <3>2. evidence'[v][b] = evidence[v][b] \/ b = job[v].observation
      BY <1>4, <2>1 DEF Discard
    <3>3. QED
      BY <3>1, <3>2 DEF Kept, At
  <2>2. CASE Retain(o)
    <3>1. cut' = cut /\ manifests' = manifests
      BY <2>2 DEF Retain
    <3>2. CASE b = job[v].observation
      <4>1. evidence'[v][b] = Copied(packages[job[o].verified], packages[SourceOf(o)])
        BY <1>4, <2>2, <3>2 DEF Retain
      <4>2. QED
        BY <3>1, <4>1, CopiedComplete DEF Kept
    <3>3. CASE b # job[v].observation
      <4>1. evidence'[v][b] = evidence[v][b]
        BY <1>4, <2>2, <3>3 DEF Retain
      <4>2. QED
        BY <3>1, <3>3, <4>1 DEF Kept
    <3>4. QED
      BY <3>2, <3>3
  <2>3. CASE IndexImport(o)
    <3>1. /\ pc[v] = "retained" /\ evidence' = evidence
          /\ manifests'[v] = manifests[v] \cup {job[v].observation}
          /\ cut'[v] = cut[v] \ {job[v].observation}
      BY <1>4, <2>3 DEF IndexImport, At
    <3>2. CASE b = job[v].observation
      BY <3>1, <3>2 DEF WrittenHold, Kept
    <3>3. CASE b # job[v].observation
      BY <3>1, <3>3 DEF Kept, At
    <3>4. QED
      BY <3>2, <3>3
  <2>4. CASE FailImport(o)
    BY <1>4, <1>10, <2>4, CutOffWrites DEF FailImport
  <2>5. CASE \/ \E source \in Operator, c \in Observation : ReadDigest(o, source, c)
             \/ Verify(o) \/ Refuse(o) \/ Accept(o)
    BY <1>2, <1>4, <2>5 DEF ReadDigest, Verify, Refuse, Accept, Begin, At, custody, history
  <2>6. QED
    BY <1>4, <2>1, <2>2, <2>3, <2>4, <2>5 DEF ImportCommand
<1>5. ASSUME NEW o \in Operator, v = o, Disturbance(o)
      PROVE  Goal
  <2> USE DEF TypeInv, CustodyTypes, CommandTypes
  <2>1. CASE Stop(o)
    BY <1>5, <1>10, <2>1, CutOffWrites DEF Stop
  <2>2. ASSUME NEW c \in Observation, Lose(o, c)
        PROVE  Goal
    <3>1. /\ pc[v] = "idle" /\ cut'[v] = cut[v] \cup {c}
          /\ manifests'[v] = manifests[v] \ {c}
      BY <1>5, <2>2 DEF Lose, At
    <3>2. CASE b = c
      BY <3>1, <3>2 DEF Kept
    <3>3. CASE b # c
      <4>1. evidence'[v][b] = evidence[v][b]
        BY <1>5, <2>2, <3>3 DEF Lose
      <4>2. QED
        BY <3>1, <3>3, <4>1 DEF Kept, At
    <3>4. QED
      BY <3>2, <3>3
  <2>3. CASE UNCHANGED <<custody, command>>
    BY <1>1, <2>3 DEF custody, command, history
  <2>4. QED
    BY <1>5, <2>1, <2>2, <2>3 DEF Disturbance, SetAvailability, Damage
<1>6. ASSUME NEW o \in Operator, v = o, InitCommand(o) \/ ExportCommand(o)
      PROVE  Goal
  <2>1. UNCHANGED custody
    BY <1>6, InitCustody, ExportCustody
  <2>2. pc[v] # "retain"
    BY <1>6 DEF InitCommand, BeginInit, BeginRotation, RemovePublicKey, WritePrivateKey, WritePublicKey,
                WriteIdentity, WriteFile, WriteDescriptor, ExportCommand, OpenExport,
                WriteExport, Begin, At
  <2>3. QED
    BY <1>2, <2>1, <2>2 DEF custody, history
<1>7. ASSUME NEW o \in Operator,
             \/ InitCommand(o) \/ CaptureCommand(o) \/ ExportCommand(o)
             \/ ImportCommand(o) \/ Disturbance(o)
      PROVE  Goal
  <2>1. CASE v # o
    BY <1>1, <1>7, <2>1, OthersKeep DEF Others
  <2>2. CASE v = o
    BY <1>3, <1>4, <1>5, <1>6, <1>7, <2>2
  <2>3. QED
    BY <2>1, <2>2
<1>8. CASE UNCHANGED <<custody, command>>
  BY <1>1, <1>8 DEF custody, command, history
<1>9. QED
  BY <1>7, <1>8, HistoryReads DEF Next, Step, vars

LEMMA KeptStep ==
    TypeInv /\ NamesHold /\ OnceHold /\ WrittenHold /\ KeptHold /\ [Next]_vars => KeptHold'
<1> SUFFICES ASSUME TypeInv, NamesHold, OnceHold, WrittenHold, KeptHold, [Next]_vars,
                    NEW v \in Operator, NEW d \in DOMAIN packages',
                    receipts'[v][d] = "ACCEPTED"
             PROVE  Kept(v, packages[d].observation)'
  BY DEF KeptHold
<1>1. d \in Digest
  BY OnceStep DEF OnceHold
<1>2. receipts[v][d] = "ACCEPTED" \/ (Accept(v) /\ d = job[v].digest)
  BY <1>1, ReceiptsWritten
<1>3. Named(d)
  <2>1. CASE receipts[v][d] = "ACCEPTED"
    BY <1>1, <2>1 DEF NamesHold
  <2>2. CASE Accept(v) /\ d = job[v].digest
    BY <2>2 DEF Accept, At, NamesHold, ImportSteps
  <2>3. QED
    BY <1>2, <2>1, <2>2
<1>4. d \in DOMAIN packages /\ packages'[d] = packages[d]
  BY <1>3, NumberKept
<1>5. packages[d].observation \in Observation /\ packages[d].observation \in captured
  <2>1. packages[d] \in Package
    BY <1>4 DEF TypeInv, TransportTypes
  <2>2. QED
    BY <1>4, <2>1 DEF Package, OnceHold
<1>6. Kept(v, packages[d].observation)
  <2>1. CASE receipts[v][d] = "ACCEPTED"
    BY <1>4, <2>1 DEF KeptHold
  <2>2. CASE Accept(v) /\ d = job[v].digest
    <3>1. pc[v] = "receipt"
      BY <2>2 DEF Accept, At
    <3>2. packages[d].observation = job[v].observation
      BY <1>4, <2>2, <3>1 DEF NamesHold, ImportSteps
    <3>3. QED
      BY <3>1, <3>2 DEF WrittenHold, Kept
  <2>3. QED
    BY <1>2, <2>1, <2>2
<1>7. Kept(v, packages[d].observation)'
  <2> DEFINE b == packages[d].observation
  <2>1. PICK c \in Observation : c = b
    BY <1>5
  <2>2. Kept(v, c)'
    BY <1>5, <1>6, <2>1, KeptStays
  <2>3. QED
    BY <1>4, <2>1, <2>2 DEF Kept, At
<1>8. QED
  BY <1>7

(* What a receipt says was accepted is held, whole and in the index, unless a
   command that rewrites it was cut off, or it was lost. *)
THEOREM CustodyKept == Spec => []CustodyIsKept
<1>1. Init => NamesHold /\ OnceHold /\ WrittenHold /\ KeptHold
  BY DEF Init, NamesHold, OnceHold, WrittenHold, KeptHold, Named, ImportSteps, Absent
<1>2. KeptHold => CustodyIsKept
  BY DEF KeptHold, CustodyIsKept, Kept
<1>3. QED
  BY <1>1, <1>2, InitTyped, StepTyped, NamesStep, OnceStep, WrittenStep, KeptStep, PTL
  DEF Spec

-----------------------------------------------------------------------------
(* Bundles *)

Bound == EvidenceParts \ {"imprint"}

(* What verified has the statement, archive and key of the capture, and evidence
   that is bound to it if there is any. *)
LEMMA VerifiedParts ==
    ASSUME NEW p \in Package, ImportStatus(p) = "VERIFIED"
    PROVE  /\ p.damaged \notin Part
           /\ Copied(p, p).changed \subseteq Bound
<1> DEFINE parts == PartsOf(p)
           b == AsBundle(p.state, parts)
<1>1. parts \subseteq Part /\ p.state \in {"bare", "whole"}
  BY DEF Package, PartsOf, Complete
<1>2. "observer_public" \notin parts /\ Digests(p) /\ StatusOf(p.state, parts) = "VERIFIED"
  BY DEF ImportStatus
<1>3. Mandatory(b) /\ TimestampOk(b)
  BY <1>2 DEF StatusOf, VerificationStatus, OfflineValid
<1>4. parts \cap {"archive", "statement", "signature"} = {}
  BY <1>3 DEF Mandatory, ArchiveBound, ManifestId, ObserverSignature, AsBundle
<1>5. CASE p.state = "whole"
  <2>1. b.stamp = "declared"
    BY <1>5 DEF AsBundle
  <2>2. Imprint(b)
    BY <1>3, <2>1 DEF TimestampOk, OfflineTimestamp
  <2>3. "imprint" \notin parts
    BY <2>2 DEF Imprint, AsBundle
  <2>4. Copied(p, p).changed = parts
    BY <1>5 DEF Copied, Whole
  <2>5. QED
    BY <1>1, <1>2, <1>4, <2>3, <2>4 DEF Part, Bound, EvidenceParts, Digests
<1>6. CASE p.state = "bare"
  <2>1. Copied(p, p).changed = parts \ EvidenceParts
    BY <1>6 DEF Copied, WithoutEvidence, Bare, Whole
  <2>2. parts \ EvidenceParts = {}
    BY <1>1, <1>2, <1>4 DEF Part, EvidenceParts
  <2>3. QED
    BY <1>2, <2>1, <2>2 DEF Digests
<1>7. QED
  BY <1>1, <1>5, <1>6

(* Between the check of a package and the copy the content that was checked is
   remembered. *)
CheckedHold ==
    \A o \in Operator : pc[o] \in {"discard", "retain"} =>
       /\ job[o].verified \in DOMAIN packages
       /\ packages[job[o].verified].observation = job[o].observation
       /\ packages[job[o].verified].damaged \notin Part
       /\ Copied(packages[job[o].verified], packages[job[o].verified]).changed \subseteq Bound

LEMMA CheckedStep == TypeInv /\ NamesHold /\ CheckedHold /\ [Next]_vars => CheckedHold'
<1> DEFINE Checked(p, b) ==
              /\ p.observation = b
              /\ p.damaged \notin Part
              /\ Copied(p, p).changed \subseteq Bound
<1> SUFFICES ASSUME TypeInv, NamesHold, CheckedHold, [Next]_vars, NEW v \in Operator,
                    pc'[v] \in {"discard", "retain"}
             PROVE  /\ job'[v].verified \in DOMAIN packages'
                    /\ Checked(packages'[job'[v].verified], job'[v].observation)
  BY DEF CheckedHold
<1> DEFINE Goal == /\ job'[v].verified \in DOMAIN packages'
                   /\ Checked(packages'[job'[v].verified], job'[v].observation)
<1>1. ASSUME pc[v] \in {"discard", "retain"}, job'[v] = job[v]
      PROVE  Goal
  <2>1. job[v].verified \in DOMAIN packages /\ Checked(packages[job[v].verified], job[v].observation)
    BY <1>1 DEF CheckedHold
  <2>2. /\ job[v].verified \in DOMAIN packages'
        /\ packages'[job[v].verified] = packages[job[v].verified]
    BY <2>1, PackagesKept
  <2>3. QED
    BY <1>1, <2>1, <2>2
<1>2. ASSUME NEW o \in Operator,
             \/ InitCommand(o) \/ CaptureCommand(o) \/ ExportCommand(o)
             \/ ImportCommand(o) \/ Disturbance(o)
      PROVE  Goal
  <2>1. CASE v # o
    BY <1>1, <1>2, <2>1, OthersKeep DEF Others
  <2>2. CASE v = o /\ Verify(o)
    <3> DEFINE d == SourceOf(o)
    <3>1. /\ d \in DOMAIN packages
          /\ ImportStatus(packages[d]) = "VERIFIED"
      BY <2>2 DEF Verify, Verified, Readable
    <3>2. packages[d] \in Package
      BY <3>1 DEF TypeInv, TransportTypes
    <3>3. job[o].observation \in Observation /\ job[o].source \in Operator
      BY <2>2 DEF Verify, At, TypeInv, JobsHold, ImportSteps
    <3>4. packages[d].observation = job[o].observation
      BY <3>1, <3>3 DEF SourceOf, NamesHold
    <3>5. Checked(packages[d], job[o].observation)
      BY <3>1, <3>2, <3>4, VerifiedParts
    <3>6. job'[v].verified = d /\ job'[v].observation = job[o].observation
      BY <2>2 DEF Verify, TypeInv, CommandTypes, Job
    <3>7. d \in DOMAIN packages' /\ packages'[d] = packages[d]
      BY <3>1, PackagesKept
    <3>8. QED
      BY <3>5, <3>6, <3>7
  <2>3. CASE v = o /\ Discard(o)
    BY <1>1, <2>3 DEF Discard, At
  <2>4. CASE v = o /\ ~ Verify(o) /\ ~ Discard(o)
    <3>1. CASE InitCommand(o)
      BY <2>4, <3>1 DEF InitCommand, BeginInit, BeginRotation, RemovePublicKey,
         WritePrivateKey, WritePublicKey, WriteIdentity, WriteFile, WriteDescriptor, GoTo,
         Finish, TypeInv, CommandTypes
    <3>2. CASE CaptureCommand(o) \/ ExportCommand(o)
      BY <2>4, <3>2 DEF CaptureCommand, Capture, WriteBundle, IndexCapture, ExportCommand,
         OpenExport, WriteExport, GoTo, Finish, TypeInv, CommandTypes
    <3>3. CASE ImportCommand(o)
      BY <2>4, <3>3 DEF ImportCommand, ReadDigest, Refuse, Retain, IndexImport, Accept,
         FailImport, GoTo, Finish, TypeInv, CommandTypes
    <3>4. CASE Disturbance(o)
      <4>1. CASE Stop(o)
        BY <2>4, <4>1 DEF Stop, GoTo, Finish, TypeInv, CommandTypes
      <4>2. CASE UNCHANGED command
        BY <1>1, <2>4, <4>2 DEF command
      <4>3. QED
        BY <3>4, <4>1, <4>2 DEF Disturbance, SetAvailability, Lose, Damage
    <3>5. QED
      BY <1>2, <3>1, <3>2, <3>3, <3>4
  <2>5. QED
    BY <2>1, <2>2, <2>3, <2>4
<1>3. CASE UNCHANGED command
  BY <1>1, <1>3 DEF command
<1>4. QED
  BY <1>2, <1>3, HistoryReads DEF Next, Step, vars

LEMMA BoundStep ==
    TypeInv /\ CheckedHold /\ RetainedIsBound /\ [Next]_vars => RetainedIsBound'
<1> SUFFICES ASSUME TypeInv, CheckedHold, RetainedIsBound, [Next]_vars,
                    NEW v \in Operator, NEW b \in Observation,
                    evidence'[v][b].state \in Complete, b \notin swapped'[v]
             PROVE  evidence'[v][b].changed \subseteq Bound
  BY DEF RetainedIsBound, Bound
<1> DEFINE Goal == evidence'[v][b].changed \subseteq Bound
<1>1. evidence'[v][b] = evidence[v][b] /\ swapped'[v] = swapped[v] => Goal
  BY DEF RetainedIsBound, Bound
<1>2. CutOffLeaves(v) => Goal
  <2> SUFFICES ASSUME CutOffLeaves(v)
               PROVE  Goal
    OBVIOUS
  <2>1. swapped' = swapped
    BY DEF CutOffLeaves
  <2>2. CASE evidence'[v][b].changed = {}
    BY <2>2
  <2>3. CASE evidence[v][b].state \in Complete /\ evidence'[v][b].changed \subseteq evidence[v][b].changed
    BY <2>1, <2>3 DEF RetainedIsBound, Bound
  <2>4. QED
    BY <1>1, <2>1, <2>2, <2>3 DEF CutOffLeaves
<1>3. ASSUME NEW o \in Operator,
             \/ InitCommand(o) \/ CaptureCommand(o) \/ ExportCommand(o)
             \/ ImportCommand(o) \/ Disturbance(o)
      PROVE  Goal
  <2>1. CASE v # o
    BY <1>1, <1>3, <2>1, OthersKeep DEF Others
  <2>2. CASE v = o /\ (InitCommand(o) \/ ExportCommand(o))
    BY <1>1, <2>2, InitCustody, ExportCustody DEF custody, history
  <2>3. CASE v = o /\ CaptureCommand(o)
    <3>1. ASSUME NEW c \in Observation, Capture(o, c)
          PROVE  Goal
      BY <1>1, <2>3, <3>1 DEF Capture, Partial, TypeInv, CustodyTypes, history
    <3>2. CASE WriteBundle(o)
      BY <1>1, <2>3, <3>2 DEF WriteBundle, Whole, TypeInv, CustodyTypes, history
    <3>3. CASE IndexCapture(o)
      BY <1>1, <3>3 DEF IndexCapture, history
    <3>4. QED
      BY <2>3, <3>1, <3>2, <3>3 DEF CaptureCommand
  <2>4. CASE v = o /\ Retain(o)
    <3> DEFINE c == job[o].observation
               new == Copied(packages[job[o].verified], packages[SourceOf(o)])
    <3>1. /\ evidence' = [evidence EXCEPT ![o][c] = new]
          /\ NoteSource(o) /\ pc[o] = "retain"
      BY <2>4 DEF Retain, At
    <3>2. c \in Observation
      BY <3>1 DEF TypeInv, JobsHold, ImportSteps
    <3>3. CASE b = c /\ SourceOf(o) = job[o].verified
      <4>1. new.changed \subseteq Bound
        BY <3>1, <3>3 DEF CheckedHold
      <4>2. evidence'[v][b] = new
        BY <2>4, <3>1, <3>3 DEF TypeInv, CustodyTypes
      <4>3. QED
        BY <4>1, <4>2
    <3>4. CASE b = c /\ SourceOf(o) # job[o].verified
      <4>1. swapped' = [swapped EXCEPT ![o] = @ \cup {c}]
        BY <3>1, <3>4 DEF NoteSource
      <4>2. b \in swapped'[v]
        BY <2>4, <3>4, <4>1 DEF TypeInv, CustodyTypes
      <4>3. QED
        BY <4>2
    <3>5. CASE b # c
      <4>1. evidence'[v][b] = evidence[v][b]
        BY <2>4, <3>1, <3>5 DEF TypeInv, CustodyTypes
      <4>2. \/ swapped' = [swapped EXCEPT ![o] = @ \cup {c}]
            \/ swapped' = [swapped EXCEPT ![o] = @ \ {c}]
        BY <3>1 DEF NoteSource
      <4>3. b \notin swapped[v]
        BY <2>4, <3>5, <4>2 DEF TypeInv, CustodyTypes
      <4>4. QED
        BY <4>1, <4>3 DEF RetainedIsBound, Bound
    <3>6. QED
      BY <3>3, <3>4, <3>5
  <2>5. CASE v = o /\ Discard(o)
    BY <1>1, <2>5 DEF Discard, Partial, TypeInv, CustodyTypes, history
  <2>6. CASE v = o /\ FailImport(o)
    BY <1>2, <2>6, CutOffWrites DEF FailImport
  <2>7. CASE v = o /\ ImportCommand(o) /\ ~ Retain(o) /\ ~ Discard(o) /\ ~ FailImport(o)
    BY <1>1, <2>7 DEF ImportCommand, ReadDigest, Verify, Refuse, IndexImport, Accept, custody,
                      history
  <2>8. CASE v = o /\ Disturbance(o)
    <3>1. CASE Stop(o)
      BY <1>2, <2>8, <3>1, CutOffWrites DEF Stop
    <3>2. ASSUME NEW c \in Observation, Lose(o, c)
          PROVE  Goal
      <4>1. evidence' = [evidence EXCEPT ![o][c] = Absent] /\ swapped' = swapped
        BY <3>2 DEF Lose
      <4>2. CASE c = b
        BY <2>8, <4>1, <4>2 DEF Absent, Complete, TypeInv, CustodyTypes
      <4>3. CASE c # b
        BY <1>1, <4>1, <4>3 DEF TypeInv, CustodyTypes
      <4>4. QED
        BY <4>2, <4>3
    <3>3. CASE UNCHANGED custody
      BY <1>1, <3>3 DEF custody, history
    <3>4. QED
      BY <2>8, <3>1, <3>2, <3>3 DEF Disturbance, SetAvailability, Damage
  <2>9. QED
    BY <1>3, <2>1, <2>2, <2>3, <2>4, <2>5, <2>6, <2>7, <2>8
<1>4. CASE UNCHANGED custody
  BY <1>1, <1>4 DEF custody, history
<1>5. QED
  BY <1>3, <1>4, HistoryReads DEF Next, Step, vars

(* However many exports and imports, kills and failures a bundle went through,
   a complete one has the statement, the archive and the key of the capture, and
   evidence that is bound to it if any, except where the file was replaced
   between the check of an import and its copy. *)
THEOREM RetainedBound == Spec => []RetainedIsBound
<1>1. Init => NamesHold /\ CheckedHold /\ RetainedIsBound
  BY DEF Init, NamesHold, Named, ImportSteps, CheckedHold, RetainedIsBound, Absent, Complete
<1>2. QED
  BY <1>1, InitTyped, StepTyped, NamesStep, CheckedStep, BoundStep, PTL DEF Spec

-----------------------------------------------------------------------------
(* Evidence *)

(* Of an Observation no bundle of which was cut off or replaced, every complete
   bundle and every package is whole and as captured, and half a one is being
   written. *)
WholeHold ==
    /\ \A o \in Operator, b \in Observation : b \notin spoiled =>
          /\ evidence[o][b].state \in Complete => evidence[o][b] = Whole({})
          /\ evidence[o][b].state = "partial" =>
                pc[o] \in {"bundle", "retain"} /\ job[o].observation = b
    /\ \A d \in DOMAIN packages : packages[d].observation \notin spoiled =>
          packages[d].state = "whole" /\ packages[d].changed = {}

LEMMA SpoiledKept ==
    ASSUME TypeInv, [Next]_vars
    PROVE  spoiled \subseteq spoiled'
<1>1. ASSUME NEW o \in Operator, InitCommand(o) \/ ExportCommand(o)
      PROVE  spoiled' = spoiled
  BY <1>1, InitCustody, ExportCustody DEF custody, history
<1>2. ASSUME NEW o \in Operator, CaptureCommand(o)
      PROVE  spoiled' = spoiled
  BY <1>2 DEF CaptureCommand, Capture, WriteBundle, IndexCapture, history
<1>3. ASSUME NEW o \in Operator, ImportCommand(o)
      PROVE  spoiled \subseteq spoiled'
  <2>1. CASE FailImport(o)
    BY <2>1, CutOffWrites DEF FailImport, CutOffLeaves
  <2>2. CASE Retain(o)
    BY <2>2 DEF Retain, NoteSource
  <2>3. QED
    BY <1>3, <2>1, <2>2 DEF ImportCommand, ReadDigest, Verify, Refuse, Discard, IndexImport,
                            Accept, custody, history
<1>4. ASSUME NEW o \in Operator, Disturbance(o)
      PROVE  spoiled \subseteq spoiled'
  <2>1. CASE Stop(o)
    BY <2>1, CutOffWrites DEF Stop, CutOffLeaves
  <2>2. QED
    BY <1>4, <2>1 DEF Disturbance, SetAvailability, Lose, Damage, custody, history
<1>5. QED
  BY <1>1, <1>2, <1>3, <1>4, HistoryReads DEF Next, Step, vars, custody, history

LEMMA WholePackages ==
    ASSUME TypeInv, WholeHold, [Next]_vars, NEW d \in DOMAIN packages',
           packages'[d].observation \notin spoiled'
    PROVE  packages'[d].state = "whole" /\ packages'[d].changed = {}
<1> DEFINE Goal == packages'[d].state = "whole" /\ packages'[d].changed = {}
<1>1. spoiled \subseteq spoiled'
  BY SpoiledKept
<1>2. CASE d \in DOMAIN packages
  <2>1. packages'[d] = packages[d]
    BY <1>2, PackagesKept
  <2>2. QED
    BY <1>1, <1>2, <2>1 DEF WholeHold
<1>3. UNCHANGED packages => Goal
  BY <1>2
<1>4. ASSUME NEW p \in Package, packages' = Append(packages, p),
             p.observation \notin spoiled => p.state = "whole" /\ p.changed = {}
      PROVE  Goal
  <2>1. packages'[d] = p \/ d \in DOMAIN packages
    BY <1>4 DEF TypeInv, TransportTypes
  <2>2. QED
    BY <1>1, <1>2, <1>4, <2>1
<1>5. ASSUME NEW o \in Operator, WriteExport(o)
      PROVE  Goal
  <2> DEFINE b == job[o].observation
  <2>1. PICK reading \in Readings(evidence[o][b]) :
           /\ Exported(o, b, reading) \in Package
           /\ packages' = Append(packages, Exported(o, b, reading))
    BY <1>5, ExportWritten
  <2>2. pc[o] = "zip" /\ b \in Observation
    BY <1>5 DEF WriteExport, At, TypeInv, JobsHold
  <2>3. evidence[o][b] \in Held /\ evidence[o][b].state # "absent"
    BY <2>2 DEF TypeInv, CustodyTypes, ZipHold
  <2>4. b \notin spoiled => evidence[o][b].state # "partial"
    BY <2>2 DEF WholeHold
  <2>5. b \notin spoiled => evidence[o][b] = Whole({})
    BY <2>2, <2>3, <2>4 DEF WholeHold, Held, Complete
  <2>6. b \notin spoiled => reading = Whole({})
    BY <2>4, <2>5 DEF Readings
  <2>7. /\ Exported(o, b, reading).observation = b
        /\ Exported(o, b, reading).state = reading.state
        /\ Exported(o, b, reading).changed = reading.changed
    BY DEF Exported
  <2>8. QED
    BY <1>4, <2>1, <2>6, <2>7 DEF Whole
<1>6. ASSUME NEW o \in Operator, NEW c \in Observation, NEW part \in Fragile, Damage(o, c, part)
      PROVE  Goal
  <2> DEFINE old == packages[exports[o][c]]
             new == [old EXCEPT !.damaged = part]
  <2>1. old \in Package /\ (old.observation \notin spoiled => old.state = "whole" /\ old.changed = {})
    BY <1>6 DEF Damage, TypeInv, TransportTypes, WholeHold
  <2>2. new \in Package /\ new.observation = old.observation
    BY <2>1, DamageType
  <2>3. new.state = old.state /\ new.changed = old.changed
    BY <2>1 DEF Package
  <2>4. packages' = Append(packages, new)
    BY <1>6 DEF Damage
  <2> HIDE DEF old, new
  <2>5. QED
    BY <1>4, <2>1, <2>2, <2>3, <2>4
<1>7. ASSUME NEW o \in Operator, ExportCommand(o)
      PROVE  Goal
  BY <1>3, <1>5, <1>7 DEF ExportCommand, OpenExport
<1>8. ASSUME NEW o \in Operator, Disturbance(o)
      PROVE  Goal
  BY <1>3, <1>6, <1>8 DEF Disturbance, Stop, SetAvailability, Lose, transport
<1>9. QED
  BY <1>3, <1>7, <1>8, InitCustody, TransportWritten, HistoryReads DEF Next, Step, vars, transport

LEMMA WholeBundles ==
    ASSUME TypeInv, CheckedHold, WholeHold, [Next]_vars,
           NEW v \in Operator, NEW b \in Observation, b \notin spoiled'
    PROVE  /\ evidence'[v][b].state \in Complete => evidence'[v][b] = Whole({})
           /\ evidence'[v][b].state = "partial" =>
                 pc'[v] \in {"bundle", "retain"} /\ job'[v].observation = b
<1> DEFINE Goal ==
       /\ evidence'[v][b].state \in Complete => evidence'[v][b] = Whole({})
       /\ evidence'[v][b].state = "partial" =>
             pc'[v] \in {"bundle", "retain"} /\ job'[v].observation = b
<1>1. /\ b \notin spoiled
      /\ evidence[v][b].state \in Complete => evidence[v][b] = Whole({})
      /\ evidence[v][b].state = "partial" =>
            pc[v] \in {"bundle", "retain"} /\ job[v].observation = b
  BY SpoiledKept DEF WholeHold
<1>2. ASSUME evidence'[v][b] = evidence[v][b],
             \/ pc[v] \notin {"bundle", "retain"} \/ job[v].observation # b
             \/ pc'[v] = pc[v] /\ job'[v] = job[v]
      PROVE  Goal
  BY <1>1, <1>2
<1>3. CutOffLeaves(v) => Goal
  <2> SUFFICES ASSUME CutOffLeaves(v)
               PROVE  Goal
    OBVIOUS
  <2>1. evidence'[v][b] = evidence[v][b]
    BY DEF CutOffLeaves
  <2>2. pc[v] \notin {"bundle", "retain"} \/ job[v].observation # b
    BY DEF CutOffLeaves
  <2>3. QED
    BY <1>2, <2>1, <2>2
<1>4. ASSUME NEW o \in Operator, v = o, CaptureCommand(o)
      PROVE  Goal
  <2> USE DEF TypeInv, CustodyTypes, CommandTypes
  <2>1. ASSUME NEW c \in Observation, Capture(o, c)
        PROVE  Goal
    <3>1. /\ pc[v] = "idle" /\ pc'[v] = "bundle" /\ job'[v].observation = c
          /\ evidence' = [evidence EXCEPT ![v][c] = Partial]
      BY <1>4, <2>1 DEF Capture, Begin, At, GoTo, Job
    <3>2. CASE b = c
      <4>1. evidence'[v][b] = Partial
        BY <3>1, <3>2
      <4>2. QED
        BY <3>1, <3>2, <4>1 DEF Partial, Complete
    <3>3. CASE b # c
      <4>1. evidence'[v][b] = evidence[v][b]
        BY <3>1, <3>3
      <4>2. QED
        BY <1>2, <3>1, <4>1
    <3>4. QED
      BY <3>2, <3>3
  <2>2. CASE WriteBundle(o)
    <3>1. evidence' = [evidence EXCEPT ![v][job[v].observation] = Whole({})]
      BY <1>4, <2>2 DEF WriteBundle
    <3>2. CASE b = job[v].observation
      <4>1. evidence'[v][b] = Whole({})
        BY <3>1, <3>2
      <4>2. QED
        BY <4>1 DEF Whole
    <3>3. CASE b # job[v].observation
      <4>1. evidence'[v][b] = evidence[v][b]
        BY <3>1, <3>3
      <4>2. QED
        BY <1>2, <3>3, <4>1
    <3>4. QED
      BY <3>2, <3>3
  <2>3. CASE IndexCapture(o)
    BY <1>2, <1>4, <2>3 DEF IndexCapture, At
  <2>4. QED
    BY <1>4, <2>1, <2>2, <2>3 DEF CaptureCommand
<1>5. ASSUME NEW o \in Operator, v = o, ImportCommand(o)
      PROVE  Goal
  <2> USE DEF TypeInv, CustodyTypes, CommandTypes
  <2> DEFINE c == job[o].observation
             p == packages[job[o].verified]
             new == Copied(p, packages[SourceOf(o)])
  <2>1. CASE Discard(o)
    <3>1. /\ pc[v] = "discard" /\ pc'[v] = "retain" /\ job' = job
          /\ evidence' = [evidence EXCEPT ![v][c] = Partial]
      BY <1>5, <2>1 DEF Discard, At, GoTo
    <3>2. CASE b = c
      <4>1. evidence'[v][b] = Partial
        BY <1>5, <3>1, <3>2
      <4>2. QED
        BY <1>5, <3>1, <3>2, <4>1 DEF Partial, Complete
    <3>3. CASE b # c
      <4>1. evidence'[v][b] = evidence[v][b]
        BY <1>5, <3>1, <3>3
      <4>2. QED
        BY <1>2, <3>1, <4>1
    <3>4. QED
      BY <3>2, <3>3
  <2>2. CASE Retain(o)
    <3>1. /\ pc[v] = "retain" /\ NoteSource(o)
          /\ evidence' = [evidence EXCEPT ![v][c] = new]
      BY <1>5, <2>2 DEF Retain, At
    <3>2. CASE b = c
      <4>1. SourceOf(o) = job[o].verified
        BY <3>1, <3>2 DEF NoteSource
      <4>2. /\ job[o].verified \in DOMAIN packages
            /\ p.observation = b /\ p.damaged \notin Part
        BY <1>5, <3>1, <3>2 DEF CheckedHold
      <4>3. p.state = "whole" /\ p.changed = {}
        BY <1>1, <4>2 DEF WholeHold
      <4>4. new = Whole({})
        BY <4>1, <4>2, <4>3 DEF Copied, PartsOf
      <4>5. evidence'[v][b] = Whole({})
        BY <1>5, <3>1, <3>2, <4>4
      <4>6. QED
        BY <4>5 DEF Whole
    <3>3. CASE b # c
      <4>1. evidence'[v][b] = evidence[v][b]
        BY <1>5, <3>1, <3>3
      <4>2. QED
        BY <1>2, <1>5, <3>3, <4>1
    <3>4. QED
      BY <3>2, <3>3
  <2>3. CASE FailImport(o)
    BY <1>3, <1>5, <2>3, CutOffWrites DEF FailImport
  <2>4. CASE \/ \E source \in Operator, a \in Observation : ReadDigest(o, source, a)
             \/ Verify(o) \/ Refuse(o) \/ IndexImport(o) \/ Accept(o)
    BY <1>2, <1>5, <2>4 DEF ReadDigest, Verify, Refuse, IndexImport, Accept, Begin, At, custody
  <2>5. QED
    BY <1>5, <2>1, <2>2, <2>3, <2>4 DEF ImportCommand
<1>6. ASSUME NEW o \in Operator, v = o, Disturbance(o)
      PROVE  Goal
  <2>1. CASE Stop(o)
    BY <1>3, <1>6, <2>1, CutOffWrites DEF Stop
  <2>2. ASSUME NEW c \in Observation, Lose(o, c)
        PROVE  Goal
    <3>1. /\ evidence' = [evidence EXCEPT ![v][c] = Absent] /\ UNCHANGED <<pc, job>>
      BY <1>6, <2>2 DEF Lose, command
    <3>2. evidence'[v][b] = evidence[v][b] \/ evidence'[v][b] = Absent
      BY <3>1 DEF TypeInv, CustodyTypes
    <3>3. QED
      BY <1>2, <3>1, <3>2 DEF Absent, Complete
  <2>3. CASE UNCHANGED <<custody, command>>
    BY <1>2, <2>3 DEF custody, command
  <2>4. QED
    BY <1>6, <2>1, <2>2, <2>3 DEF Disturbance, SetAvailability, Damage
<1>7. ASSUME NEW o \in Operator, v = o, InitCommand(o) \/ ExportCommand(o)
      PROVE  Goal
  <2>1. evidence' = evidence
    BY <1>7, InitCustody, ExportCustody DEF custody
  <2>2. pc[v] \notin {"bundle", "retain"}
    BY <1>7 DEF InitCommand, BeginInit, BeginRotation, RemovePublicKey, WritePrivateKey,
                WritePublicKey, WriteIdentity, WriteFile, WriteDescriptor, ExportCommand,
                OpenExport, WriteExport, Begin, At
  <2>3. QED
    BY <1>2, <2>1, <2>2
<1>8. ASSUME NEW o \in Operator,
             \/ InitCommand(o) \/ CaptureCommand(o) \/ ExportCommand(o)
             \/ ImportCommand(o) \/ Disturbance(o)
      PROVE  Goal
  <2>1. CASE v # o
    BY <1>2, <1>8, <2>1, OthersKeep DEF Others
  <2>2. CASE v = o
    BY <1>4, <1>5, <1>6, <1>7, <1>8, <2>2
  <2>3. QED
    BY <2>1, <2>2
<1>9. CASE UNCHANGED <<custody, command>>
  BY <1>2, <1>9 DEF custody, command
<1>10. QED
  BY <1>8, <1>9, HistoryReads DEF Next, Step, vars

LEMMA WholeStep == TypeInv /\ CheckedHold /\ WholeHold /\ [Next]_vars => WholeHold'
BY WholePackages, WholeBundles DEF WholeHold

(* Exports and imports lose and change no evidence themselves: over any chain of
   them a complete bundle is the capture, file by file, unless a bundle of that
   Observation was cut off or copied from a replaced file somewhere. *)
THEOREM EvidenceKept == Spec => []EvidenceIsKept
<1>1. Init => NamesHold /\ CheckedHold /\ WholeHold
  BY DEF Init, NamesHold, Named, ImportSteps, CheckedHold, WholeHold, Absent, Complete
<1>2. WholeHold => EvidenceIsKept
  BY DEF WholeHold, EvidenceIsKept
<1>3. QED
  BY <1>1, <1>2, InitTyped, StepTyped, NamesStep, CheckedStep, WholeStep, PTL DEF Spec

=============================================================================
