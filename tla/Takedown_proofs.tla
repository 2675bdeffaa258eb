--------------------------- MODULE Takedown_proofs ---------------------------
(***************************************************************************)
(* Theorems about Takedown, for any requests, any number of threads and    *)
(* any bounds.                                                             *)
(***************************************************************************)
EXTENDS Takedown, TLAPS

LEMMA NoRequestType == NoRequest \in Request
BY TakedownAssumption DEF NoRequest

(* Type correctness: every variable keeps its type. *)
THEOREM TypeCorrect == Spec => []TypeOK
<1>1. Init => TypeOK
  BY NoRequestType, TakedownAssumption DEF Init, TypeOK, Steps
<1>2. TypeOK /\ [Next]_vars => TypeOK'
  <2> SUFFICES ASSUME TypeOK, [Next]_vars
               PROVE  TypeOK'
    OBVIOUS
  <2> USE TakedownAssumption
      DEF TypeOK, Steps, At, GoTo, cacheVars, locals, answers, bounds
  <2>1. ASSUME NEW w \in Worker, NEW r \in Request, RejectSignature(w, r)
        PROVE  TypeOK'
    BY <2>1 DEF RejectSignature
  <2>2. ASSUME NEW w \in Worker, NEW r \in Request, Receive(w, r)
        PROVE  TypeOK'
    BY <2>2 DEF Receive
  <2>3. ASSUME NEW w \in Worker, ListExpired(w)
        PROVE  TypeOK'
    BY <2>3 DEF ListExpired
  <2>4. ASSUME NEW w \in Worker, NEW f \in Request, Evict(w, f)
        PROVE  TypeOK'
    BY <2>4 DEF Evict
  <2>5. ASSUME NEW w \in Worker, NEW f \in Request, EvictTwice(w, f)
        PROVE  TypeOK'
    BY <2>5, NoRequestType DEF EvictTwice, Finish
  <2>6. ASSUME NEW w \in Worker, SeenInCache(w)
        PROVE  TypeOK'
    BY <2>6, NoRequestType DEF SeenInCache, Refuse, Finish
  <2>7. ASSUME NEW w \in Worker, NotInCache(w)
        PROVE  TypeOK'
    BY <2>7 DEF NotInCache
  <2>8. ASSUME NEW w \in Worker, FindRow(w)
        PROVE  TypeOK'
    BY <2>8, NoRequestType DEF FindRow, Refuse, Finish
  <2>9. ASSUME NEW w \in Worker, FindNoRow(w)
        PROVE  TypeOK'
    BY <2>9 DEF FindNoRow
  <2>10. ASSUME NEW w \in Worker, Insert(w)
         PROVE  TypeOK'
    BY <2>10 DEF Insert
  <2>11. ASSUME NEW w \in Worker, InsertConflict(w)
         PROVE  TypeOK'
    BY <2>11, NoRequestType DEF InsertConflict, Refuse, Finish
  <2>12. ASSUME NEW w \in Worker, Remember(w)
         PROVE  TypeOK'
    BY <2>12, NoRequestType DEF Remember, Finish
  <2>13. ASSUME NEW f \in Request, Age(f)
         PROVE  TypeOK'
    BY <2>13 DEF Age
  <2>14. ASSUME NEW w \in Worker, Fail(w)
         PROVE  TypeOK'
    BY <2>14, NoRequestType DEF Fail, Finish
  <2>15. ASSUME Restart
         PROVE  TypeOK'
    BY <2>15, NoRequestType DEF Restart
  <2>16. CASE UNCHANGED vars
    BY <2>16 DEF vars
  <2>17. QED
    BY <2>1, <2>2, <2>3, <2>4, <2>5, <2>6, <2>7, <2>8, <2>9, <2>10, <2>11,
       <2>12, <2>13, <2>14, <2>15, <2>16
    DEF Next, Handle, Exhausted
<1>3. QED
  BY <1>1, <1>2, PTL DEF Spec

-----------------------------------------------------------------------------

(* Only a request_id that has a row was answered 409. *)
RefusedIsStored == \A r \in refused : Taken(r)

(* Why a request_id is received once: whatever the cache remembers has a row,
   so the cache only ever repeats what the table would say; a thread that is
   about to answer 201 inserted the row itself, so it is alone with it and no
   receipt was sent for it before. *)
IntakeInv ==
    /\ RowsAreKeyed
    /\ RefusedIsStored
    /\ replayCache \subseteq takedowns
    /\ \A w \in Worker : pc[w] # "idle" => req[w] \in Signed
    /\ \A w \in Worker : pc[w] = "remember" =>
          req[w] \in takedowns /\ receipts[req[w]] = 0
    /\ \A v, w \in Worker :
          pc[v] = "remember" /\ pc[w] = "remember" /\ req[v] = req[w] => v = w
    /\ \A r \in Request :
          receipts[r] = 0 \/ (receipts[r] = 1 /\ r \in takedowns)

(* IntakeInv holds in every reachable state. *)
THEOREM IntakeCorrect == Spec => []IntakeInv
<1>1. Init => IntakeInv
  BY DEF Init, IntakeInv, RowsAreKeyed, RefusedIsStored
<1>2. TypeOK /\ IntakeInv /\ [Next]_vars => IntakeInv'
  <2> SUFFICES ASSUME TypeOK, IntakeInv, [Next]_vars
               PROVE  IntakeInv'
    OBVIOUS
  <2> USE TakedownAssumption
      DEF TypeOK, IntakeInv, RowsAreKeyed, RefusedIsStored, Taken, At, GoTo,
          cacheVars, locals, answers, bounds
  <2>1. ASSUME NEW w \in Worker, NEW r \in Request, RejectSignature(w, r)
        PROVE  IntakeInv'
    BY <2>1 DEF RejectSignature
  <2>2. ASSUME NEW w \in Worker, NEW r \in Request, Receive(w, r)
        PROVE  IntakeInv'
    BY <2>2 DEF Receive
  <2>3. ASSUME NEW w \in Worker, ListExpired(w)
        PROVE  IntakeInv'
    BY <2>3 DEF ListExpired
  <2>4. ASSUME NEW w \in Worker, NEW f \in Request, Evict(w, f)
        PROVE  IntakeInv'
    BY <2>4 DEF Evict
  <2>5. ASSUME NEW w \in Worker, NEW f \in Request, EvictTwice(w, f)
        PROVE  IntakeInv'
    BY <2>5, NoRequestType DEF EvictTwice, Finish
  <2>6. ASSUME NEW w \in Worker, SeenInCache(w)
        PROVE  IntakeInv'
    BY <2>6, NoRequestType DEF SeenInCache, Refuse, Finish
  <2>7. ASSUME NEW w \in Worker, NotInCache(w)
        PROVE  IntakeInv'
    BY <2>7 DEF NotInCache
  <2>8. ASSUME NEW w \in Worker, FindRow(w)
        PROVE  IntakeInv'
    BY <2>8, NoRequestType DEF FindRow, Refuse, Finish
  <2>9. ASSUME NEW w \in Worker, FindNoRow(w)
        PROVE  IntakeInv'
    BY <2>9 DEF FindNoRow
  <2>10. ASSUME NEW w \in Worker, Insert(w)
         PROVE  IntakeInv'
    BY <2>10 DEF Insert
  <2>11. ASSUME NEW w \in Worker, InsertConflict(w)
         PROVE  IntakeInv'
    BY <2>11, NoRequestType DEF InsertConflict, Refuse, Finish
  <2>12. ASSUME NEW w \in Worker, Remember(w)
         PROVE  IntakeInv'
    BY <2>12, NoRequestType DEF Remember, Finish
  <2>13. ASSUME NEW f \in Request, Age(f)
         PROVE  IntakeInv'
    BY <2>13 DEF Age
  <2>14. ASSUME NEW w \in Worker, Fail(w)
         PROVE  IntakeInv'
    BY <2>14, NoRequestType DEF Fail, Finish
  <2>15. ASSUME Restart
         PROVE  IntakeInv'
    BY <2>15, NoRequestType DEF Restart
  <2>16. CASE UNCHANGED vars
    BY <2>16 DEF vars
  <2>17. QED
    BY <2>1, <2>2, <2>3, <2>4, <2>5, <2>6, <2>7, <2>8, <2>9, <2>10, <2>11,
       <2>12, <2>13, <2>14, <2>15, <2>16
    DEF Next, Handle, Exhausted
<1>3. QED
  BY <1>1, <1>2, TypeCorrect, PTL DEF Spec

(* At most one 201 is sent for a request_id, and its one row is the request
   that was answered. *)
THEOREM TakedownOnce == Spec => []ReceivedOnce
<1>1. IntakeInv => ReceivedOnce
  BY DEF IntakeInv, RowsAreKeyed, ReceivedOnce
<1>2. QED
  BY <1>1, IntakeCorrect, PTL

(* The steps of the threads that change what the intake shows are its steps,
   and all others are none: the node implements the intake. *)
THEOREM IntakeImplemented == Spec => ImplementsIntake
<1>1. Init => Intake!IntakeInit
  BY DEF Init, Intake!IntakeInit
<1>2. TypeOK /\ IntakeInv /\ [Next]_vars
         => [Intake!IntakeNext]_Intake!intakeVars
  <2> SUFFICES ASSUME TypeOK, IntakeInv, [Next]_vars
               PROVE  [Intake!IntakeNext]_Intake!intakeVars
    OBVIOUS
  <2>0. \A r \in Request : Intake!Holds(r) <=> Taken(r)
    BY DEF Intake!Holds, Taken
  <2>1. ASSUME NEW w \in Worker, Insert(w)
        PROVE  Intake!TakeIn(req[w])
    BY <2>0, <2>1 DEF Insert, At, Intake!TakeIn, answers, TypeOK, IntakeInv
  <2>2. ASSUME NEW w \in Worker, Remember(w)
        PROVE  Intake!Confirm(req[w])
    <3>1. req[w] \in takedowns /\ receipts[req[w]] = 0
      BY <2>2 DEF Remember, At, IntakeInv
    <3>2. /\ receipts' = [receipts EXCEPT ![req[w]] = receipts[req[w]] + 1]
          /\ UNCHANGED <<takedowns, refused>>
      BY <2>2 DEF Remember
    <3>3. receipts' = [receipts EXCEPT ![req[w]] = 1]
      BY <3>1, <3>2
    <3>4. QED
      BY <3>1, <3>2, <3>3 DEF Intake!Confirm
  <2>3. ASSUME NEW w \in Worker,
               SeenInCache(w) \/ FindRow(w) \/ InsertConflict(w)
        PROVE  Intake!Repeat(req[w])
    <3>1. req[w] \in Request /\ req[w] \in Signed
      BY <2>3 DEF SeenInCache, FindRow, InsertConflict, At, TypeOK, IntakeInv
    <3>2. Taken(req[w])
      BY <2>3 DEF SeenInCache, FindRow, InsertConflict, Taken, IntakeInv
    <3>3. refused' = refused \cup {req[w]} /\ UNCHANGED <<takedowns, receipts>>
      BY <2>3 DEF SeenInCache, FindRow, InsertConflict, Refuse
    <3>4. QED
      BY <2>0, <3>1, <3>2, <3>3 DEF Intake!Repeat
  <2>4. ASSUME NEW w \in Worker,
               \/ ListExpired(w) \/ NotInCache(w) \/ FindNoRow(w) \/ Fail(w)
               \/ \E f \in Request : Evict(w, f) \/ EvictTwice(w, f)
               \/ \E r \in Request : RejectSignature(w, r) \/ Receive(w, r)
        PROVE  UNCHANGED Intake!intakeVars
    BY <2>4 DEF ListExpired, NotInCache, FindNoRow, Fail, Evict, EvictTwice,
           RejectSignature, Receive, answers, Intake!intakeVars
  <2>5. ASSUME Restart \/ UNCHANGED vars \/ \E f \in Request : Age(f)
        PROVE  UNCHANGED Intake!intakeVars
    BY <2>5 DEF Restart, Age, vars, answers, Intake!intakeVars
  <2>6. \A w \in Worker : req[w] \in Request
    BY DEF TypeOK
  <2>7. QED
    BY <2>1, <2>2, <2>3, <2>4, <2>5, <2>6
    DEF Next, Handle, Exhausted, Intake!IntakeNext
<1>3. QED
  BY <1>1, <1>2, TypeCorrect, IntakeCorrect, PTL
  DEF Spec, ImplementsIntake, Intake!IntakeSpec
=============================================================================
