--------------------------- MODULE TakedownIntake ---------------------------
(***************************************************************************)
(* What a node promises about takedown requests, with no threads, cache or *)
(* transactions: it takes in verified requests, one for each request_id,   *)
(* and keeps them; it confirms each that it holds at most once; and it     *)
(* refuses as duplicates only requests whose request_id it holds.          *)
(***************************************************************************)
EXTENDS Integers

CONSTANTS Request, Signed, RequestId, idOf

VARIABLES
    held,           \* the requests taken in
    confirmed,      \* how often each was confirmed
    repeated        \* the requests refused as duplicates

intakeVars == <<held, confirmed, repeated>>

IntakeInit ==
    /\ held = {}
    /\ confirmed = [r \in Request |-> 0]
    /\ repeated = {}

Holds(r) == \E t \in held : idOf[t] = idOf[r]

TakeIn(r) ==
    /\ r \in Signed
    /\ ~ Holds(r)
    /\ held' = held \cup {r}
    /\ UNCHANGED <<confirmed, repeated>>

Confirm(r) ==
    /\ r \in held
    /\ confirmed[r] = 0
    /\ confirmed' = [confirmed EXCEPT ![r] = 1]
    /\ UNCHANGED <<held, repeated>>

Repeat(r) ==
    /\ r \in Signed
    /\ Holds(r)
    /\ repeated' = repeated \cup {r}
    /\ UNCHANGED <<held, confirmed>>

IntakeNext == \E r \in Request : TakeIn(r) \/ Confirm(r) \/ Repeat(r)

IntakeSpec == IntakeInit /\ [][IntakeNext]_intakeVars
=============================================================================
