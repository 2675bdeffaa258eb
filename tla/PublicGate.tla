----------------------------- MODULE PublicGate -----------------------------
(***************************************************************************)
(* What a request passes before its handler (the middleware of             *)
(* api/app.py).  In lockdown some endpoints answer 403, without a trace    *)
(* here, and of the others only so many POST requests of one address pass  *)
(* in a window of time.  The middleware runs on the event loop and does    *)
(* not wait between reading the list of an address and writing it back.    *)
(***************************************************************************)
EXTENDS Integers, FiniteSets

CONSTANTS
    Address,        \* clients, by address
    Lockdown,       \* OIN_PUBLIC_LOCKDOWN
    Limit,          \* 10 in the code
    Window,         \* 60 seconds in the code
    MaxTime,        \* bound: the clock stops there
    MaxRequests     \* bound: requests that pass

ASSUME GateAssumption ==
    /\ Lockdown \in BOOLEAN
    /\ Limit \in Nat \ {0}
    /\ Window \in Nat \ {0}
    /\ MaxTime \in Nat
    /\ MaxRequests \in Nat

VARIABLES
    clock,
    hits,           \* _hits: the requests of each address that still count
    passed,         \* history: the requests that passed since the start
    requests        \* requests that passed, restarts included

gateVars == <<clock, hits, passed, requests>>

(* A hit is its time; the number tells two of the same time apart. *)
Hit == [at : Nat, number : Nat]

GateTypeOK ==
    /\ clock \in 0 .. MaxTime
    /\ hits \in [Address -> SUBSET Hit]
    /\ passed \in [Address -> SUBSET Hit]
    /\ requests \in 0 .. MaxRequests

GateInit ==
    /\ clock = 0
    /\ hits = [a \in Address |-> {}]
    /\ passed = [a \in Address |-> {}]
    /\ requests = 0

-----------------------------------------------------------------------------

Tick ==
    /\ clock < MaxTime
    /\ clock' = clock + 1
    /\ UNCHANGED <<hits, passed, requests>>

(* Mutation: a hit is forgotten one second early. *)
KeptTooShort(a) == {h \in hits[a] : clock - h.at < Window - 1}

Recent(a) == {h \in hits[a] : clock - h.at < Window}

HasRoom(a) == Cardinality(Recent(a)) < Limit

Count(a) ==
    LET hit == [at |-> clock, number |-> requests]
    IN  /\ hits' = [hits EXCEPT ![a] = IF Lockdown THEN Recent(a) \cup {hit} ELSE @]
        /\ passed' = [passed EXCEPT ![a] = @ \cup {hit}]

(* The request goes on to the size limit and the handler. *)
Pass(a) ==
    /\ requests < MaxRequests
    /\ Lockdown => HasRoom(a)
    /\ Count(a)
    /\ requests' = requests + 1
    /\ UNCHANGED clock

(* 429: what does not count any more is dropped, and this one is not added. *)
TooMany(a) ==
    /\ Lockdown
    /\ ~ HasRoom(a)
    /\ hits' = [hits EXCEPT ![a] = Recent(a)]
    /\ UNCHANGED <<clock, passed, requests>>

(* The list is in the memory of the process. *)
Forget ==
    /\ hits' = [a \in Address |-> {}]
    /\ passed' = [a \in Address |-> {}]
    /\ UNCHANGED <<clock, requests>>

-----------------------------------------------------------------------------
(* In no window of time, wherever it begins, do more requests of one address
   pass than the limit, however often others are turned away. *)
RateHolds ==
    Lockdown => \A a \in Address : \A t \in 0 .. MaxTime :
       Cardinality({h \in passed[a] : t <= h.at /\ h.at < t + Window}) <= Limit
=============================================================================
