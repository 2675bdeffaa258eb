------------------------------ MODULE Takedown ------------------------------
(***************************************************************************)
(* The intake of signed takedown requests (POST /v1/takedown): a replay    *)
(* cache in memory in front of a table whose key is the request_id.        *)
(*                                                                         *)
(* The handler runs in a pool of threads, like the ingest path.  A request *)
(* stands for its signed payload; its fingerprint is a hash of requester   *)
(* key and signature, so it stands for the request too.  Two requests can  *)
(* carry the same request_id.                                              *)
(***************************************************************************)
EXTENDS Integers

CONSTANTS
    Worker,         \* the threads of the pool
    Request,        \* takedown requests
    Signed,         \* those whose signature verifies
    RequestId,      \* request_id values
    idOf,           \* the request_id of a request
    MaxRequests,    \* bound: requests received
    MaxFailures     \* bound: failed steps and process restarts

ASSUME TakedownAssumption ==
    /\ Request # {}
    /\ Signed \subseteq Request
    /\ idOf \in [Request -> RequestId]
    /\ MaxRequests \in Nat
    /\ MaxFailures \in Nat

VARIABLES
    takedowns,      \* the table: the requests stored
    replayCache,    \* _replay_cache: the fingerprints remembered
    stale,          \* those remembered longer ago than the replay window
    pc,             \* the next step of the thread
    req,            \* the request it handles
    expired,        \* _takedown_replay_seen(): keys still to be deleted
    receipts,       \* history: how often a request was answered 201
    refused,        \* history: the requests answered 409
    requests,
    failures

cacheVars == <<replayCache, stale>>
locals == <<pc, req, expired>>
answers == <<receipts, refused>>
bounds == <<requests, failures>>
vars == <<takedowns, cacheVars, locals, answers, bounds>>

Steps == {"idle", "expire", "evict", "lookup", "save", "insert", "remember"}

NoRequest == CHOOSE r \in Request : TRUE

TypeOK ==
    /\ takedowns \subseteq Request
    /\ replayCache \subseteq Request
    /\ stale \subseteq replayCache
    /\ pc \in [Worker -> Steps]
    /\ req \in [Worker -> Request]
    /\ expired \in [Worker -> SUBSET Request]
    /\ receipts \in [Request -> Nat]
    /\ refused \subseteq Request
    /\ requests \in 0..MaxRequests
    /\ failures \in 0..MaxFailures

Init ==
    /\ takedowns = {}
    /\ replayCache = {}
    /\ stale = {}
    /\ pc = [w \in Worker |-> "idle"]
    /\ req = [w \in Worker |-> NoRequest]
    /\ expired = [w \in Worker |-> {}]
    /\ receipts = [r \in Request |-> 0]
    /\ refused = {}
    /\ requests = 0
    /\ failures = 0

-----------------------------------------------------------------------------
(* Steps of a thread. *)

At(w, step) == pc[w] = step

GoTo(w, step) == pc' = [pc EXCEPT ![w] = step]

Finish(w) ==
    /\ GoTo(w, "idle")
    /\ req' = [req EXCEPT ![w] = NoRequest]
    /\ expired' = [expired EXCEPT ![w] = {}]

(* 409: the request is a duplicate. *)
Refuse(w) ==
    /\ Finish(w)
    /\ refused' = refused \cup {req[w]}
    /\ UNCHANGED receipts

(* The request_id has a row. *)
Taken(r) == \E t \in takedowns : idOf[t] = idOf[r]

(* 403: the signature does not verify. *)
RejectSignature(w, r) ==
    /\ At(w, "idle")
    /\ requests < MaxRequests
    /\ r \notin Signed
    /\ requests' = requests + 1
    /\ UNCHANGED <<takedowns, cacheVars, locals, answers, failures>>

Receive(w, r) ==
    /\ At(w, "idle")
    /\ requests < MaxRequests
    /\ r \in Signed
    /\ requests' = requests + 1
    /\ req' = [req EXCEPT ![w] = r]
    /\ GoTo(w, "expire")
    /\ UNCHANGED <<takedowns, cacheVars, expired, answers, failures>>

(* _takedown_replay_seen: the keys older than the window are listed ... *)
ListExpired(w) ==
    /\ At(w, "expire")
    /\ expired' = [expired EXCEPT ![w] = stale]
    /\ GoTo(w, "evict")
    /\ UNCHANGED <<takedowns, cacheVars, req, answers, bounds>>

(* Mutation: the times are kept apart from the keys, and stay behind. *)
EvictKeepingTime(w, f) ==
    /\ At(w, "evict")
    /\ f \in expired[w]
    /\ f \in replayCache
    /\ replayCache' = replayCache \ {f}
    /\ expired' = [expired EXCEPT ![w] = @ \ {f}]
    /\ UNCHANGED <<takedowns, stale, pc, req, answers, bounds>>

(* ... and deleted one by one; ... *)
Evict(w, f) ==
    /\ At(w, "evict")
    /\ f \in expired[w]
    /\ f \in replayCache
    /\ replayCache' = replayCache \ {f}
    /\ stale' = stale \ {f}
    /\ expired' = [expired EXCEPT ![w] = @ \ {f}]
    /\ UNCHANGED <<takedowns, pc, req, answers, bounds>>

(* ... another thread can have deleted it first: KeyError, answered 500. *)
EvictTwice(w, f) ==
    /\ At(w, "evict")
    /\ f \in expired[w]
    /\ f \notin replayCache
    /\ Finish(w)
    /\ UNCHANGED <<takedowns, cacheVars, answers, bounds>>

SeenInCache(w) ==
    /\ At(w, "evict")
    /\ expired[w] = {}
    /\ req[w] \in replayCache
    /\ Refuse(w)
    /\ UNCHANGED <<takedowns, cacheVars, bounds>>

(* Mutation: the fingerprint is remembered before the request is stored. *)
RememberEarly(w) ==
    /\ At(w, "evict")
    /\ expired[w] = {}
    /\ req[w] \notin replayCache
    /\ replayCache' = replayCache \cup {req[w]}
    /\ GoTo(w, "lookup")
    /\ UNCHANGED <<takedowns, stale, req, expired, answers, bounds>>

NotInCache(w) ==
    /\ At(w, "evict")
    /\ expired[w] = {}
    /\ req[w] \notin replayCache
    /\ GoTo(w, "lookup")
    /\ UNCHANGED <<takedowns, cacheVars, req, expired, answers, bounds>>

(* get_takedown in the handler, and again in the session of save_takedown. *)
FindRow(w) ==
    /\ At(w, "lookup") \/ At(w, "save")
    /\ Taken(req[w])
    /\ Refuse(w)
    /\ UNCHANGED <<takedowns, cacheVars, bounds>>

FindNoRow(w) ==
    /\ ~ Taken(req[w])
    /\ \/ At(w, "lookup") /\ GoTo(w, "save")
       \/ At(w, "save") /\ GoTo(w, "insert")
    /\ UNCHANGED <<takedowns, cacheVars, req, expired, answers, bounds>>

Insert(w) ==
    /\ At(w, "insert")
    /\ ~ Taken(req[w])
    /\ takedowns' = takedowns \cup {req[w]}
    /\ GoTo(w, "remember")
    /\ UNCHANGED <<cacheVars, req, expired, answers, bounds>>

(* Mutation: the IntegrityError counts as stored. *)
ConflictIsStored(w) ==
    /\ At(w, "insert")
    /\ Taken(req[w])
    /\ GoTo(w, "remember")
    /\ UNCHANGED <<takedowns, cacheVars, req, expired, answers, bounds>>

(* IntegrityError: another thread inserted the request_id first. *)
InsertConflict(w) ==
    /\ At(w, "insert")
    /\ Taken(req[w])
    /\ Refuse(w)
    /\ UNCHANGED <<takedowns, cacheVars, bounds>>

(* The fingerprint is remembered with the time, and 201 is answered. *)
Remember(w) ==
    /\ At(w, "remember")
    /\ replayCache' = replayCache \cup {req[w]}
    /\ stale' = stale \ {req[w]}
    /\ receipts' = [receipts EXCEPT ![req[w]] = @ + 1]
    /\ Finish(w)
    /\ UNCHANGED <<takedowns, refused, bounds>>

-----------------------------------------------------------------------------
(* Around the threads. *)

(* The replay window of a fingerprint passes. *)
Age(f) ==
    /\ f \in replayCache \ stale
    /\ stale' = stale \cup {f}
    /\ UNCHANGED <<takedowns, replayCache, locals, answers, bounds>>

(* A step raises, or the answer is lost. *)
Fail(w) ==
    /\ ~ At(w, "idle")
    /\ failures < MaxFailures
    /\ failures' = failures + 1
    /\ Finish(w)
    /\ UNCHANGED <<takedowns, cacheVars, answers, requests>>

(* The process dies and starts again: only the table is left. *)
Restart ==
    /\ failures < MaxFailures
    /\ failures' = failures + 1
    /\ replayCache' = {}
    /\ stale' = {}
    /\ pc' = [w \in Worker |-> "idle"]
    /\ req' = [w \in Worker |-> NoRequest]
    /\ expired' = [w \in Worker |-> {}]
    /\ UNCHANGED <<takedowns, answers, requests>>

Handle(w) ==
    \/ ListExpired(w)
    \/ \E f \in Request : Evict(w, f) \/ EvictTwice(w, f)
    \/ SeenInCache(w) \/ NotInCache(w)
    \/ FindRow(w) \/ FindNoRow(w)
    \/ Insert(w) \/ InsertConflict(w) \/ Remember(w)

Exhausted ==
    /\ requests = MaxRequests
    /\ \A w \in Worker : At(w, "idle")
    /\ UNCHANGED vars

Next ==
    \/ \E w \in Worker, r \in Request : RejectSignature(w, r) \/ Receive(w, r)
    \/ \E w \in Worker : Handle(w) \/ Fail(w)
    \/ \E f \in Request : Age(f)
    \/ Restart
    \/ Exhausted

Spec == Init /\ [][Next]_vars

-----------------------------------------------------------------------------

(* The table holds verified requests, one for each request_id. *)
RowsAreKeyed ==
    /\ takedowns \subseteq Signed
    /\ \A r, s \in takedowns : idOf[r] = idOf[s] => r = s

(* A request_id is received once: over all threads, replays after the window
   and restarts, at most one 201 is sent for it, and its one row is the very
   request that was answered, so no two requests with one id are answered. *)
ReceivedOnce ==
    /\ RowsAreKeyed
    /\ \A r \in Request : receipts[r] <= 1
    /\ \A r \in Request : receipts[r] > 0 => r \in takedowns

(* Cache, row and insert, looked at in three steps by several threads, amount
   to an intake that decides in one: what it holds it keeps over restarts, a
   201 confirms what it holds and did not confirm before, and a 409 repeats
   what it holds already. *)
Intake == INSTANCE TakedownIntake
          WITH held <- takedowns, confirmed <- receipts, repeated <- refused

ImplementsIntake == Intake!IntakeSpec
=============================================================================
