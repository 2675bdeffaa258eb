---------------------------- MODULE Replication ----------------------------
(***************************************************************************)
(* Nodes that pull Observations from each other (POST                      *)
(* /v1/replication/pull in oin/api/app.py).                                *)
(*                                                                         *)
(* An ingest is two steps here, the check for repeated content and the     *)
(* save, because the threads of a node come between them; what else        *)
(* happens inside it is in IngestNode.  A pull is a loop over identifiers  *)
(* that runs in one request: each export is fetched and ingested before    *)
(* the next, and the first one that is missing or refused ends the         *)
(* request, with whatever came before it stored.  A stored Observation     *)
(* never changes, nor does its evidence, so it makes no difference when    *)
(* between the answers of the peer it was read.                            *)
(***************************************************************************)
EXTENDS Observations, Sequences, FiniteSets

CONSTANTS
    Node,           \* the nodes
    Links,          \* pairs: a node and a peer that it pulls from
    Mirror,         \* the nodes that do nothing but pull all that a peer has
    MaxPosts,       \* bound: the posts a node works on at a time
    MaxFailures     \* bound: lost connections and restarts

ASSUME ReplicationAssumption ==
    /\ Links \subseteq Node \X Node
    /\ IsFiniteSet(Links)
    /\ Mirror \subseteq Node
    /\ MaxPosts \in Nat
    /\ MaxFailures \in Nat

VARIABLES
    rows,           \* the Observations of a node, with the evidence saved
    posts,          \* the posts of a node that passed the check: not yet saved
    pulls,          \* the pull under way on a link: ids and how many are done
    raced,          \* history: the nodes that saved a repeat without a token
    failures

vars == <<rows, posts, pulls, raced, failures>>

Row == [observation : Observation, kind : Evidence]

(* "save": the export that is next has passed the check, and is not yet saved. *)
Pull == [ids : Seq(Observation), done : Nat, at : {"check", "save"}]

NoPull == [ids |-> <<>>, done |-> 0, at |-> "check"]

PullOf(s) == [ids |-> s, done |-> 0, at |-> "check"]

Advanced(p) == [ids |-> p.ids, done |-> p.done + 1, at |-> "check"]

TypeOK ==
    /\ rows \in [Node -> SUBSET Row]
    /\ posts \in [Node -> SUBSET Row]
    /\ pulls \in [Links -> Pull]
    /\ \A l \in Links : /\ pulls[l].done <= Len(pulls[l].ids)
                        /\ pulls[l].at = "save" => pulls[l].done < Len(pulls[l].ids)
    /\ raced \subseteq Node
    /\ failures \in 0..MaxFailures

Init ==
    /\ rows = [n \in Node |-> {}]
    /\ posts = [n \in Node |-> {}]
    /\ pulls = [l \in Links |-> NoPull]
    /\ raced = {}
    /\ failures = 0

-----------------------------------------------------------------------------
(* What ingest decides about one Observation. *)

Held(n) == {r.observation : r \in rows[n]}

(* Another Observation with the same content is stored, and the evidence is
   not a token. *)
Repeats(n, r) ==
    /\ r.kind # "rfc3161"
    /\ \E o \in Held(n) \ {r.observation} : contentOf[o] = contentOf[r.observation]

(* Mutation: a peer's repeats are trusted, its signatures are looked at. *)
ChecksUnsigned(n, r) == r.observation \notin Signed

(* The check of ingest: 422 for a signature that does not verify, and for
   repeated content without a token. *)
FailsCheck(n, r) == r.observation \notin Signed \/ Repeats(n, r)

(* Another Object has the canonical URL: the commit fails, 500. *)
UrlTaken(n, r) ==
    \E o \in Held(n) : /\ objectOf[o] # objectOf[r.observation]
                       /\ urlOf[objectOf[o]] = urlOf[objectOf[r.observation]]

(* The keys of the tables are free for a row with this Observation. *)
Stores(n, r) == r.observation \notin Held(n) /\ ~ UrlTaken(n, r)

(* Mutation: the envelope's evidence is wrapped and loses its kind. *)
SavedAsUnknown(r) == [r EXCEPT !.kind = "unknown"]

(* The evidence is saved as it came. *)
Saved(r) == r

(* The save does not ask again what the check has asked: a row that came in
   between, by another thread of the node, is not looked at.  An Observation
   that is stored by now stays as it is, whatever evidence comes with it. *)
Save(n, r) ==
    /\ rows' = [rows EXCEPT ![n] = IF Stores(n, r) THEN @ \cup {Saved(r)} ELSE @]
    /\ raced' = IF Stores(n, r) /\ Repeats(n, r) THEN raced \cup {n} ELSE raced

(* A client captures at the node, or posts or pushes an envelope, and what it
   brings passes the check. *)
CheckPost(n, r) ==
    /\ n \notin Mirror
    /\ Cardinality(posts[n]) < MaxPosts
    /\ r.observation \notin Held(n)
    /\ ~ FailsCheck(n, r)
    /\ posts' = [posts EXCEPT ![n] = @ \cup {r}]
    /\ UNCHANGED <<rows, pulls, raced, failures>>

SavePost(n, r) ==
    /\ r \in posts[n]
    /\ Save(n, r)
    /\ posts' = [posts EXCEPT ![n] = @ \ {r}]
    /\ UNCHANGED <<pulls, failures>>

-----------------------------------------------------------------------------
(* The pull of node l[1] from peer l[2]. *)

Idle(l) == pulls[l].ids = <<>>

(* Mutation: the newest capture first. *)
NewestFirst(n) ==
    {s \in [1 .. Cardinality(Held(n)) -> Held(n)] :
       /\ \A o \in Held(n) : \E i \in DOMAIN s : s[i] = o
       /\ \A i, j \in DOMAIN s : i < j => capturedAt[s[i]] >= capturedAt[s[j]]}

(* list_observation_ids: ordered by the time of capture, ties in any order. *)
Listings(n) ==
    {s \in [1 .. Cardinality(Held(n)) -> Held(n)] :
       /\ \A o \in Held(n) : \E i \in DOMAIN s : s[i] = o
       /\ \A i, j \in DOMAIN s : i < j => capturedAt[s[i]] <= capturedAt[s[j]]}

(* Without identifiers in the request, the peer is asked for all it has. *)
StartFull(l) ==
    /\ Idle(l)
    /\ \E s \in Listings(l[2]) : pulls' = [pulls EXCEPT ![l] = PullOf(s)]
    /\ UNCHANGED <<rows, posts, raced, failures>>

(* The request names what is to be pulled. *)
StartChosen(l, o) ==
    /\ l[1] \notin Mirror
    /\ Idle(l)
    /\ pulls' = [pulls EXCEPT ![l] = PullOf(<<o>>)]
    /\ UNCHANGED <<rows, posts, raced, failures>>

More(l) == pulls[l].done < Len(pulls[l].ids)

(* The peer's export of the identifier that is next. *)
Exports(l) ==
    {r \in rows[l[2]] : r.observation = pulls[l].ids[pulls[l].done + 1]}

(* "already_present" and nothing changes, even if better evidence comes. *)
PassOver(l) ==
    /\ More(l)
    /\ pulls[l].at = "check"
    /\ \E r \in Exports(l) : r.observation \in Held(l[1]) \cap Signed
    /\ pulls' = [pulls EXCEPT ![l] = Advanced(@)]
    /\ UNCHANGED <<rows, posts, raced, failures>>

CheckNext(l) ==
    /\ More(l)
    /\ pulls[l].at = "check"
    /\ \E r \in Exports(l) : r.observation \notin Held(l[1]) /\ ~ FailsCheck(l[1], r)
    /\ pulls' = [pulls EXCEPT ![l].at = "save"]
    /\ UNCHANGED <<rows, posts, raced, failures>>

(* "created", also when another thread has stored the Observation since and
   the session finds it. *)
SaveNext(l) ==
    /\ pulls[l].at = "save"
    /\ \E r \in Exports(l) : ~ UrlTaken(l[1], r) /\ Save(l[1], r)
    /\ pulls' = [pulls EXCEPT ![l] = Advanced(@)]
    /\ UNCHANGED <<posts, failures>>

(* What the ingest of the next export can fail on: the check; or, in the save,
   a key that is taken, by another thread between the look of the session and
   its commit if it is the Observation's own. *)
Refused(l, r) ==
    IF pulls[l].at = "save"
    THEN UrlTaken(l[1], r) \/ r.observation \in Held(l[1])
    ELSE \/ r.observation \notin Signed
         \/ r.observation \notin Held(l[1]) /\ Repeats(l[1], r)

(* Mutation: what cannot be ingested is skipped. *)
SkipNext(l) ==
    /\ More(l)
    /\ \A r \in Exports(l) : Refused(l, r)
    /\ pulls' = [pulls EXCEPT ![l] = Advanced(@)]
    /\ UNCHANGED <<rows, posts, raced, failures>>

(* The peer does not have it (404, answered 502) or this node refuses it (422,
   or 500): the rest of the list is given up. *)
StopAtNext(l) ==
    /\ More(l)
    /\ \A r \in Exports(l) : Refused(l, r)
    /\ pulls' = [pulls EXCEPT ![l] = NoPull]
    /\ UNCHANGED <<rows, posts, raced, failures>>

(* The list is done: 200 with a result for each. *)
Answer(l) ==
    /\ ~ Idle(l)
    /\ ~ More(l)
    /\ pulls' = [pulls EXCEPT ![l] = NoPull]
    /\ UNCHANGED <<rows, posts, raced, failures>>

(* A time-out or a lost connection: 502.  The export is here when it is
   checked, so nothing is lost between the check and the save. *)
LoseConnection(l) ==
    /\ ~ Idle(l)
    /\ pulls[l].at = "check"
    /\ failures < MaxFailures
    /\ failures' = failures + 1
    /\ pulls' = [pulls EXCEPT ![l] = NoPull]
    /\ UNCHANGED <<rows, posts, raced>>

(* The node restarts, and its pulls and posts are forgotten. *)
Restart(n) ==
    /\ posts[n] # {} \/ \E l \in Links : l[1] = n /\ ~ Idle(l)
    /\ failures < MaxFailures
    /\ failures' = failures + 1
    /\ posts' = [posts EXCEPT ![n] = {}]
    /\ pulls' = [l \in Links |-> IF l[1] = n THEN NoPull ELSE pulls[l]]
    /\ UNCHANGED <<rows, raced>>

PullStep(l) == \/ PassOver(l) \/ CheckNext(l) \/ SaveNext(l)
               \/ StopAtNext(l) \/ Answer(l)

Next ==
    \/ \E n \in Node, r \in Row : CheckPost(n, r) \/ SavePost(n, r)
    \/ \E l \in Links : StartFull(l) \/ PullStep(l) \/ LoseConnection(l)
    \/ \E l \in Links, o \in Observation : StartChosen(l, o)
    \/ \E n \in Node : Restart(n)

Spec == Init /\ [][Next]_vars

(* Operators repeat the pull of a mirror, as the deployment guide asks, and a
   pull of it that runs goes on. *)
FairSpec ==
    /\ Spec
    /\ \A l \in Links : l[1] \in Mirror => WF_vars(StartFull(l)) /\ WF_vars(PullStep(l))

-----------------------------------------------------------------------------

(* A result in the answer of a pull means that the Observation is stored: the
   first identifier that fails ends the pull, and none is passed over. *)
PulledIsHeld ==
    \A l \in Links : \A i \in 1 .. pulls[l].done : pulls[l].ids[i] \in Held(l[1])

(* The rows without a token that carry a content, saved or on their way. *)
Undated(S, c) == {r \in S : r.kind # "rfc3161" /\ contentOf[r.observation] = c}

(* The pulls that have an export without a token past the check. *)
UndatedPulls(n, c) ==
    {l \in Links : l[1] = n /\ pulls[l].at = "save" /\ Undated(Exports(l), c) # {}}

(* Threads of a node that pass the check together store one Observation each
   of a content without third-party evidence; posts and pulls guard each other
   so far that there are never more of them than threads. *)
UndatedBounded ==
    \A n \in Node : \A c \in Content :
       Cardinality(Undated(rows[n], c)) + Cardinality(Undated(posts[n], c))
         + Cardinality(UndatedPulls(n, c))
       <= MaxPosts + Cardinality({l \in Links : l[1] = n})

(* What a node lists can be ingested in the order in which it is listed: an
   Observation that repeats the content of one captured no later has a token;
   and no two threads of the node let repeats past the check together. *)
Ordered(n) ==
    /\ n \notin raced
    /\ \A r, s \in rows[n] :
          /\ r # s
          /\ contentOf[r.observation] = contentOf[s.observation]
          /\ capturedAt[s.observation] <= capturedAt[r.observation]
          => r.kind = "rfc3161"

(* A mirror pulls from this peer only. *)
OnlyPeer(l) ==
    /\ l[1] \in Mirror
    /\ \A k \in Links : k[1] = l[1] => k = l

(* The pull of a mirror does not stop at an identifier: as long as the list of
   its one peer is ordered, the peer has what it listed, and what the mirror
   took in before, in this pull and in those that were cut off, does not make
   it refuse what comes next.  The list that it works through may be older
   than what the peer has by now. *)
MirrorIsNotRefused ==
    \A l \in Links :
       OnlyPeer(l) /\ Ordered(l[2]) /\ More(l) =>
          \E r \in Exports(l) : ~ Refused(l, r)

(* A mirror of one peer that repeats its pulls has, in the end, every
   Observation of the peer, whatever connections are lost and however the
   peer's list changes under the pull, as long as that list is ordered: that
   the list goes by the time of capture is what lets undated captures of a
   content pass before the dated ones. *)
MirrorCatchesUp ==
    \A l \in Links :
       OnlyPeer(l) =>
          \A o \in Observation :
             []Ordered(l[2]) => (o \in Held(l[2]) ~> o \in Held(l[1]))

(* A node that repeats its pulls has, in the end, every Observation of each
   of its peers. *)
ReplicaCatchesUp ==
    \A l \in Links, o \in Observation : o \in Held(l[2]) ~> o \in Held(l[1])
=============================================================================
