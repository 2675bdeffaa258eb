------------------------- MODULE Replication_proofs -------------------------
(***************************************************************************)
(* Theorems about Replication, for any nodes, links, mirrors, Observations *)
(* and bounds.                                                             *)
(***************************************************************************)
EXTENDS Replication, FiniteSetTheorems, SequenceTheorems, TLAPS

(* A node holds finitely many Observations, so its list is a sequence. *)
RowsFinite == \A n \in Node : IsFiniteSet(rows[n])

PostsBounded ==
    \A n \in Node : IsFiniteSet(posts[n]) /\ Cardinality(posts[n]) <= MaxPosts

TypeInv == TypeOK /\ RowsFinite /\ PostsBounded

(* The listing of a node is a sequence of Observations. *)
LEMMA ListingType ==
    ASSUME TypeInv, NEW n \in Node, NEW s \in Listings(n)
    PROVE  s \in Seq(Observation)
<1>1. Held(n) \subseteq Observation
  BY DEF TypeInv, TypeOK, Row, Held
<1>2. IsFiniteSet(Held(n))
  <2>1. IsFiniteSet(rows[n])
    BY DEF TypeInv, RowsFinite
  <2> DEFINE f == [r \in rows[n] |-> r.observation]
  <2>2. f \in Surjection(rows[n], Held(n))
    BY DEF Surjection, Held
  <2>3. QED
    BY <2>1, <2>2, FS_Surjection
<1>3. Cardinality(Held(n)) \in Nat
  BY <1>2, FS_CardinalityType
<1>4. s \in [1 .. Cardinality(Held(n)) -> Observation]
  BY <1>1 DEF Listings
<1>5. QED
  BY <1>3, <1>4, SeqDef

(* Saving a row adds at most that row, to that node. *)
LEMMA SaveType ==
    ASSUME TypeInv, NEW n \in Node, NEW r \in Row, Save(n, r)
    PROVE  /\ rows' \in [Node -> SUBSET Row]
           /\ raced' \subseteq Node
           /\ RowsFinite'
<1>1. rows' \in [Node -> SUBSET Row] /\ raced' \subseteq Node
  BY DEF TypeInv, TypeOK, Save, Saved
<1>2. ASSUME NEW m \in Node
      PROVE  IsFiniteSet(rows'[m])
  <2>1. IsFiniteSet(rows[m]) /\ IsFiniteSet(rows[m] \cup {r})
    BY FS_AddElement DEF TypeInv, RowsFinite
  <2>2. rows'[m] \in {rows[m], rows[m] \cup {r}}
    BY DEF TypeInv, TypeOK, Save, Saved
  <2>3. QED
    BY <2>1, <2>2
<1>3. QED
  BY <1>1, <1>2 DEF RowsFinite

(* Type correctness is inductive together with the finiteness of the rows and
   the bound on the posts. *)
THEOREM TypedAndFinite == Spec => []TypeInv
<1>1. Init => TypeInv
  <2> SUFFICES ASSUME Init
               PROVE  TypeInv
    OBVIOUS
  <2>1. TypeOK
    BY ReplicationAssumption DEF Init, TypeOK, NoPull, Pull
  <2>2. RowsFinite /\ PostsBounded
    BY FS_EmptySet, ReplicationAssumption DEF Init, RowsFinite, PostsBounded
  <2>3. QED
    BY <2>1, <2>2 DEF TypeInv
<1>2. TypeInv /\ [Next]_vars => TypeInv'
  <2> SUFFICES ASSUME TypeInv, [Next]_vars
               PROVE  TypeInv'
    OBVIOUS
  <2>a. \A l \in Links : l[1] \in Node /\ l[2] \in Node
    BY ReplicationAssumption
  <2>b. ASSUME UNCHANGED rows
        PROVE  RowsFinite'
    BY <2>b DEF TypeInv, RowsFinite
  <2>c. NoPull \in Pull
    BY DEF NoPull, Pull
  <2>d. ASSUME UNCHANGED posts
        PROVE  PostsBounded'
    BY <2>d DEF TypeInv, PostsBounded
  <2>e. ASSUME NEW l \in Links
        PROVE  /\ pulls[l] \in Pull
               /\ Len(pulls[l].ids) \in Nat
               /\ pulls[l].done \in Nat
    BY LenProperties DEF TypeInv, TypeOK, Pull
  <2>1. ASSUME NEW n \in Node, NEW r \in Row, CheckPost(n, r)
        PROVE  TypeInv'
    <3>1. posts' = [posts EXCEPT ![n] = @ \cup {r}]
      BY <2>1 DEF CheckPost
    <3>2. /\ IsFiniteSet(posts[n] \cup {r})
          /\ Cardinality(posts[n] \cup {r}) <= MaxPosts
      <4>1. IsFiniteSet(posts[n]) /\ Cardinality(posts[n]) \in Nat
        BY FS_CardinalityType DEF TypeInv, PostsBounded
      <4>2. Cardinality(posts[n]) < MaxPosts
        BY <2>1 DEF CheckPost
      <4>3. /\ IsFiniteSet(posts[n] \cup {r})
            /\ \/ Cardinality(posts[n] \cup {r}) = Cardinality(posts[n])
               \/ Cardinality(posts[n] \cup {r}) = Cardinality(posts[n]) + 1
        BY <4>1, FS_AddElement
      <4>4. QED
        BY <4>1, <4>2, <4>3, ReplicationAssumption
    <3>3. PostsBounded'
      BY <3>1, <3>2 DEF TypeInv, TypeOK, PostsBounded
    <3>4. QED
      BY <2>1, <2>b, <3>1, <3>3 DEF TypeInv, TypeOK, CheckPost
  <2>2. ASSUME NEW n \in Node, NEW r \in Row, SavePost(n, r)
        PROVE  TypeInv'
    <3>1. posts' = [posts EXCEPT ![n] = @ \ {r}]
      BY <2>2 DEF SavePost
    <3>2. /\ IsFiniteSet(posts[n] \ {r})
          /\ Cardinality(posts[n] \ {r}) <= MaxPosts
      <4>1. /\ IsFiniteSet(posts[n]) /\ Cardinality(posts[n]) \in Nat
            /\ Cardinality(posts[n]) <= MaxPosts
        BY FS_CardinalityType DEF TypeInv, PostsBounded
      <4>2. /\ IsFiniteSet(posts[n] \ {r})
            /\ Cardinality(posts[n] \ {r}) <= Cardinality(posts[n])
        BY <4>1, FS_Subset
      <4>3. Cardinality(posts[n] \ {r}) \in Nat
        BY <4>2, FS_CardinalityType
      <4>4. QED
        BY <4>1, <4>2, <4>3, ReplicationAssumption
    <3>3. PostsBounded'
      BY <3>1, <3>2 DEF TypeInv, TypeOK, PostsBounded
    <3>4. rows' \in [Node -> SUBSET Row] /\ raced' \subseteq Node /\ RowsFinite'
      BY <2>2, SaveType DEF SavePost
    <3>5. QED
      BY <2>2, <3>1, <3>3, <3>4 DEF TypeInv, TypeOK, SavePost
  <2>3. ASSUME NEW l \in Links, StartFull(l)
        PROVE  TypeInv'
    <3>1. PICK s \in Listings(l[2]) : pulls' = [pulls EXCEPT ![l] = PullOf(s)]
      BY <2>3 DEF StartFull
    <3>2. s \in Seq(Observation)
      BY <2>a, ListingType
    <3>3. PullOf(s) \in Pull /\ 0 <= Len(s)
      BY <3>2, LenProperties DEF Pull, PullOf
    <3>4. QED
      BY <2>3, <2>b, <2>d, <3>1, <3>3 DEF TypeInv, TypeOK, StartFull, PullOf
  <2>4. ASSUME NEW l \in Links, NEW o \in Observation, StartChosen(l, o)
        PROVE  TypeInv'
    <3>1. PullOf(<<o>>) \in Pull
      BY DEF Pull, PullOf
    <3>2. QED
      BY <2>4, <2>b, <2>d, <3>1 DEF TypeInv, TypeOK, StartChosen, PullOf
  <2>5. ASSUME NEW l \in Links, PassOver(l) \/ CheckNext(l)
        PROVE  TypeInv'
    <3>1. pulls[l].done < Len(pulls[l].ids)
      BY <2>5 DEF PassOver, CheckNext, More
    <3>2. PICK p \in Pull :
             /\ pulls' = [pulls EXCEPT ![l] = p]
             /\ p.done <= Len(p.ids)
             /\ p.at = "save" => p.done < Len(p.ids)
      <4>1. CASE PassOver(l)
        <5> DEFINE p == Advanced(pulls[l])
        <5>1. p \in Pull /\ p.done <= Len(p.ids) /\ p.at = "check"
          BY <2>e, <3>1 DEF Advanced, Pull
        <5>2. pulls' = [pulls EXCEPT ![l] = p]
          BY <4>1 DEF PassOver
        <5>3. QED
          BY <5>1, <5>2
      <4>2. CASE CheckNext(l)
        <5> DEFINE p == [pulls[l] EXCEPT !.at = "save"]
        <5>1. p \in Pull /\ p.done <= Len(p.ids) /\ p.done < Len(p.ids)
          BY <2>e, <3>1 DEF Pull
        <5>2. pulls' = [pulls EXCEPT ![l] = p]
          BY <4>2 DEF CheckNext
        <5>3. QED
          BY <5>1, <5>2
      <4>3. QED
        BY <2>5, <4>1, <4>2
    <3>3. UNCHANGED <<rows, posts, raced, failures>>
      BY <2>5 DEF PassOver, CheckNext
    <3>4. QED
      BY <2>b, <2>d, <3>2, <3>3 DEF TypeInv, TypeOK
  <2>6. ASSUME NEW l \in Links, SaveNext(l)
        PROVE  TypeInv'
    <3>1. PICK r \in Exports(l) : Save(l[1], r)
      BY <2>6 DEF SaveNext
    <3>2. r \in Row
      BY <2>a DEF Exports, TypeInv, TypeOK
    <3>3. rows' \in [Node -> SUBSET Row] /\ raced' \subseteq Node /\ RowsFinite'
      BY <2>a, <3>1, <3>2, SaveType
    <3>4. PICK p \in Pull :
             pulls' = [pulls EXCEPT ![l] = p] /\ p.done <= Len(p.ids) /\ p.at = "check"
      <4>1. pulls[l].at = "save" /\ pulls' = [pulls EXCEPT ![l] = Advanced(@)]
        BY <2>6 DEF SaveNext
      <4>2. pulls[l].done < Len(pulls[l].ids)
        BY <4>1 DEF TypeInv, TypeOK
      <4>3. /\ Advanced(pulls[l]) \in Pull
            /\ Advanced(pulls[l]).done <= Len(Advanced(pulls[l]).ids)
            /\ Advanced(pulls[l]).at = "check"
        BY <2>e, <4>2 DEF Pull, Advanced
      <4>4. QED
        BY <4>1, <4>3
    <3>5. UNCHANGED <<posts, failures>>
      BY <2>6 DEF SaveNext
    <3>6. QED
      BY <2>d, <3>3, <3>4, <3>5 DEF TypeInv, TypeOK
  <2>7. ASSUME NEW l \in Links, StopAtNext(l) \/ Answer(l)
        PROVE  TypeInv'
    <3>1. /\ pulls' = [pulls EXCEPT ![l] = NoPull]
          /\ UNCHANGED <<rows, posts, raced, failures>>
      BY <2>7 DEF StopAtNext, Answer
    <3>2. QED
      BY <2>b, <2>c, <2>d, <3>1 DEF TypeInv, TypeOK, NoPull
  <2>8. ASSUME NEW l \in Links, LoseConnection(l)
        PROVE  TypeInv'
    BY <2>8, <2>b, <2>c, <2>d, ReplicationAssumption
    DEF LoseConnection, TypeInv, TypeOK, NoPull
  <2>9. ASSUME NEW n \in Node, Restart(n)
        PROVE  TypeInv'
    <3>1. PostsBounded'
      BY <2>9, FS_EmptySet, ReplicationAssumption
      DEF Restart, TypeInv, TypeOK, PostsBounded
    <3>2. QED
      BY <2>9, <2>b, <2>c, <3>1, ReplicationAssumption
      DEF Restart, TypeInv, TypeOK, NoPull
  <2>10. CASE UNCHANGED vars
    BY <2>10, <2>b, <2>d DEF vars, TypeInv, TypeOK
  <2>11. QED
    BY <2>1, <2>2, <2>3, <2>4, <2>5, <2>6, <2>7, <2>8, <2>9, <2>10
    DEF Next, PullStep
<1>3. QED
  BY <1>1, <1>2, PTL DEF Spec

(* Every variable keeps its type. *)
THEOREM TypeCorrect == Spec => []TypeOK
<1>1. TypeInv => TypeOK
  BY DEF TypeInv
<1>2. QED
  BY <1>1, TypedAndFinite, PTL

-----------------------------------------------------------------------------
(* What a step does to the rows: nothing, or the save of a row that was posted
   to its node or exported by a peer of it. *)
LEMMA RowsChange ==
    ASSUME TypeInv, [Next]_vars
    PROVE  \/ UNCHANGED <<rows, raced>>
           \/ \E n \in Node, r \in Row : SavePost(n, r)
           \/ \E l \in Links : SaveNext(l)
BY DEF Next, PullStep, vars, CheckPost, StartFull, StartChosen, PassOver,
       CheckNext, StopAtNext, Answer, LoseConnection, Restart

(* Either way it is a Save. *)
LEMMA RowsSaved ==
    ASSUME TypeInv, [Next]_vars, rows' # rows
    PROVE  \E n \in Node, r \in Row :
              /\ Save(n, r)
              /\ r \in posts[n] \/ \E m \in Node : r \in rows[m]
<1>1. ASSUME NEW n \in Node, NEW r \in Row, SavePost(n, r)
      PROVE  Save(n, r) /\ r \in posts[n]
  BY <1>1 DEF SavePost
<1>2. ASSUME NEW l \in Links, SaveNext(l)
      PROVE  \E n \in Node, r \in Row :
                Save(n, r) /\ \E m \in Node : r \in rows[m]
  <2>1. l[1] \in Node /\ l[2] \in Node
    BY ReplicationAssumption
  <2>2. PICK r \in Exports(l) : Save(l[1], r)
    BY <1>2 DEF SaveNext
  <2>3. r \in Row /\ r \in rows[l[2]]
    BY <2>1 DEF Exports, TypeInv, TypeOK
  <2>4. QED
    BY <2>1, <2>2, <2>3
<1>3. QED
  BY <1>1, <1>2, RowsChange

(* A row that a node did not have is of an Observation that it did not hold,
   and of an Object whose URL was not taken; if it repeats a content without a
   token, it has passed the check in a race. *)
LEMMA NewRow ==
    ASSUME TypeInv, [Next]_vars, NEW n \in Node, NEW r \in rows'[n],
           r \notin rows[n]
    PROVE  /\ r \in Row
           /\ r \in posts[n] \/ \E m \in Node : r \in rows[m]
           /\ r.observation \notin Held(n)
           /\ ~ UrlTaken(n, r)
           /\ rows' = [rows EXCEPT ![n] = @ \cup {r}]
           /\ Repeats(n, r) => n \in raced'
<1>1. PICK k \in Node, t \in Row :
         /\ Save(k, t)
         /\ t \in posts[k] \/ \E m \in Node : t \in rows[m]
  BY RowsSaved DEF TypeInv, TypeOK
<1>2. Stores(k, t) /\ rows' = [rows EXCEPT ![k] = @ \cup {t}]
  BY <1>1 DEF TypeInv, TypeOK, Save, Saved
<1>3. k = n /\ t = r
  BY <1>2 DEF TypeInv, TypeOK
<1>4. Repeats(n, r) => n \in raced'
  BY <1>1, <1>2, <1>3 DEF Save
<1>5. QED
  BY <1>1, <1>2, <1>3, <1>4 DEF Stores

(* Rows only grow, and a race is not forgotten. *)
LEMMA RowsAreKept ==
    ASSUME TypeInv, [Next]_vars
    PROVE  /\ \A n \in Node : rows[n] \subseteq rows'[n]
           /\ raced \subseteq raced'
<1>1. ASSUME NEW n \in Node, NEW r \in Row, Save(n, r)
      PROVE  /\ \A m \in Node : rows[m] \subseteq rows'[m]
             /\ raced \subseteq raced'
  BY <1>1 DEF Save, Saved, TypeInv, TypeOK
<1>2. \A l \in Links : SaveNext(l) =>
         \E n \in Node, r \in Row : Save(n, r)
  BY ReplicationAssumption DEF SaveNext, Exports, TypeInv, TypeOK
<1>3. QED
  BY <1>1, <1>2, RowsChange DEF SavePost

(* What a node holds it keeps. *)
LEMMA HeldIsKept ==
    ASSUME TypeInv, [Next]_vars, NEW n \in Node
    PROVE  Held(n) \subseteq Held(n)'
BY RowsAreKept DEF Held

(* What a step does to the pull of a link. *)
LEMMA PullsChange ==
    ASSUME TypeInv, [Next]_vars, NEW l \in Links
    PROVE  \/ pulls'[l] = pulls[l]
           \/ pulls'[l] = NoPull
           \/ StartFull(l)
           \/ \E o \in Observation : StartChosen(l, o)
           \/ PassOver(l) \/ CheckNext(l) \/ SaveNext(l)
<1>0. pulls \in [Links -> Pull]
  BY DEF TypeInv, TypeOK
<1>1. ASSUME NEW k \in Links, StartFull(k)
      PROVE  k = l \/ pulls'[l] = pulls[l]
  BY <1>0, <1>1 DEF StartFull
<1>2. ASSUME NEW k \in Links, NEW o \in Observation, StartChosen(k, o)
      PROVE  k = l \/ pulls'[l] = pulls[l]
  BY <1>0, <1>2 DEF StartChosen
<1>3. ASSUME NEW k \in Links, PassOver(k)
      PROVE  k = l \/ pulls'[l] = pulls[l]
  BY <1>0, <1>3 DEF PassOver
<1>4. ASSUME NEW k \in Links, CheckNext(k)
      PROVE  k = l \/ pulls'[l] = pulls[l]
  BY <1>0, <1>4 DEF CheckNext
<1>5. ASSUME NEW k \in Links, SaveNext(k)
      PROVE  k = l \/ pulls'[l] = pulls[l]
  BY <1>0, <1>5 DEF SaveNext
<1>6. ASSUME NEW k \in Links, StopAtNext(k) \/ Answer(k) \/ LoseConnection(k)
      PROVE  pulls'[l] = pulls[l] \/ pulls'[l] = NoPull
  <2>1. pulls' = [pulls EXCEPT ![k] = NoPull]
    BY <1>6 DEF StopAtNext, Answer, LoseConnection
  <2>2. QED
    BY <1>0, <2>1
<1>7. ASSUME NEW n \in Node, Restart(n)
      PROVE  pulls'[l] = pulls[l] \/ pulls'[l] = NoPull
  BY <1>7 DEF Restart
<1>8. QED
  BY <1>1, <1>2, <1>3, <1>4, <1>5, <1>6, <1>7
  DEF Next, PullStep, CheckPost, SavePost, vars

(* Every result that a running pull has collected is of an Observation that
   the node holds: the pull passes nothing over. *)
THEOREM PullsReportTheTruth == Spec => []PulledIsHeld
<1>1. Init => PulledIsHeld
  BY DEF Init, PulledIsHeld, NoPull
<1>2. TypeInv /\ PulledIsHeld /\ [Next]_vars => PulledIsHeld'
  <2> SUFFICES ASSUME TypeInv, PulledIsHeld, [Next]_vars,
                      NEW l \in Links, NEW i \in 1 .. pulls'[l].done
               PROVE  pulls'[l].ids[i] \in Held(l[1])'
    BY DEF PulledIsHeld
  <2>1. l[1] \in Node /\ l[2] \in Node
    BY ReplicationAssumption
  <2>2. CASE pulls'[l] = pulls[l]
    BY <2>1, <2>2, HeldIsKept DEF PulledIsHeld
  <2>3. CASE pulls'[l].done = 0
    BY <2>3
  <2>4. CASE SaveNext(l) \/ PassOver(l)
    <3>1. /\ pulls'[l].ids = pulls[l].ids
          /\ pulls'[l].done = pulls[l].done + 1
          /\ pulls[l].done \in Nat
      BY <2>4 DEF SaveNext, PassOver, Advanced, TypeInv, TypeOK, Pull
    <3>2. CASE i \in 1 .. pulls[l].done
      BY <2>1, <3>1, <3>2, HeldIsKept DEF PulledIsHeld
    <3>3. CASE i = pulls[l].done + 1
      <4>1. PICK r \in Exports(l) :
               \/ r.observation \in Held(l[1])
               \/ ~ UrlTaken(l[1], r) /\ Save(l[1], r)
        BY <2>4 DEF SaveNext, PassOver
      <4>2. r.observation = pulls[l].ids[i]
        BY <3>3 DEF Exports
      <4>3. CASE r.observation \in Held(l[1])
        BY <2>1, <3>1, <4>2, <4>3, HeldIsKept
      <4>4. CASE r.observation \notin Held(l[1])
        <5>1. r \in rows'[l[1]]
          BY <2>1, <4>1, <4>4 DEF Save, Stores, Saved, TypeInv, TypeOK
        <5>2. QED
          BY <3>1, <4>2, <5>1 DEF Held
      <4>5. QED
        BY <4>3, <4>4
    <3>4. QED
      BY <3>1, <3>2, <3>3
  <2>5. CASE CheckNext(l)
    <3>1. pulls'[l].ids = pulls[l].ids /\ pulls'[l].done = pulls[l].done
      BY <2>5 DEF CheckNext, TypeInv, TypeOK, Pull
    <3>2. QED
      BY <2>1, <3>1, HeldIsKept DEF PulledIsHeld
  <2>6. \/ pulls'[l] = pulls[l] \/ pulls'[l].done = 0
        \/ SaveNext(l) \/ PassOver(l) \/ CheckNext(l)
    BY PullsChange DEF StartFull, StartChosen, NoPull, PullOf, TypeInv, TypeOK
  <2>7. QED
    BY <2>2, <2>3, <2>4, <2>5, <2>6
<1>3. QED
  BY <1>1, <1>2, TypedAndFinite, PTL DEF Spec

-----------------------------------------------------------------------------
(* The bound on what threads let past the check together.  A check is passed
   only while nothing of the content is held, and from there on each copy that
   is saved is one less under way. *)

SingleRow ==
    \A n \in Node : \A r, s \in rows[n] : r.observation = s.observation => r = s

(* What passed the check has come from the peer. *)
Exported == \A l \in Links : pulls[l].at = "save" => Exports(l) # {}

(* What a peer exports under an identifier it goes on exporting. *)
LEMMA ExportsKept ==
    ASSUME TypeInv, [Next]_vars, NEW l \in Links, Exports(l) # {},
           pulls'[l].ids = pulls[l].ids, pulls'[l].done = pulls[l].done
    PROVE  Exports(l)' = Exports(l)
<1> DEFINE o == pulls[l].ids[pulls[l].done + 1]
<1>1. l[2] \in Node
  BY ReplicationAssumption
<1>2. o \in Held(l[2])
  BY DEF Exports, Held
<1>3. \A r \in rows'[l[2]] : r.observation = o => r \in rows[l[2]]
  BY <1>1, <1>2, NewRow
<1>4. rows[l[2]] \subseteq rows'[l[2]]
  BY <1>1, RowsAreKept
<1>5. Exports(l)' = {r \in rows'[l[2]] : r.observation = o}
  BY DEF Exports
<1>6. Exports(l) = {r \in rows[l[2]] : r.observation = o}
  BY DEF Exports
<1>7. QED
  BY <1>3, <1>4, <1>5, <1>6

LEMMA SingleRowStep ==
    ASSUME TypeInv, SingleRow, [Next]_vars
    PROVE  SingleRow'
<1> SUFFICES ASSUME NEW n \in Node, NEW r \in rows'[n], NEW s \in rows'[n],
                    r.observation = s.observation
             PROVE  r = s
  BY DEF SingleRow
<1>1. CASE r \in rows[n] /\ s \in rows[n]
  BY <1>1 DEF SingleRow
<1>2. CASE r \notin rows[n]
  <2>1. r.observation \notin Held(n) /\ rows' = [rows EXCEPT ![n] = @ \cup {r}]
    BY <1>2, NewRow
  <2>2. QED
    BY <2>1 DEF Held, TypeInv, TypeOK
<1>3. CASE s \notin rows[n]
  <2>1. s.observation \notin Held(n) /\ rows' = [rows EXCEPT ![n] = @ \cup {s}]
    BY <1>3, NewRow
  <2>2. QED
    BY <2>1 DEF Held, TypeInv, TypeOK
<1>4. QED
  BY <1>1, <1>2, <1>3

(* After a step that leaves a pull past the check, it was past the check
   before or the step is the check. *)
LEMMA PastTheCheck ==
    ASSUME TypeInv, [Next]_vars, NEW l \in Links, pulls'[l].at = "save"
    PROVE  \/ pulls'[l] = pulls[l]
           \/ /\ CheckNext(l)
              /\ UNCHANGED rows
              /\ pulls'[l].ids = pulls[l].ids
              /\ pulls'[l].done = pulls[l].done
<1>0. pulls \in [Links -> Pull]
  BY DEF TypeInv, TypeOK
<1>1. ~ PassOver(l) /\ ~ SaveNext(l)
  BY <1>0 DEF PassOver, SaveNext, Advanced
<1>2. ~ StartFull(l) /\ \A o \in Observation : ~ StartChosen(l, o)
  BY <1>0 DEF StartFull, StartChosen, PullOf
<1>3. pulls'[l] # NoPull
  BY DEF NoPull
<1>4. CASE CheckNext(l)
  BY <1>0, <1>4 DEF CheckNext, Pull
<1>5. QED
  BY <1>1, <1>2, <1>3, <1>4, PullsChange

LEMMA ExportedStep ==
    ASSUME TypeInv, Exported, [Next]_vars
    PROVE  Exported'
<1> SUFFICES ASSUME NEW l \in Links, pulls'[l].at = "save"
             PROVE  Exports(l)' # {}
  BY DEF Exported
<1>1. CASE pulls'[l] = pulls[l]
  BY <1>1, ExportsKept DEF Exported
<1>2. CASE CheckNext(l) /\ pulls'[l].ids = pulls[l].ids /\ pulls'[l].done = pulls[l].done
  <2>1. Exports(l) # {}
    BY <1>2 DEF CheckNext
  <2>2. QED
    BY <1>2, <2>1, ExportsKept
<1>3. QED
  BY <1>1, <1>2, PastTheCheck

(* An Observation without a token passes the check only while its content is
   not held. *)
LEMMA PassesFirst ==
    ASSUME NEW n \in Node, NEW c, NEW r, r.kind # "rfc3161",
           contentOf[r.observation] = c, r.observation \notin Held(n),
           ~ FailsCheck(n, r)
    PROVE  Undated(rows[n], c) = {}
<1> SUFFICES ASSUME NEW t \in Undated(rows[n], c)
             PROVE  FALSE
  OBVIOUS
<1>1. t.observation \in Held(n) /\ contentOf[t.observation] = c
  BY DEF Undated, Held
<1>2. t.observation \in Held(n) \ {r.observation}
  BY <1>1
<1>3. QED
  BY <1>1, <1>2 DEF FailsCheck, Repeats

(* The pulls past the check with an undated export of a content, after a step:
   either none is new, or nothing of the content is held. *)
LEMMA PullsPast ==
    ASSUME TypeInv, SingleRow, Exported, [Next]_vars, NEW n \in Node, NEW c
    PROVE  \/ UndatedPulls(n, c)' \subseteq UndatedPulls(n, c)
           \/ Undated(rows'[n], c) = {}
<1>1. ASSUME NEW l \in UndatedPulls(n, c)', pulls'[l] = pulls[l]
      PROVE  l \in UndatedPulls(n, c)
  <2>1. l \in Links /\ l[1] = n /\ pulls[l].at = "save"
    BY <1>1 DEF UndatedPulls
  <2>2. Exports(l)' = Exports(l)
    BY <1>1, <2>1, ExportsKept DEF Exported
  <2>3. Undated(Exports(l)', c) # {}
    BY DEF UndatedPulls, Undated
  <2>4. QED
    BY <2>1, <2>2, <2>3 DEF UndatedPulls
<1>2. ASSUME NEW l \in UndatedPulls(n, c)', CheckNext(l), UNCHANGED rows,
             pulls'[l].ids = pulls[l].ids, pulls'[l].done = pulls[l].done
      PROVE  Undated(rows'[n], c) = {}
  <2>1. l \in Links /\ l[1] = n /\ l[2] \in Node
    BY ReplicationAssumption DEF UndatedPulls
  <2>2. PICK r \in Exports(l) : r.observation \notin Held(n) /\ ~ FailsCheck(n, r)
    BY <1>2, <2>1 DEF CheckNext
  <2>3. Exports(l)' = Exports(l)
    BY <1>2, <2>1, <2>2, ExportsKept
  <2>4. Undated(Exports(l)', c) # {}
    BY DEF UndatedPulls, Undated
  <2>5. PICK s \in Exports(l) : s.kind # "rfc3161" /\ contentOf[s.observation] = c
    BY <2>3, <2>4 DEF Undated
  <2>6. r = s
    BY <2>1 DEF Exports, SingleRow
  <2>7. Undated(rows[n], c) = {}
    BY <2>2, <2>5, <2>6, PassesFirst
  <2>8. QED
    BY <1>2, <2>7
<1>3. ASSUME NEW l \in UndatedPulls(n, c)'
      PROVE  l \in Links /\ pulls'[l].at = "save"
  BY DEF UndatedPulls
<1>4. QED
  BY <1>1, <1>2, <1>3, PastTheCheck

(* What a step can do to the copies of a content at a node, and to those on
   their way. *)
LEMMA CopiesChange ==
    ASSUME TypeInv, SingleRow, Exported, [Next]_vars, NEW n \in Node, NEW c,
           UndatedPulls(n, c)' \subseteq UndatedPulls(n, c)
    PROVE  \/ Undated(rows'[n], c) = {}
           \/ /\ Undated(rows'[n], c) \subseteq Undated(rows[n], c)
              /\ Undated(posts'[n], c) \subseteq Undated(posts[n], c)
           \/ \E r \in Undated(posts[n], c) :
                 /\ Undated(rows'[n], c) \subseteq Undated(rows[n], c) \cup {r}
                 /\ Undated(posts'[n], c) \subseteq Undated(posts[n], c) \ {r}
           \/ \E r \in Row, l \in UndatedPulls(n, c) :
                 /\ Undated(rows'[n], c) \subseteq Undated(rows[n], c) \cup {r}
                 /\ Undated(posts'[n], c) \subseteq Undated(posts[n], c)
                 /\ UndatedPulls(n, c)' \subseteq UndatedPulls(n, c) \ {l}
<1>0. rows \in [Node -> SUBSET Row] /\ posts \in [Node -> SUBSET Row]
  BY DEF TypeInv, TypeOK
<1>s. ASSUME NEW m \in Node, NEW r \in Row, Save(m, r)
      PROVE  rows'[n] \subseteq rows[n] \cup {x \in {r} : m = n}
  BY <1>0, <1>s DEF Save, Saved
<1>1. ASSUME NEW m \in Node, NEW r \in Row, CheckPost(m, r)
      PROVE  \/ Undated(rows'[n], c) = {}
             \/ /\ Undated(rows'[n], c) \subseteq Undated(rows[n], c)
                /\ Undated(posts'[n], c) \subseteq Undated(posts[n], c)
  <2>1. rows' = rows /\ posts' = [posts EXCEPT ![m] = @ \cup {r}]
    BY <1>1 DEF CheckPost
  <2>2. CASE m = n /\ r.kind # "rfc3161" /\ contentOf[r.observation] = c
    <3>1. r.observation \notin Held(n) /\ ~ FailsCheck(n, r)
      BY <1>1, <2>2 DEF CheckPost
    <3>2. QED
      BY <2>1, <2>2, <3>1, PassesFirst
  <2>3. CASE ~ (m = n /\ r.kind # "rfc3161" /\ contentOf[r.observation] = c)
    BY <1>0, <2>1, <2>3 DEF Undated
  <2>4. QED
    BY <2>2, <2>3
<1>2. ASSUME NEW m \in Node, NEW r \in Row, SavePost(m, r)
      PROVE  \/ /\ Undated(rows'[n], c) \subseteq Undated(rows[n], c)
                /\ Undated(posts'[n], c) \subseteq Undated(posts[n], c)
             \/ /\ r \in Undated(posts[n], c)
                /\ Undated(rows'[n], c) \subseteq Undated(rows[n], c) \cup {r}
                /\ Undated(posts'[n], c) \subseteq Undated(posts[n], c) \ {r}
  <2>1. /\ r \in posts[m]
        /\ rows'[n] \subseteq rows[n] \cup {x \in {r} : m = n}
        /\ posts' = [posts EXCEPT ![m] = @ \ {r}]
    BY <1>2, <1>s DEF SavePost
  <2>2. posts'[n] \subseteq posts[n] /\ (m = n => r \notin posts'[n])
    BY <1>0, <2>1
  <2>3. CASE m = n /\ r.kind # "rfc3161" /\ contentOf[r.observation] = c
    BY <2>1, <2>2, <2>3 DEF Undated
  <2>4. CASE ~ (m = n /\ r.kind # "rfc3161" /\ contentOf[r.observation] = c)
    BY <2>1, <2>2, <2>4 DEF Undated
  <2>5. QED
    BY <2>3, <2>4
<1>3. ASSUME NEW l \in Links, SaveNext(l)
      PROVE  \/ /\ Undated(rows'[n], c) \subseteq Undated(rows[n], c)
                /\ Undated(posts'[n], c) \subseteq Undated(posts[n], c)
             \/ \E r \in Row :
                   /\ l \in UndatedPulls(n, c)
                   /\ Undated(rows'[n], c) \subseteq Undated(rows[n], c) \cup {r}
                   /\ Undated(posts'[n], c) \subseteq Undated(posts[n], c)
                   /\ UndatedPulls(n, c)' \subseteq UndatedPulls(n, c) \ {l}
  <2>1. l[1] \in Node /\ l[2] \in Node
    BY ReplicationAssumption
  <2>2. PICK r \in Exports(l) : Save(l[1], r)
    BY <1>3 DEF SaveNext
  <2>3. r \in Row
    BY <1>0, <2>1 DEF Exports
  <2>4. rows'[n] \subseteq rows[n] \cup {x \in {r} : l[1] = n}
    BY <1>s, <2>1, <2>2, <2>3
  <2>5. posts' = posts /\ pulls[l].at = "save" /\ pulls'[l].at = "check"
    BY <1>3 DEF SaveNext, Advanced, TypeInv, TypeOK
  <2>6. CASE l[1] = n /\ r.kind # "rfc3161" /\ contentOf[r.observation] = c
    <3>1. r \in Undated(Exports(l), c)
      BY <2>6 DEF Undated
    <3>2. l \in UndatedPulls(n, c)
      BY <2>5, <2>6, <3>1 DEF UndatedPulls
    <3>3. l \notin UndatedPulls(n, c)'
      BY <2>5 DEF UndatedPulls
    <3>4. Undated(rows'[n], c) \subseteq Undated(rows[n], c) \cup {r}
      BY <2>4 DEF Undated
    <3>5. QED
      BY <2>3, <2>5, <3>2, <3>3, <3>4
  <2>7. CASE ~ (l[1] = n /\ r.kind # "rfc3161" /\ contentOf[r.observation] = c)
    BY <2>4, <2>5, <2>7 DEF Undated
  <2>8. QED
    BY <2>6, <2>7
<1>4. ASSUME rows' = rows, posts'[n] \subseteq posts[n]
      PROVE  /\ Undated(rows'[n], c) \subseteq Undated(rows[n], c)
             /\ Undated(posts'[n], c) \subseteq Undated(posts[n], c)
  BY <1>4 DEF Undated
<1>5. ASSUME NEW m \in Node, Restart(m)
      PROVE  rows' = rows /\ posts'[n] \subseteq posts[n]
  BY <1>0, <1>5 DEF Restart
<1>6. ASSUME NEW l \in Links,
             \/ StartFull(l) \/ PassOver(l) \/ CheckNext(l) \/ StopAtNext(l)
             \/ Answer(l) \/ LoseConnection(l)
             \/ \E o \in Observation : StartChosen(l, o)
      PROVE  rows' = rows /\ posts' = posts
  BY <1>6 DEF StartFull, PassOver, CheckNext, StopAtNext, Answer, LoseConnection,
              StartChosen
<1>7. UNCHANGED vars => rows' = rows /\ posts' = posts
  BY DEF vars
<1>8. CASE rows' = rows /\ posts'[n] \subseteq posts[n]
  BY <1>4, <1>8
<1>9. QED
  BY <1>1, <1>2, <1>3, <1>5, <1>6, <1>7, <1>8 DEF Next, PullStep

(* The sum of three counts when nothing is added, and when one element at most
   is added to one set and another leaves the second. *)
LEMMA SumKept ==
    ASSUME NEW A, NEW B, NEW C, IsFiniteSet(A), IsFiniteSet(B), IsFiniteSet(C),
           NEW A1 \in SUBSET A, NEW B1 \in SUBSET B, NEW C1 \in SUBSET C
    PROVE  Cardinality(A1) + Cardinality(B1) + Cardinality(C1)
             <= Cardinality(A) + Cardinality(B) + Cardinality(C)
<1>1. /\ IsFiniteSet(A1) /\ Cardinality(A1) <= Cardinality(A)
      /\ IsFiniteSet(B1) /\ Cardinality(B1) <= Cardinality(B)
      /\ IsFiniteSet(C1) /\ Cardinality(C1) <= Cardinality(C)
  BY FS_Subset
<1>2. /\ Cardinality(A) \in Nat /\ Cardinality(B) \in Nat /\ Cardinality(C) \in Nat
      /\ Cardinality(A1) \in Nat /\ Cardinality(B1) \in Nat /\ Cardinality(C1) \in Nat
  BY <1>1, FS_CardinalityType
<1>3. QED
  BY <1>1, <1>2

LEMMA SumMoved ==
    ASSUME NEW A, NEW B, NEW C, IsFiniteSet(A), IsFiniteSet(B), IsFiniteSet(C),
           NEW x, NEW y \in B, NEW A1 \in SUBSET (A \cup {x}),
           NEW B1 \in SUBSET (B \ {y}), NEW C1 \in SUBSET C
    PROVE  Cardinality(A1) + Cardinality(B1) + Cardinality(C1)
             <= Cardinality(A) + Cardinality(B) + Cardinality(C)
<1>1. /\ IsFiniteSet(A \cup {x}) /\ IsFiniteSet(B \ {y})
      /\ Cardinality(B \ {y}) = Cardinality(B) - 1
  BY FS_AddElement, FS_RemoveElement
<1>2. Cardinality(A) \in Nat /\ Cardinality(B) \in Nat
  BY FS_CardinalityType
<1>3. Cardinality(A \cup {x}) <= Cardinality(A) + 1
  <2>1. \/ Cardinality(A \cup {x}) = Cardinality(A)
        \/ Cardinality(A \cup {x}) = Cardinality(A) + 1
    BY FS_AddElement
  <2>2. QED
    BY <1>2, <2>1
<1>4. Cardinality(A1) + Cardinality(B1) + Cardinality(C1)
        <= Cardinality(A \cup {x}) + Cardinality(B \ {y}) + Cardinality(C)
  BY <1>1, SumKept
<1>5. /\ Cardinality(A \cup {x}) \in Nat /\ Cardinality(C) \in Nat
      /\ IsFiniteSet(A1) /\ IsFiniteSet(B1) /\ IsFiniteSet(C1)
  BY <1>1, FS_CardinalityType, FS_Subset
<1>6. Cardinality(A1) \in Nat /\ Cardinality(B1) \in Nat /\ Cardinality(C1) \in Nat
  BY <1>5, FS_CardinalityType
<1>7. QED
  BY <1>1, <1>2, <1>3, <1>4, <1>5, <1>6

(* With nothing of the content held, the copies under way are of different
   threads. *)
LEMMA UnderWay ==
    ASSUME TypeInv, NEW n \in Node, NEW c, Undated(rows[n], c) = {}
    PROVE  Cardinality(Undated(rows[n], c)) + Cardinality(Undated(posts[n], c))
             + Cardinality(UndatedPulls(n, c))
           <= MaxPosts + Cardinality({l \in Links : l[1] = n})
<1> DEFINE Mine == {l \in Links : l[1] = n}
<1>1. IsFiniteSet(posts[n]) /\ Cardinality(posts[n]) <= MaxPosts
  BY DEF TypeInv, PostsBounded
<1>2. IsFiniteSet(Mine)
  BY ReplicationAssumption, FS_Subset
<1>3. Undated(posts[n], c) \subseteq posts[n] /\ UndatedPulls(n, c) \subseteq Mine
  BY DEF Undated, UndatedPulls
<1>4. Cardinality(Undated(rows[n], c)) = 0
  BY FS_EmptySet
<1>5. /\ Cardinality(Undated(posts[n], c)) <= Cardinality(posts[n])
      /\ Cardinality(UndatedPulls(n, c)) <= Cardinality(Mine)
      /\ IsFiniteSet(Undated(posts[n], c)) /\ IsFiniteSet(UndatedPulls(n, c))
  BY <1>1, <1>2, <1>3, FS_Subset
<1>6. /\ Cardinality(Undated(posts[n], c)) \in Nat /\ Cardinality(posts[n]) \in Nat
      /\ Cardinality(UndatedPulls(n, c)) \in Nat /\ Cardinality(Mine) \in Nat
  BY <1>1, <1>2, <1>5, FS_CardinalityType
<1>7. QED
  BY <1>1, <1>4, <1>5, <1>6, ReplicationAssumption

LEMMA UndatedStep ==
    ASSUME TypeInv, TypeInv', SingleRow, Exported, UndatedBounded, [Next]_vars
    PROVE  UndatedBounded'
<1> SUFFICES ASSUME NEW n \in Node, NEW c \in Content
             PROVE  (/\ Cardinality(Undated(rows[n], c))
                          + Cardinality(Undated(posts[n], c))
                          + Cardinality(UndatedPulls(n, c))
                        <= MaxPosts + Cardinality({l \in Links : l[1] = n}))'
  BY DEF UndatedBounded
<1> DEFINE A == Undated(rows[n], c)
           B == Undated(posts[n], c)
           C == UndatedPulls(n, c)
           A1 == Undated(rows'[n], c)
           B1 == Undated(posts'[n], c)
           C1 == UndatedPulls(n, c)'
           Bound == MaxPosts + Cardinality({l \in Links : l[1] = n})
<1>1. IsFiniteSet(A) /\ IsFiniteSet(B) /\ IsFiniteSet(C)
  <2>1. IsFiniteSet(rows[n]) /\ IsFiniteSet(posts[n]) /\ IsFiniteSet(Links)
    BY ReplicationAssumption DEF TypeInv, RowsFinite, PostsBounded
  <2>2. A \subseteq rows[n] /\ B \subseteq posts[n] /\ C \subseteq Links
    BY DEF Undated, UndatedPulls
  <2>3. QED
    BY <2>1, <2>2, FS_Subset
<1>2. Cardinality(A) + Cardinality(B) + Cardinality(C) <= Bound
  BY DEF UndatedBounded
<1>3. CASE A1 = {}
  <2>1. (Undated(rows[n], c) = {})'
    BY <1>3 DEF Undated
  <2>2. QED
    BY <2>1, UnderWay, PTL
<1>4. CASE Cardinality(A1) + Cardinality(B1) + Cardinality(C1)
             <= Cardinality(A) + Cardinality(B) + Cardinality(C)
  <2>1. IsFiniteSet(A1) /\ IsFiniteSet(B1) /\ IsFiniteSet(C1)
    <3>1. IsFiniteSet(rows'[n]) /\ IsFiniteSet(posts'[n]) /\ IsFiniteSet(Links)
      BY ReplicationAssumption DEF TypeInv, RowsFinite, PostsBounded
    <3>2. A1 \subseteq rows'[n] /\ B1 \subseteq posts'[n] /\ C1 \subseteq Links
      BY DEF Undated, UndatedPulls
    <3>3. QED
      BY <3>1, <3>2, FS_Subset
  <2>2. /\ Cardinality(A) \in Nat /\ Cardinality(B) \in Nat /\ Cardinality(C) \in Nat
        /\ Cardinality(A1) \in Nat /\ Cardinality(B1) \in Nat /\ Cardinality(C1) \in Nat
    BY <1>1, <2>1, FS_CardinalityType
  <2>3. Bound \in Nat
    <3>1. IsFiniteSet({l \in Links : l[1] = n})
      BY ReplicationAssumption, FS_Subset
    <3>2. QED
      BY <3>1, FS_CardinalityType, ReplicationAssumption
  <2> HIDE DEF A, B, C, A1, B1, C1, Bound
  <2>4. Cardinality(A1) + Cardinality(B1) + Cardinality(C1) <= Bound
    BY <1>2, <1>4, <2>2, <2>3
  <2>5. QED
    BY <2>4 DEF A1, B1, C1, Bound, Undated
<1>5. CASE C1 \subseteq C
  <2>1. CASE A1 \subseteq A /\ B1 \subseteq B
    <3> HIDE DEF A, B, C, A1, B1, C1
    <3>1. Cardinality(A1) + Cardinality(B1) + Cardinality(C1)
             <= Cardinality(A) + Cardinality(B) + Cardinality(C)
      BY <1>1, <1>5, <2>1, SumKept
    <3>2. QED
      BY <1>4, <3>1
  <2>2. ASSUME NEW r \in B, A1 \subseteq A \cup {r}, B1 \subseteq B \ {r}
        PROVE  Cardinality(A1) + Cardinality(B1) + Cardinality(C1)
                 <= Cardinality(A) + Cardinality(B) + Cardinality(C)
    <3> HIDE DEF A, B, C, A1, B1, C1
    <3>1. QED
      BY <1>1, <1>5, <2>2, SumMoved
  <2>3. ASSUME NEW r, NEW l \in C, A1 \subseteq A \cup {r}, B1 \subseteq B,
               C1 \subseteq C \ {l}
        PROVE  Cardinality(A1) + Cardinality(B1) + Cardinality(C1)
                 <= Cardinality(A) + Cardinality(B) + Cardinality(C)
    <3> HIDE DEF A, B, C, A1, B1, C1
    <3>1. Cardinality(A1) + Cardinality(C1) + Cardinality(B1)
             <= Cardinality(A) + Cardinality(C) + Cardinality(B)
      BY <1>1, <2>3, SumMoved
    <3>2. IsFiniteSet(A1) /\ IsFiniteSet(B1) /\ IsFiniteSet(C1)
      BY <1>1, <2>3, FS_AddElement, FS_Subset
    <3>3. /\ Cardinality(A) \in Nat /\ Cardinality(B) \in Nat /\ Cardinality(C) \in Nat
          /\ Cardinality(A1) \in Nat /\ Cardinality(B1) \in Nat /\ Cardinality(C1) \in Nat
      BY <1>1, <3>2, FS_CardinalityType
    <3>4. QED
      BY <3>1, <3>3
  <2>4. \/ A1 = {}
        \/ A1 \subseteq A /\ B1 \subseteq B
        \/ \E r \in B : A1 \subseteq A \cup {r} /\ B1 \subseteq B \ {r}
        \/ \E r \in Row, l \in C :
              /\ A1 \subseteq A \cup {r} /\ B1 \subseteq B
              /\ C1 \subseteq C \ {l}
    BY <1>5, CopiesChange
  <2> HIDE DEF A, B, C, A1, B1, C1
  <2>5. QED
    BY <1>3, <1>4, <2>1, <2>2, <2>3, <2>4
<1>6. QED
  BY <1>3, <1>5, PullsPast

(* A node never holds more undated copies of a content than it has threads for
   posts and links to pull over, counting those that are on their way. *)
THEOREM UndatedAtMostThreads == Spec => []UndatedBounded
<1>1. Init => SingleRow /\ Exported /\ UndatedBounded
  <2> SUFFICES ASSUME Init
               PROVE  SingleRow /\ Exported /\ UndatedBounded
    OBVIOUS
  <2>1. SingleRow /\ Exported
    BY DEF Init, SingleRow, Exported, NoPull
  <2>2. TypeInv
    <3>1. TypeOK
      BY ReplicationAssumption DEF Init, TypeOK, NoPull, Pull
    <3>2. RowsFinite /\ PostsBounded
      BY FS_EmptySet, ReplicationAssumption DEF Init, RowsFinite, PostsBounded
    <3>3. QED
      BY <3>1, <3>2 DEF TypeInv
  <2>3. \A n \in Node : \A c \in Content : Undated(rows[n], c) = {}
    BY DEF Init, Undated
  <2>4. QED
    BY <2>1, <2>2, <2>3, UnderWay DEF UndatedBounded
<1>2. /\ TypeInv /\ TypeInv'
      /\ SingleRow /\ Exported /\ UndatedBounded /\ [Next]_vars
      => SingleRow' /\ Exported' /\ UndatedBounded'
  BY SingleRowStep, ExportedStep, UndatedStep
<1>3. QED
  BY <1>1, <1>2, TypedAndFinite, PTL DEF Spec

-----------------------------------------------------------------------------
(* A mirror is not refused: the invariant says how what a mirror holds and what
   it has listed relate to what its peer has. *)

(* r has no token, and its content is that of the later capture o. *)
UndatedBefore(r, o) ==
    /\ r.kind # "rfc3161"
    /\ contentOf[r.observation] = contentOf[o]
    /\ capturedAt[r.observation] < capturedAt[o]

OnlySigned ==
    \A n \in Node : \A r \in rows[n] \cup posts[n] : r.observation \in Signed

OneObjectPerUrl ==
    \A n \in Node : \A o, p \in Held(n) :
       urlOf[objectOf[o]] = urlOf[objectOf[p]] => objectOf[o] = objectOf[p]

(* The mirror's rows are the peer's rows, evidence included. *)
CopiesOfPeer ==
    \A l \in Links : OnlyPeer(l) => rows[l[1]] \subseteq rows[l[2]]

(* What has passed the check at a mirror has not been stored there since. *)
PassedIsNew ==
    \A l \in Links : OnlyPeer(l) /\ pulls[l].at = "save" =>
       pulls[l].ids[pulls[l].done + 1] \notin Held(l[1])

(* With a capture, the mirror has what had to come before it. *)
UndatedFirst ==
    \A l \in Links : OnlyPeer(l) /\ l[2] \notin raced =>
       \A o \in Held(l[1]), r \in rows[l[2]] :
          UndatedBefore(r, o) => r.observation \in Held(l[1])

(* The list of a pull, old as it may be, has what the peer holds ... *)
ListedHeld ==
    \A l \in Links : OnlyPeer(l) =>
       \A j \in 1 .. Len(pulls[l].ids) : pulls[l].ids[j] \in Held(l[2])

(* ... and before each entry what has to come before it. *)
ListedFirst ==
    \A l \in Links : OnlyPeer(l) /\ l[2] \notin raced =>
       \A j \in 1 .. Len(pulls[l].ids) :
          \A r \in rows[l[2]] : UndatedBefore(r, pulls[l].ids[j]) =>
             \E i \in 1 .. (j - 1) : pulls[l].ids[i] = r.observation

MirrorInv ==
    /\ TypeInv
    /\ PulledIsHeld
    /\ OnlySigned
    /\ OneObjectPerUrl
    /\ CopiesOfPeer
    /\ PassedIsNew
    /\ UndatedFirst
    /\ ListedHeld
    /\ ListedFirst

(* A row without a token is new to a node in which nothing raced only if the
   node holds nothing of the same content. *)
LEMMA NewUndated ==
    ASSUME TypeInv, [Next]_vars, NEW n \in Node, n \notin raced',
           NEW r \in rows'[n], r \notin rows[n], NEW o \in Held(n)
    PROVE  ~ UndatedBefore(r, o)
<1>1. r \in Row /\ r.observation \notin Held(n) /\ ~ Repeats(n, r)
  BY NewRow
<1>2. o # r.observation
  BY <1>1
<1>3. QED
  BY <1>1, <1>2 DEF Repeats, UndatedBefore

(* A mirror gets rows in no other way than by its pull: it takes no posts, and
   what a post added elsewhere is not its own. *)
LEMMA MirrorPulls ==
    ASSUME TypeInv, [Next]_vars, NEW l \in Links, OnlyPeer(l), posts[l[1]] = {},
           NEW r \in rows'[l[1]], r \notin rows[l[1]]
    PROVE  SaveNext(l) /\ r \in Exports(l)
<1>n. l[1] \in Node /\ l[2] \in Node
  BY ReplicationAssumption
<1>s. ASSUME NEW n \in Node, NEW t \in Row, Save(n, t)
      PROVE  n = l[1] /\ t = r
  BY <1>n, <1>s DEF Save, Saved, TypeInv, TypeOK
<1>1. rows' # rows
  OBVIOUS
<1>2. CASE \E n \in Node, t \in Row : SavePost(n, t)
  BY <1>2, <1>s DEF SavePost
<1>3. CASE \E k \in Links : SaveNext(k)
  <2>1. PICK k \in Links : SaveNext(k)
    BY <1>3
  <2>2. PICK t \in Exports(k) : Save(k[1], t)
    BY <2>1 DEF SaveNext
  <2>3. k[1] \in Node /\ k[2] \in Node /\ t \in Row
    BY ReplicationAssumption DEF Exports, TypeInv, TypeOK
  <2>4. k[1] = l[1] /\ t = r
    BY <1>s, <2>2, <2>3
  <2>5. k = l
    BY <2>4 DEF OnlyPeer
  <2>6. QED
    BY <2>1, <2>2, <2>4, <2>5
<1>4. QED
  BY <1>1, <1>2, <1>3, RowsChange

(* The list of a mirror's pull stays, is dropped, or is asked for anew. *)
LEMMA MirrorLists ==
    ASSUME TypeInv, [Next]_vars, NEW l \in Links, OnlyPeer(l)
    PROVE  \/ pulls'[l].ids = pulls[l].ids
           \/ pulls'[l].ids = <<>>
           \/ UNCHANGED rows /\ pulls'[l].ids \in Listings(l[2])
<1>0. pulls \in [Links -> Pull]
  BY DEF TypeInv, TypeOK
<1>1. CASE StartFull(l)
  BY <1>0, <1>1 DEF StartFull, PullOf
<1>2. ASSUME NEW o \in Observation, StartChosen(l, o)
      PROVE  FALSE
  BY <1>2 DEF StartChosen, OnlyPeer
<1>3. CASE PassOver(l)
  BY <1>0, <1>3 DEF PassOver, Advanced, Pull
<1>4. CASE CheckNext(l)
  BY <1>0, <1>4 DEF CheckNext, Pull
<1>5. CASE SaveNext(l)
  BY <1>0, <1>5 DEF SaveNext, Advanced, Pull
<1>6. QED
  BY <1>1, <1>2, <1>3, <1>4, <1>5, PullsChange DEF NoPull

(* Mirrors take no posts. *)
NoPosts == \A n \in Mirror : posts[n] = {}

LEMMA NoPostsStep ==
    ASSUME TypeInv, NoPosts, [Next]_vars
    PROVE  NoPosts'
<1>1. ASSUME NEW n \in Node, NEW r \in Row, CheckPost(n, r)
      PROVE  NoPosts'
  BY <1>1 DEF CheckPost, NoPosts, TypeInv, TypeOK
<1>2. ASSUME NEW n \in Node, NEW r \in Row, SavePost(n, r)
      PROVE  NoPosts'
  BY <1>2 DEF SavePost, NoPosts, TypeInv, TypeOK
<1>3. ASSUME NEW n \in Node, Restart(n)
      PROVE  NoPosts'
  BY <1>3 DEF Restart, NoPosts, TypeInv, TypeOK
<1>4. UNCHANGED posts => NoPosts'
  BY DEF NoPosts
<1>5. QED
  BY <1>1, <1>2, <1>3, <1>4
  DEF Next, PullStep, vars, StartFull, StartChosen, PassOver, CheckNext,
      SaveNext, StopAtNext, Answer, LoseConnection

LEMMA NoPostsAtMirror ==
    ASSUME NoPosts, NEW l \in Links, OnlyPeer(l)
    PROVE  posts[l[1]] = {}
BY DEF NoPosts, OnlyPeer

LEMMA SignedStep ==
    ASSUME MirrorInv, [Next]_vars
    PROVE  OnlySigned'
<1>0. TypeInv
  BY DEF MirrorInv
<1>1. ASSUME NEW n \in Node, NEW r \in rows'[n]
      PROVE  r.observation \in Signed
  <2>1. CASE r \in rows[n]
    BY <2>1 DEF MirrorInv, OnlySigned
  <2>2. CASE r \notin rows[n]
    BY <1>0, <2>2, NewRow DEF MirrorInv, OnlySigned
  <2>3. QED
    BY <2>1, <2>2
<1>2. ASSUME NEW n \in Node, NEW r \in posts'[n]
      PROVE  r.observation \in Signed
  <2>1. CASE r \in posts[n]
    BY <2>1 DEF MirrorInv, OnlySigned
  <2>2. ASSUME NEW m \in Node, NEW t \in Row, CheckPost(m, t), r \notin posts[n]
        PROVE  r.observation \in Signed
    BY <1>0, <2>2 DEF CheckPost, FailsCheck, TypeInv, TypeOK
  <2>3. ASSUME NEW m \in Node, NEW t \in Row, SavePost(m, t)
        PROVE  r \in posts[n]
    BY <1>0, <2>3 DEF SavePost, TypeInv, TypeOK
  <2>4. ASSUME NEW m \in Node, Restart(m)
        PROVE  r \in posts[n]
    BY <1>0, <2>4 DEF Restart, TypeInv, TypeOK
  <2>5. QED
    BY <2>1, <2>2, <2>3, <2>4
    DEF Next, PullStep, vars, StartFull, StartChosen, PassOver, CheckNext,
        SaveNext, StopAtNext, Answer, LoseConnection
<1>3. QED
  BY <1>1, <1>2 DEF OnlySigned

LEMMA UrlStep ==
    ASSUME MirrorInv, [Next]_vars
    PROVE  OneObjectPerUrl'
<1> SUFFICES ASSUME NEW n \in Node, NEW r \in rows'[n], NEW s \in rows'[n],
                    urlOf[objectOf[r.observation]] = urlOf[objectOf[s.observation]]
             PROVE  objectOf[r.observation] = objectOf[s.observation]
  BY DEF OneObjectPerUrl, Held
<1>0. TypeInv
  BY DEF MirrorInv
<1>1. CASE r \in rows[n] /\ s \in rows[n]
  BY <1>1 DEF MirrorInv, OneObjectPerUrl, Held
<1>2. CASE r \notin rows[n]
  <2>1. /\ ~ UrlTaken(n, r)
        /\ rows' = [rows EXCEPT ![n] = @ \cup {r}]
    BY <1>0, <1>2, NewRow
  <2>2. s = r \/ s \in rows[n]
    BY <1>0, <2>1 DEF TypeInv, TypeOK
  <2>3. QED
    BY <2>1, <2>2 DEF UrlTaken, Held
<1>3. CASE s \notin rows[n]
  <2>1. /\ ~ UrlTaken(n, s)
        /\ rows' = [rows EXCEPT ![n] = @ \cup {s}]
    BY <1>0, <1>3, NewRow
  <2>2. r = s \/ r \in rows[n]
    BY <1>0, <2>1 DEF TypeInv, TypeOK
  <2>3. QED
    BY <2>1, <2>2 DEF UrlTaken, Held
<1>4. QED
  BY <1>1, <1>2, <1>3

LEMMA CopiesStep ==
    ASSUME MirrorInv, NoPosts, [Next]_vars
    PROVE  CopiesOfPeer'
<1>1. \A l \in Links : OnlyPeer(l) => rows'[l[1]] \subseteq rows'[l[2]]
  <2> SUFFICES ASSUME NEW l \in Links, OnlyPeer(l), NEW r \in rows'[l[1]]
               PROVE  r \in rows'[l[2]]
    OBVIOUS
  <2>1. r \in rows[l[2]]
    <3>1. CASE r \in rows[l[1]]
      BY <3>1 DEF MirrorInv, CopiesOfPeer
    <3>2. CASE r \notin rows[l[1]]
      BY <3>2, MirrorPulls, NoPostsAtMirror DEF MirrorInv, Exports
    <3>3. QED
      BY <3>1, <3>2
  <2>2. QED
    BY <2>1, RowsAreKept, ReplicationAssumption DEF MirrorInv
<1>2. QED
  BY <1>1 DEF CopiesOfPeer, OnlyPeer

(* The only save at a mirror is the one that ends what passed the check. *)
LEMMA PassedIsNewStep ==
    ASSUME MirrorInv, NoPosts, [Next]_vars
    PROVE  PassedIsNew'
<1> SUFFICES ASSUME NEW l \in Links, OnlyPeer(l), pulls'[l].at = "save"
             PROVE  pulls'[l].ids[pulls'[l].done + 1] \notin Held(l[1])'
  BY DEF PassedIsNew, OnlyPeer
<1>0. TypeInv /\ l[1] \in Node /\ l[2] \in Node
  BY ReplicationAssumption DEF MirrorInv
<1>1. CASE CheckNext(l)
  <2>1. PICK r \in Exports(l) : r.observation \notin Held(l[1])
    BY <1>1 DEF CheckNext
  <2>2. /\ pulls'[l].ids = pulls[l].ids
        /\ pulls'[l].done = pulls[l].done
        /\ UNCHANGED rows
    BY <1>0, <1>1 DEF CheckNext, TypeInv, TypeOK, Pull
  <2>3. r.observation = pulls[l].ids[pulls[l].done + 1]
    BY DEF Exports
  <2>4. QED
    BY <2>1, <2>2, <2>3 DEF Held
<1>2. CASE pulls'[l] = pulls[l]
  <2>1. pulls[l].ids[pulls[l].done + 1] \notin Held(l[1])
    BY <1>2 DEF MirrorInv, PassedIsNew
  <2>2. ~ SaveNext(l)
    BY <1>0, <1>2 DEF SaveNext, Advanced, TypeInv, TypeOK, Pull
  <2>3. \A r \in rows'[l[1]] : r \in rows[l[1]]
    BY <1>0, <2>2, MirrorPulls, NoPostsAtMirror
  <2>4. QED
    BY <1>2, <2>1, <2>3 DEF Held
<1>3. CheckNext(l) \/ pulls'[l] = pulls[l]
  <2>1. ASSUME PassOver(l) \/ SaveNext(l)
        PROVE  pulls'[l].at = "check"
    BY <1>0, <2>1 DEF PassOver, SaveNext, Advanced, TypeInv, TypeOK, Pull
  <2>2. QED
    BY <1>0, <2>1, PullsChange
    DEF StartFull, StartChosen, NoPull, PullOf, TypeInv, TypeOK
<1>4. QED
  BY <1>1, <1>2, <1>3

(* A capture that reaches the mirror finds there what its peer has to put
   before it: it was earlier in the list, and everything earlier in the list is
   held. *)
LEMMA UndatedFirstStep ==
    ASSUME MirrorInv, NoPosts, [Next]_vars
    PROVE  UndatedFirst'
<1> SUFFICES ASSUME NEW l \in Links, OnlyPeer(l), l[2] \notin raced',
                    NEW s \in rows'[l[1]], NEW r \in rows'[l[2]],
                    UndatedBefore(r, s.observation)
             PROVE  r.observation \in Held(l[1])'
  BY DEF UndatedFirst, OnlyPeer, Held, UndatedBefore
<1>0. TypeInv /\ l[1] \in Node /\ l[2] \in Node
  BY ReplicationAssumption DEF MirrorInv
<1>u. l[2] \notin raced
  BY <1>0, RowsAreKept
<1>1. s \in rows[l[2]]
  BY <1>0, MirrorPulls, NoPostsAtMirror DEF MirrorInv, CopiesOfPeer, Exports
<1>2. r \in rows[l[2]]
  BY <1>0, <1>1, NewUndated DEF Held
<1>3. CASE s \in rows[l[1]]
  BY <1>0, <1>u, <1>2, <1>3, HeldIsKept DEF MirrorInv, UndatedFirst, Held
<1>4. CASE s \notin rows[l[1]]
  <2> DEFINE j == pulls[l].done + 1
  <2>1. SaveNext(l) /\ s.observation = pulls[l].ids[j]
    BY <1>0, <1>4, MirrorPulls, NoPostsAtMirror DEF Exports
  <2>2. pulls[l].done \in Nat /\ j \in 1 .. Len(pulls[l].ids)
    <3>1. pulls[l].ids \in Seq(Observation) /\ pulls[l].done \in Nat
      BY <1>0 DEF TypeInv, TypeOK, Pull
    <3>2. Len(pulls[l].ids) \in Nat
      BY <3>1, LenProperties
    <3>3. pulls[l].done < Len(pulls[l].ids)
      BY <1>0, <2>1 DEF SaveNext, TypeInv, TypeOK
    <3>4. QED
      BY <3>1, <3>2, <3>3
  <2>3. PICK i \in 1 .. (j - 1) : pulls[l].ids[i] = r.observation
    BY <1>u, <1>2, <2>1, <2>2 DEF MirrorInv, ListedFirst
  <2>4. r.observation \in Held(l[1])
    BY <2>2, <2>3 DEF MirrorInv, PulledIsHeld
  <2>5. QED
    BY <1>0, <2>4, HeldIsKept
<1>5. QED
  BY <1>3, <1>4

(* In a listing by the time of capture, what has to come before an entry does. *)
LEMMA ListingOrder ==
    ASSUME TypeInv, NEW n \in Node, NEW s \in Listings(n), NEW j \in 1 .. Len(s)
    PROVE  /\ s[j] \in Held(n)
           /\ \A r \in rows[n] : UndatedBefore(r, s[j]) =>
                \E i \in 1 .. (j - 1) : s[i] = r.observation
<1>1. s \in Seq(Observation)
  BY ListingType
<1>2. DOMAIN s = 1 .. Len(s) /\ Len(s) \in Nat
  BY <1>1, LenProperties
<1>3. s \in [DOMAIN s -> Held(n)]
  BY DEF Listings
<1>4. ASSUME NEW r \in rows[n], UndatedBefore(r, s[j])
      PROVE  \E i \in 1 .. (j - 1) : s[i] = r.observation
  <2>1. PICK i \in DOMAIN s : s[i] = r.observation
    BY DEF Listings, Held
  <2>2. s[i] \in Observation /\ s[j] \in Observation
    BY <1>1, <1>2, <2>1, ElementOfSeq
  <2>3. capturedAt[s[i]] \in Int /\ capturedAt[s[j]] \in Int
    BY <2>2, ObservationAssumption
  <2>4. capturedAt[s[i]] < capturedAt[s[j]]
    BY <1>4, <2>1 DEF UndatedBefore
  <2>5. i # j
    BY <2>3, <2>4
  <2>6. ~ (j < i)
    <3>1. j < i => capturedAt[s[j]] <= capturedAt[s[i]]
      BY <1>2 DEF Listings
    <3>2. QED
      BY <2>3, <2>4, <3>1
  <2>7. i \in 1 .. (j - 1)
    BY <1>2, <2>5, <2>6
  <2>8. QED
    BY <2>1, <2>7
<1>5. QED
  BY <1>2, <1>3, <1>4

LEMMA ListedHeldStep ==
    ASSUME MirrorInv, [Next]_vars
    PROVE  ListedHeld'
<1> SUFFICES ASSUME NEW l \in Links, OnlyPeer(l),
                    NEW j \in 1 .. Len(pulls'[l].ids)
             PROVE  pulls'[l].ids[j] \in Held(l[2])'
  BY DEF ListedHeld, OnlyPeer
<1>0. TypeInv /\ l[1] \in Node /\ l[2] \in Node
  BY ReplicationAssumption DEF MirrorInv
<1>1. CASE pulls'[l].ids = pulls[l].ids
  BY <1>0, <1>1, HeldIsKept DEF MirrorInv, ListedHeld
<1>2. CASE pulls'[l].ids = <<>>
  BY <1>2
<1>3. CASE UNCHANGED rows /\ pulls'[l].ids \in Listings(l[2])
  BY <1>0, <1>3, ListingOrder DEF Held
<1>4. QED
  BY <1>0, <1>1, <1>2, <1>3, MirrorLists

LEMMA ListedFirstStep ==
    ASSUME MirrorInv, [Next]_vars
    PROVE  ListedFirst'
<1> SUFFICES ASSUME NEW l \in Links, OnlyPeer(l), l[2] \notin raced',
                    NEW j \in 1 .. Len(pulls'[l].ids),
                    NEW r \in rows'[l[2]], UndatedBefore(r, pulls'[l].ids[j])
             PROVE  \E i \in 1 .. (j - 1) : pulls'[l].ids[i] = r.observation
  BY DEF ListedFirst, OnlyPeer, UndatedBefore
<1>0. TypeInv /\ l[1] \in Node /\ l[2] \in Node
  BY ReplicationAssumption DEF MirrorInv
<1>u. l[2] \notin raced
  BY <1>0, RowsAreKept
<1>1. CASE pulls'[l].ids = pulls[l].ids
  <2>1. pulls[l].ids[j] \in Held(l[2])
    BY <1>1 DEF MirrorInv, ListedHeld
  <2>2. r \in rows[l[2]]
    BY <1>0, <1>1, <2>1, NewUndated
  <2>3. QED
    BY <1>u, <1>1, <2>2 DEF MirrorInv, ListedFirst
<1>2. CASE pulls'[l].ids = <<>>
  BY <1>2
<1>3. CASE UNCHANGED rows /\ pulls'[l].ids \in Listings(l[2])
  BY <1>0, <1>3, ListingOrder DEF Held
<1>4. QED
  BY <1>0, <1>1, <1>2, <1>3, MirrorLists

(* What the invariant says is enough: the next identifier of the list has a row
   at the peer, and nothing that the mirror holds speaks against it. *)
LEMMA NextIsTaken ==
    ASSUME MirrorInv
    PROVE  MirrorIsNotRefused
<1> SUFFICES ASSUME NEW l \in Links, OnlyPeer(l), Ordered(l[2]), More(l)
             PROVE  \E r \in Exports(l) : ~ Refused(l, r)
  BY DEF MirrorIsNotRefused
<1> DEFINE j == pulls[l].done + 1
<1>0. l[1] \in Node /\ l[2] \in Node /\ l[2] \notin raced
  BY ReplicationAssumption DEF Ordered
<1>1. j \in 1 .. Len(pulls[l].ids)
  <2>1. pulls[l].ids \in Seq(Observation) /\ pulls[l].done \in Nat
    BY DEF MirrorInv, TypeInv, TypeOK, Pull
  <2>2. Len(pulls[l].ids) \in Nat
    BY <2>1, LenProperties
  <2>3. QED
    BY <2>1, <2>2 DEF More
<1>2. PICK r \in rows[l[2]] : r.observation = pulls[l].ids[j]
  BY <1>1 DEF MirrorInv, ListedHeld, Held
<1>3. r \in Exports(l)
  BY <1>2 DEF Exports
<1>4. r.observation \in Signed
  BY <1>0 DEF MirrorInv, OnlySigned
<1>5. ~ UrlTaken(l[1], r)
  <2>1. Held(l[1]) \subseteq Held(l[2]) /\ r.observation \in Held(l[2])
    BY DEF MirrorInv, CopiesOfPeer, Held
  <2>2. QED
    BY <1>0, <2>1 DEF MirrorInv, OneObjectPerUrl, UrlTaken
<1>6. ASSUME r.observation \notin Held(l[1])
      PROVE  ~ Repeats(l[1], r)
  <2> SUFFICES ASSUME r.kind # "rfc3161", NEW s \in rows[l[1]],
                      s.observation # r.observation,
                      contentOf[s.observation] = contentOf[r.observation]
               PROVE  FALSE
    BY DEF Repeats, Held
  <2>1. s \in rows[l[2]] /\ s \in Row /\ r \in Row
    BY <1>0 DEF MirrorInv, CopiesOfPeer, TypeInv, TypeOK
  <2>2. /\ capturedAt[s.observation] \in Int
        /\ capturedAt[r.observation] \in Int
    BY <2>1, ObservationAssumption DEF Row
  <2>3. ~ (capturedAt[s.observation] <= capturedAt[r.observation])
    BY <2>1 DEF Ordered
  <2>4. UndatedBefore(r, s.observation)
    BY <2>2, <2>3 DEF UndatedBefore
  <2>5. s.observation \in Held(l[1])
    BY DEF Held
  <2>6. r.observation \in Held(l[1])
    BY <1>0, <2>4, <2>5 DEF MirrorInv, UndatedFirst
  <2>7. QED
    BY <1>6, <2>6
<1>7. pulls[l].at = "save" => r.observation \notin Held(l[1])
  BY <1>2 DEF MirrorInv, PassedIsNew
<1>8. ~ Refused(l, r)
  BY <1>4, <1>5, <1>6, <1>7 DEF Refused
<1>9. QED
  BY <1>3, <1>8

(* A mirror of one peer is refused nothing while the peer's list is ordered:
   the pull stops for lost connections and restarts only. *)
THEOREM MirrorsAreNotRefused == Spec => []MirrorIsNotRefused
<1> DEFINE Parts == /\ OnlySigned /\ OneObjectPerUrl /\ CopiesOfPeer
                    /\ PassedIsNew /\ UndatedFirst /\ ListedHeld /\ ListedFirst
                    /\ NoPosts
<1>1. Init => Parts
  BY ReplicationAssumption
  DEF Init, OnlySigned, OneObjectPerUrl, CopiesOfPeer, PassedIsNew, UndatedFirst,
      ListedHeld, ListedFirst, NoPosts, Held, NoPull
<1>2. TypeInv /\ PulledIsHeld /\ Parts => MirrorInv /\ NoPosts
  BY DEF MirrorInv
<1>3. MirrorInv /\ NoPosts /\ [Next]_vars => Parts'
  <2> SUFFICES ASSUME MirrorInv, NoPosts, [Next]_vars
               PROVE  Parts'
    OBVIOUS
  <2>1. TypeInv
    BY DEF MirrorInv
  <2>2. QED
    BY <2>1, SignedStep, UrlStep, CopiesStep, PassedIsNewStep, UndatedFirstStep,
       ListedHeldStep, ListedFirstStep, NoPostsStep
<1>4. MirrorInv => MirrorIsNotRefused
  BY NextIsTaken
<1> HIDE DEF Parts
<1>5. QED
  BY <1>1, <1>2, <1>3, <1>4, TypedAndFinite, PullsReportTheTruth, PTL DEF Spec
=============================================================================
