# TLA+ models of the OIN observer node

OIN keeps signed *Observations* of public web resources: which Observer saw
which bytes, and when. A node verifies an Observation, archives its bytes, logs
it in a Merkle transparency log, stores it in a database, and relates it to
every other Observation of the same Object instead of choosing between them.

These modules model the parts of the program whose correctness depends on order:
threads of the web server that interleave in unlocked reads and writes of files
and tables, steps that fail half way, restarts, operators that hand each other
files, and the numeric edges of the Merkle tree. TLC checks them on small
instances. TLAPS proves the central statements for every value of the constants.

Paths below are relative to the repository (`src/` there is this repository's
root); module names are files beside this one.

## 1. The system

A node is one Python process (`oin/api/app.py`, FastAPI). Every handler is a
plain `def`, so Starlette runs handlers in a pool of threads, without a lock
anywhere. The threads share three stores and some process memory:

| store | kept where | written by |
|---|---|---|
| artifact files | `storage/backends.py`, one file per archive hash | `FileStorage.put` (truncate, then write) |
| transparency log | `transparency/merkle.py`, `entries.jsonl` | `MerkleLog.append` (read all lines, later append one) |
| database | `api/repository.py`, tables with unique keys | one transaction per repository call |
| audit log | `discovery/audit.py`, `bootstrap-audit.jsonl` | `record_bootstrap_load` (read, later append) |
| replay cache, rate-limit table | dictionaries in `api/app.py` | their handlers; lost on a restart |
| key files | `identity/keys.py`, `merkle.py` | the first request that needs one; the log key at start-up |

Beside the node, the network demo (`network-demo/tools/operator.py`) is a program of
commands over one directory for each operator. Operators share no store; they write
and read each other's export files.

### Inventory

For each component: its state, its operations, who calls it, what makes it hard,
what makes it correct, and the module.

**Ingest path** (`app.py:129`). No state of its own; reads and writes the first
three stores in the order: database (known? repeated content?), archive file,
log append, log proof, database save, database conflicts. Called by the three
capture handlers, `POST /v1/observations` and both replication handlers. Hard:
every pair of those steps can be interleaved with another thread's, and there is
no transaction across the stores. Correct when: what the database says is backed
by the other two stores, nothing is ever lost, an answered Observation is related
to its siblings. *Modelled:* `IngestNode`.

**Relational store** (`repository.py`). Tables for Objects, Observers,
Observations, signatures, timestamps, storage references, log entries, conflicts,
takedowns, replicas, independence profiles. Hard: rows are read without locks and
unique keys are checked at the commit, which rolls back the whole batch. *Modelled
in part:* the tables of the ingest path in `IngestNode`, takedowns in `Takedown`.
Left: `register_observer` (`POST /v1/observers`).

**Transparency log** (`merkle.py`). A file of lines and a tree over it; append,
checkpoint, proof. Hard: the index of a line is taken before the line is written, and a
line cut short makes the whole file unreadable. Correct when: every saved proof leads from its own leaf to the signed root.
*Modelled:* file in `IngestNode`, tree in `MerkleTree`.

**Merkle verifiers** (`merkle.py:53`, `verifier_node/index.js:25`). Two
implementations of one loop. Hard: trees whose size is no power of two, the last
leaf, a tree of one leaf. Correct when: they accept the proofs of the log and only
those, and agree. *Modelled:* `MerkleVerifiers`.

**Conflict classification** (`repository.py:255`, `conflict/service.py`). Pure
rules: identical content, divergence within 300 seconds, temporal variation; a
candidate for a conflict needs two Observers. *Modelled:* `Observations`.

**Artifact storage** (`backends.py`). *Modelled:* `FileStorage.put` in
`IngestNode`. `S3Storage` replaces an object in one request, which cannot tear.

**Timestamp evidence** (`rfc3161.py`). *Abstracted* to whether the evidence is a
token that verifies for the manifest. The request to the authority is I/O; when it
fails the handler keeps the local declaration, which is one of the two inputs.

**Takedown intake** (`app.py:319-336, 598-609`). A replay cache in memory and a
table keyed by `request_id`. Hard: cache, row and insert are looked at in three
steps; the cache forgets after 300 seconds and on a restart; two requests may
carry one `request_id`; two threads may delete the same expired key. Correct when:
a `request_id` is received at most once, and refused only when it is held.
*Modelled:* `Takedown`.

**Discovery audit log** (`audit.py`, `app.py:91-121`). A chain of signed events,
one for each new revision of the bootstrap file, at most 512. Hard: read and
append are apart; once the chain is broken, or a line cut short, every later request
answers 503. *Modelled:* `DiscoveryAudit`.

**Discovery registry and descriptors** (`bootstrap.py`, `descriptor.py`,
`service.py`). A dictionary by `operator_id`, rebuilt for each request from the node's
own descriptor and the bundle; the last descriptor imported wins, whatever its issue
time; expired ones are dropped when the bundle is read and again when the answer is
made. Hard: time passes and requests overtake each other between the two. Correct
when: with one bundle in place peers only leave the answers, and a bundle in order of
issue shows the newest. *Modelled:* `BootstrapRegistry`, composed in `DiscoveryAudit`.

**Replication pull** (`app.py:568`). Fetches the identifiers of a peer and ingests
each export in the order of capture times; one missing or refused Observation ends
the request, with what came before it stored. Hard: whether ingest accepts an
Observation depends on what the node holds already, so the order of the list
matters; the check of an Observation and its save are apart, so pulls and posts pass it
together; connections are lost half way. Correct when: a pull reports only what is
stored, what got past the repeat check is bounded by the requests that overlap, and
pulls that are repeated bring everything. *Modelled:* `Replication`.

**Node identity** (`app.py:75`, `keys.py`). The first request that needs the key
creates it, if no file is there. Hard: two first requests, and a stop between creating
and filling the file. Correct when: once a whole key is there it stays, and no more
keys sign than threads could create. *Modelled:* `NodeCapture`. The log key
(`merkle.py:90`) is made at start-up by one thread and left out.

**Capture** (`http_capture.py`, `text_capture.py`, the three handlers in `app.py`).
Fetches a page hop by hop with a check before each, or takes a text or file from the
request; signs, asks a time-stamp authority, ingests. Hard: a request is served while
others create the key. Correct when: redirects end, and what is stored is signed with
the key of the node. *Modelled:* `NodeCapture`. Left: which URLs are refused, the
resolution of names (`validate_capture_url` resolves a host at `http_capture.py:145`
and the client resolves it again when it connects at `:211`; nothing is said here about
where the connection leads), the bytes of WARC and WACZ.

**Rate limit and lockdown middleware** (`app.py:245-289`). A sliding window for
each address, in memory, on the event loop. Correct when: no window has more requests
of one address than the limit. *Modelled:* `PublicGate`, composed in `NodeCapture`.

**Offline verifier** (`verifier/offline.py`). The checks of `GET /v1/verify` and more,
on a bundle without a node. `evidence.json` and the proof of the log are optional to it,
and of the evidence it compares the imprint only. Correct when: it agrees with the node,
and what it calls VALID is bound to the capture. *Modelled:* `BundleVerifiers`, composed in `NodeCapture` and `OperatorDemo`.

**Network demo operator** (`network-demo/tools/operator.py`). A directory per operator:
keys, identity, descriptor, evidence, manifests, receipts, exports. Commands: `init`
(with `--force`, a rotation of keys), `capture`, `export`, `import`, `recover`,
`availability`, `history`. Hard: every command is a list of file operations that may
stop anywhere; `import` removes what it holds before it rewrites it and opens the
export twice; half a bundle can be exported and accepted; `history` walks all
directories while they change. Correct when: what a receipt says was accepted is kept,
statement and archive are those of the capture, evidence is lost only where a command
was cut off, exports are bound to one key, a query finds what was there. *Modelled:* `OperatorDemo`.

**Object identity and canonical URL** (`protocol/core.py`). *In part:* that one
canonical URL can belong to several Objects, and that texts and files get identifiers
that are no hash of their URL. The string rules are not modelled.

**Not modelled:** the command line `cli.py` (arguments around functions that are
modelled where they keep state), request schemas (field validation, no state),
`POST /v1/observers`, `operator_metadata` and independence profiles (rows that are
added without a decision that depends on others), the research scripts under `docs/`
(not used by the program).

## 2. The modules

```
Observations            constants and pure rules over Observations
  |-- ObservationStore  what a node promises: accept, answer (abstract)
  '-- IngestNode        threads, files, tables, failures, restarts
        |   Store == INSTANCE ObservationStore   (refinement)
        |-- MCIngestNode         instances for TLC
        '-- IngestNode_proofs    types, conflicts, the refinement
              '-- IngestStores_proofs   how the three stores agree
MerkleTree              root and audit paths
  '-- MerkleVerifiers   the Python and the Node.js loop
        |-- MCMerkleVerifiers
        '-- MerkleVerifiers_proofs
TakedownIntake          what a node promises about takedowns (abstract)
Takedown                replay cache and table
  |   Intake == INSTANCE TakedownIntake   (refinement)
  |-- MCTakedown
  '-- Takedown_proofs
Replication             nodes, their pulls and posts, ingest as check and save
  |-- MCReplication       (also EXTENDS Observations)
  '-- Replication_proofs
BootstrapRegistry       descriptors, their replacement and expiry
  '-- DiscoveryAudit    the event chain, and the peers that are answered
        |-- MCDiscoveryAudit
        '-- DiscoveryAudit_proofs
BundleVerifiers         the offline verifier and the node's
PublicGate              the sliding window
  '-- NodeCapture       from the gate to the stored bundle (EXTENDS both)
        |-- MCNodeCapture
        '-- NodeCapture_proofs
BundleVerifiers
  '-- OperatorDemo      directories, commands, export files, queries
        |-- MCOperatorDemo
        '-- OperatorDemo_proofs
```

### Observations and IngestNode

An Observation stands for its whole manifest: `observation_id` is a hash over it,
so every field is a function of it (`objectOf`, `contentOf`, `capturedAt`...).
Hashes are injective. A request (`Envelope`) is an Observation, the kind of
evidence that comes with it, and whether the archive carries the bytes the
manifest commits to (`bound`).

Each `Worker` is a thread. `pc[w]` is the next access to a shared store:

| step | code | action |
|---|---|---|
| `idle` | `app.py:136-144` | `AnswerAtOnce` (422 or `already_present`), `Receive` |
| `priors` | `app.py:145-164` | `RequireTimestamp` (422), `PassPriors` |
| `open_archive`, `write_archive` | `backends.py:30-34` | `OpenArchive` truncates, `WriteArchive` fills |
| `read_log`, `write_log` | `merkle.py:124-137` | `ReadLog` counts lines, `WriteLog` appends |
| `prove` | `merkle.py:139-150` | `Prove` takes the first line of the Observation |
| `read_log`, `prove` | `merkle.py:102-105` | `UnreadableLog`: a line was cut short, 500 |
| `save`, `find` | `repository.py:177-191` | `FindParties`, `FindObservation` read rows |
| `commit` | `repository.py:192-213` | `CommitSave`, `SkipSave`, or `RollBackSave` on a unique key |
| `siblings` | `repository.py:255-256` | `ReadSiblings` in one session |
| `pairs`, `record` | `repository.py:258-274` | `ReadPairs`, then `RecordConflicts` or `RollBackConflicts` |

`Fail` lets any step raise, `Restart` kills the process between any two steps.
Both keep files and tables and clear the locals, and either may leave a part of the line
that was being written (`LogMayTear`): `logFile` is then `"torn"`, for good. What a thread
appends behind that part is a line of the file, and so counted in `entries`, though
nobody can read it any more. A line cut just before its newline, which is readable until
the next one is appended to it, is not modelled. The row of `conflicts` is keyed
by the unordered pair, because the code sorts the two identifiers.

`FindParties` reads the Object and the Observer in one step: Objects and Observers
are only ever added by a commit that adds the Observation with them, and what is
read of each only decides which unique key the commit can run into.

`created` is history: the Observations some answer called "created".

### ObservationStore

The promise without threads: `Accept(o)` stores a signed Observation for good,
`Answer(o)` adds correct relations and answers once `o` is related to every
Observation of its Object answered before. `IngestNode` implements it with
`accepted <- stored, links <- conflicts, answered <- created`.

### MerkleTree and MerkleVerifiers

Hashes are the terms that were hashed. `root` and `inclusionPath` are the
recursions of `merkle.py` as recursive functions; `highBit` is what `_split` computes
with `bit_length`, and `inclusionPath[entries]` is the function from leaf indices to
paths. In `MerkleVerifiers` the
checkpoint is signed, so its size and root are a log's; the index, entry and path
come from whoever presents the proof. They range over every index up to four times the
size, every entry, and every path that the log gave out at any size, whole or
with its first or last sibling missing. The Node.js loop looks at no more bits of an
index than the size has, so a larger index, or a negative one, takes the turns of one of
these past the end. The loop takes a step per sibling. The two
programs differ in how they start: `StartPython`/`RefusePython` check the index and
set `sn` to the last index; `StartNode` checks nothing and sets `sn` to the size.

### TakedownIntake and Takedown

The promise: the node takes in verified requests, one for each `request_id`, and keeps
them (`TakeIn`); it confirms what it holds once (`Confirm`, 201); it refuses only what it
holds (`Repeat`, 409). `Takedown` implements it with
`held <- takedowns, confirmed <- receipts, repeated <- refused`.


A request stands for its signed payload and so for its fingerprint. The cache is
a set; `stale` holds the fingerprints whose 300 seconds have passed, which `Age`
lets happen at any time. `_takedown_replay_seen` lists the expired keys and then
deletes them one by one (`ListExpired`, `Evict`); a key that another thread has
deleted already raises `KeyError` (`EvictTwice`, answered 500). A dictionary that
changes while the list is made also raises; that is an instance of `Fail`.

### Replication

`rows[n]` are the Observations of a node with the evidence saved for each; `posts[n]` are
the captures, posts and pushes that have passed the check of `ingest` and are not yet
saved; `pulls[l]` is the request that node `l[1]` serves by pulling from its peer `l[2]`:
the identifiers to pull, how many are done, and whether the next one has passed the
check. The check (`app.py:136-164`) and the save (`app.py:165-186`) are steps of their
own, because the threads of a node come between them: `CheckPost` and `SavePost` for a
post; `PassOver` (`already_present`), `CheckNext` and `SaveNext` for the next identifier
of a pull. `FailsCheck` is the rule of the check (signature, repeated content), `Stores`
that of the save (the Observation's key, the unique URL), each on the rows of that
moment. What else interleaves inside one ingest is left to `IngestNode`.

`StartFull` takes the list the peer gives (`Listings`: by time of capture, ties in any
order), `StartChosen` one identifier from the request. `StopAtNext` is the 404 of the
peer or the refusal of this node, in the check or in the save; `LoseConnection` the
time-out, `Restart` the crash. A `Mirror` is a node that is only ever told to pull all
that a peer has. A link has one pull at a time and a node at most `MaxPosts` posts.
`raced` is history: the nodes that saved a repeat without a token.

### BootstrapRegistry and DiscoveryAudit

`Configure` lets the operator replace or remove the bundle file. A request reads
the bundle and imports its descriptors over the node's own (`ReadBundle`), then
verifies the chain and builds its event (one read of the file: `BuildEvent`, or
`KnowRevision` when the revision is the last one recorded), then appends (`AppendEvent`),
then answers (`Answer`). A request that fails or is killed while it appends may leave a
part of a line (`auditFile`), and `Verifies` is false from then on. An event is named by its line, and names the line before it. `ImportBundle` keeps the
last genuine descriptor of each operator; `RemoveExpired` is called when the bundle is
read and again by `Answer`, with the clock as it is then. `shown` is history: the
peers last answered for a revision, the node's own left out, since that one is new for
each request.

### BundleVerifiers

A bundle is where it comes from, the form of its time evidence, its log proof (none, one
that leads to the root, one that does not), and the set of its parts that were changed
since they were written. Of `evidence.json` three parts are told apart: the imprint,
which the offline verifier compares with the statement (`offline.py:22`); the token,
which only `openssl` reads, when there is a certificate; and the rest (`remark`), which
nobody reads. So a changed remark, a removed `evidence.json`, or a changed token without
a certificate are found by neither verifier, as in the code. Hashes are injective and
signatures sound, so a check is a condition on that set. `OfflineTimestamp` keeps the
case that matters: `openssl` is told that the evidence is a bare token, and the node
stores the whole reply.

### PublicGate and NodeCapture

A request passes `Pass(a)` (or is turned away by `TooMany(a)`) and is then served by a
thread:

| step | code | action |
|---|---|---|
| `idle` | `app.py:344-424` | `RequestPage`, `RequestText` (texts and files), `RequestNodeInfo`; `Refused` is a request that counts and fails its schema |
| `fetch` | `http_capture.py:195-234` | `RejectUrl`, `FollowRedirect`, `ReadPage`, `FetchFails`: the outcomes of a hop |
| `find_key` | `app.py:76` | `FindKey` asks whether the file exists |
| `create_key`, `fill_key` | `keys.py:16-27, 39-44` | `CreateKey` generates the key and opens the file, `FillKey` writes it |
| `load_key` | `keys.py:47` | `LoadKey`, or `LoadTorn`: a file cut short answers 500, or 400 for texts and files |
| `stamp` | `app.py:374-379` | `ObtainToken` with the reply, or the declaration that stays |
| `ingest` | `app.py:129` | `Ingest` in one step (`IngestNode` has the rest); with several threads the proof it saves may be one that does not verify (`LogProofs`) |

`passed` is history: the requests that passed since the process started. A restart
keeps the key file and what is stored, and forgets the window.

### OperatorDemo

One action per file operation of a command, in the order of the code. `keyOf[o][file]`
is the key pair that each of an operator's four files is of, or `TornKey`; a rotation
removes the two files of a key pair one after the other before it writes new ones.
`packages` numbers every content an export file ever had, so a receipt, which the code
names by digest, is for a number. `ImportStatus` follows the order of the checks in
`command_import`. An operator may import any export file, its own included.

A bundle is `"whole"`, `"bare"` (only `evidence.json` is missing, which every program
accepts), `"partial"` or `"absent"`. `Leftovers` lists what a command may leave when it
ends while it writes or removes a bundle: a capture writes `evidence.json` last, an
import the archive, and `rmtree` removes files in any order. `Readings` lists what an
export makes of half a bundle: one whose last file is torn is exported with that file
torn, or without it if it is `evidence.json` that is missing.

`FailImport` is an error that the command catches (receipt `REJECTED`, files as they
are), `Stop` a kill or an error it does not catch, `Lose` the lost bundle of the
recovery drill, `Damage` a member of an export changed on the way. `recover` is an
import with one record more. A query (`Ask`, one `Visit` per operator, `AnswerQuery`)
interleaves with the commands. History variables: `cut` and `cutInit` (writes that were
cut off), `swapped` (bundles copied from a file that had changed since the check),
`spoiled` (Observations some bundle of which was ever cut off or copied from such a
file), `steady` (what was there all the time a query took).

## 3. What the runs check

All bounds are constants in the `.cfg` files: `MaxRequests`, `MaxFailures`,
`MaxRestarts`, `MaxTime`, `MaxCommands`, `MaxDisturbances`, `MaxPackages`,
`MAX_AUDIT_EVENTS` (512 in the code, 3 here), `MaxRedirects` (5 in the code, 1 here),
`Limit` (10 in the code, 2 here), `MaxDistinct` and `MaxRepeating` (Merkle). Threads,
keys, operators and captures are symmetric where a run says so; liveness runs use no
symmetry.

| run | question | result |
|---|---|---|
| `ingest_concurrent` | two threads, three requests over three Observations of a page and a forged one, one failure or restart: is the database backed by log and archive (`StoredIsBacked`), are answered Observations related (`CreatedAreLinked`) and correctly (`ConflictsAreCorrect`), is nothing lost (`HistoryKept`), the abstract store implemented (`ImplementsStore`)? | holds |
| `ingest_serial` | one thread, five requests, two failures or restarts, two Objects with one URL: does everything stored verify (`StoredVerify`), and are log and graph complete until the first failure (`CleanLogIsStored`, `CleanGraphIsComplete`)? | holds |
| `ingest_answered` | three Observations with the same bytes, three requests by two threads: is every request answered (`EveryRequestAnswered`), and how far can the repeated-content check be passed? | yes, under fairness; at most once per thread (`RepeatsBoundedByThreads`) |
| `merkle` | does `verify_inclusion` accept exactly the proofs of the log (`HonestIsAccepted`, `OnlyHonestIsAccepted`), and does either verifier accept anything but an entry with the path the log gives for it (`AcceptedIsLogged`)? | yes; no, but the Node.js one accepts lines under indices past the end |
| `takedown` | does the handler, with its cache and its three looks, receive each `request_id` once (`ReceivedOnce`) and implement the abstract intake (`ImplementsIntake`)? | holds |
| `audit` | what holds when the threads of the audit log race: no answer without a record (`AnsweredIsRecorded`), a broken chain is left alone (`BrokenIsFrozen`), the limit is overrun by fewer events than there are threads (`LimitHolds`), peers only leave the answers (`PeersOnlyLeave`), and the newest is shown where the bundle is in order (`NewestIsShown`) | holds |
| `replication` | a chain of three nodes, whose last is a mirror of the middle one: is what a pull reports stored (`PulledIsHeld`), are undated copies of a content no more than the posts and pulls that overlap (`UndatedBounded`), is a mirror of an ordered list refused nothing (`MirrorIsNotRefused`), does it catch up with a peer whose list is in order (`MirrorCatchesUp`)? | holds |
| `capture` | a fresh node behind the gate: do no more keys sign than there are threads (`KeysBoundedByThreads`), does a key that is in place stay (`KeyIsKept`), does the window hold (`RateHolds`)? | holds |
| `operators` | any six commands of two operators with one kill, loss, failure or damaged file: is what was accepted kept (`CustodyIsKept`), is a complete bundle that of the capture (`RetainedIsBound`) and does it lose its evidence only where something was cut off (`EvidenceIsKept`), are exports bound to one key (`ExportsAreBound`), does a query find what was there (`SteadyIsFound`)? | holds |
| `replica_stalls` | does repeating the pull bring everything a peer has (`ReplicaCatchesUp`)? | violated, section 6 |
| `merkle_node_differs` | does the Node.js verifier give the Python verdict (`AlignedWithPython`)? | violated, section 6 |
| `offline_differs` | is what the node calls valid also valid offline (`NodeAndOfflineAgree`)? | violated, section 6 |

The split of the ingest properties is itself a result. Some guarantees hold
whatever the threads do (`ingest_concurrent`). Others need ingests one at a time, and
of these the two named `Clean` also need that nothing failed so far (`ingest_serial`).
Section 6 says how each is lost otherwise.

The takedown properties: `ReceivedOnce` (one verified row for each `request_id`, and at
most one 201, over threads, replays after the window and restarts), `ImplementsIntake`
(the abstract intake: what is held is kept, and 409 is only said of what is held).

### Why the bounds are enough

*Ingest.* Every property relates at most two Observations, or one Observation and
the stores. Two threads suffice for a race of two. The third Observation is there so
that a batch of conflicts has two pairs, one of which another thread can take;
with three requests each is ingested once or one of them twice. Captures are 300 and
301 seconds apart, at both sides of the window. `o1` and `o3` share their bytes.
One failure reaches every "stopped after step n, then retried".
*Repeats.* Three requests over three Observations let a third one arrive when two
threads have passed the check. No step fails or restarts in this run but for the
unique keys, which is where an answer could be lost; a failed step answers 500.
*Replication.* `o1` and `o2` repeat a content, captured 601 seconds apart, and `o3`
takes their URL for another type of page, so each refusal occurs; each may be dated or
not. The chain has a node that only posts, one that posts and pulls, where the two meet,
and a mirror, which pulls from a node that changes meanwhile. One post at a time and one
pull let two requests of a node pass the check together. One lost connection or restart
cuts a pull at each point.
*Merkle.* Nine leaves is one more than a complete tree of eight, so every shape up
to height four occurs: complete, a single carried leaf, two carried levels.
*Takedown.* Two requests with one `request_id`, one with its own, one forged; five
requests let each be replayed after it aged or after a restart.
*Audit.* Three threads on a log with room for three: they can pass the limit check
together, and break the chain at the start, in the middle and at the end; six requests
fill the log and overrun it. One tick of the clock, at any time, expires some of the
descriptors: before, between and after the two looks of a request. The two revisions list
an operator twice in order, twice out of order, a forged descriptor, one that expires
early, and the node itself.
*Capture.* Two threads can both find no key file; a third key is there so that nobody
waits for one. A limit of 2 in a window of 2 with a clock to 2 has windows that overlap
and hits that expire exactly at the edge; three requests fill one window and reach into the
next. One redirect is one more than none. One restart cuts the creation of the key.
*Operators.* Two operators, so a bundle can go from one to the other; two
captures, so that a query can have a conflict; two contents of export files, one of
them damaged or exported later; three keys let one operator rotate. Six commands
suffice for init, init, capture, export, import and a second import or a query; the way
back, an export of what was imported and a recovery from it, takes one more and is
left to the theorems, which hold for any number of commands. One disturbance is a kill,
a failure, a loss or a damaged member at any step; `Fragile` has one member for each
answer that a check can give: the archive, the unread part of the evidence, the
descriptor.

Distinct states: `ingest_serial` 1,395,663, `ingest_concurrent` 951,172,
`ingest_answered` 465,106, `merkle` 551,664, `audit` 1,214,216, `replication` 230,096
with liveness, `capture` 732,351, `operators` 445,728.

### Fairness

`ingest_answered` assumes weak fairness of each thread's
next step: threads belong to the operating system, which schedules them all, and no
step waits for another (there are no locks; a locked database raises and is
`Fail`). Arrivals, failures and restarts are not fair.

`replication` and `replica_stalls` assume weak fairness of a mirror's pull under way
(one request, whose calls have a time-out) and of beginning the full pull again when
none is under way: nothing in the program repeats pulls, operators do, as
`docs/Deployment_and_Operations.md` tells them. Nothing is assumed of the other nodes:
their posts, pulls, and all failures are not fair.

Deadlock checking is on where the system never stops (`Replication`) and where
the model has an explicit end (`Exhausted`: all requests used and answered) and off
in the Merkle runs, whose programs terminate, and in `operators`, where people decide
whether another command is run.

## 4. What is proved

TLAPS proves these for any sets of threads, Observations and requests, any times,
and any bounds, from the named assumptions on the constants (each constant
function has its domain and range, `Signed` is a subset, the bounds are natural
numbers, the sets that must not be empty are not).

`IngestNode_proofs`:

* `TypeCorrect`: the type invariant, which is inductive.
* `StoreCorrect`: `StoreInv`. Threads that are past verification carry signed
  Observations; threads past the commit carry stored ones; so only signed
  Observations are stored, and only stored ones are answered.
* `RowsCorrect`, `ConflictsCorrect`: `RowInv` adds what the two local sets of
  `record_conflicts` hold (siblings are stored Observations of the Object, fresh
  ones are siblings). With the symmetry of `ConflictRow` it gives
  `ConflictsAreCorrect`.
* `LinksCorrect`, `CreatedLinked`: that "created" implies related is not inductive
  by itself, since it says nothing about threads under way. `LinkInv` adds: a
  thread that has read its siblings either saw each created Observation of its Object
  or has a row with it already (`CreatedKnown`); of two
  threads that have both read, at least one saw the other's Observation
  (`OneSawTheOther`), because each commits before it reads; a sibling that is not
  fresh has its row already (`SiblingsPending`).
* `StoreImplemented`: the refinement. `CommitSave` maps to `Accept`,
  `RecordConflicts` to `Answer`, everything else stutters.
* `HistoryNeverLost`: no step changes or removes a line or a row.

`IngestStores_proofs`, for any number of threads:

* `StoredBacked`: `FilesInv` follows the archive file from `OpenArchive` to the commit
  (no file ever holds other bytes, no opened file disappears); `LinesInv` follows the
  line: the index a thread read is at most its place, a proof names the first line of
  its Observation, and stays right because the log only grows.
* `RepeatsBounded`: `RepeatsInv` counts, for each content, the undated rows and the
  threads that have passed the check and will add one: together they are no more than
  the threads. It needs that the set of threads is finite.

and, because section 6 shows that threads lose them, with `OneThread` as a hypothesis:

* `StoredVerifies`: `IndexInv` (the index of a line is its place) and `WholeInv` (the
  Observation of a thread before its commit is not stored). It also needs
  `OwnArchives`: no two Observations share an archive file. If two did, an ingest of the
  second that fails after `OpenArchive` would tear the file of the first. A capture
  writes the time and a fresh identifier into its archive, so the code's own captures
  meet it.
* `CleanLogStored`: `MissingInv` (what the session finds missing is missing until it
  commits), `WholeLines` (until a failure no line is cut short) and `LoggedInv` (until a
  failure every line is stored, impossible to store, or the thread's own).
* `CleanGraphComplete`: `RelatedInv`. Nothing changes under `record_conflicts`, so the
  siblings read are all there are, and no unique key rolls the batch back.

`MerkleVerifiers_proofs`, for logs of any length over any entries:

* `AcceptedLogged`, about both programs: at every step, if the hash computed so far is
  the root of *any* entries at all, then the claimed entry is among them and what was
  used of the path is its path there (`ContainedInv`). Injective hashes make that
  inductive: the last sibling and the hash so far are the roots of the two halves.
* `HonestAccepted` and `OnlyHonestAccepted`, about the Python program: `Climbing` says
  that for some power of two `w`, the program is at subtree `fn` of width `w` of the log,
  `sn` is the last of them, and the hash is that subtree's root if and only if (`Agrees`)
  the claimed entry is the log's and the path used is the leaf's path within the subtree.
  `TakeSibling` carries that to the subtree of width `2w`; `Climbed` shows that the
  levels that the inner loop skips are those on which the last subtree ends with the
  log, so that its leaves stay the same; `TopIs` that `sn = 0` exactly when one subtree
  holds the whole log; `PathGoesOn` that a path within a smaller subtree is shorter than
  the whole, so that a path cut short never ends at the top.

  Of the path these proofs use only that its members are roots of some entries, which
  covers more than the paths that `Claims` lists.

  The functions are recursive, so the first part of the module shows that they satisfy
  their equations (`HighBitEquation`, `RootEquation`, `PathEquation`, `ClimbEquation`):
  up to each size there is a function that does, any two agree, and together they are
  the function. Induction is by least counterexample, from the library's theorem that
  strict inclusion of finite sets is well-founded, with sets in place of predicates.

`Takedown_proofs`:

* `TypeCorrect`, and `IntakeCorrect`: whatever the cache remembers has a row, so the
  cache only repeats what the table would say; a thread about to answer 201 holds the
  row, no receipt was sent for it before, and no other thread is about to.
* `TakedownOnce` follows from it, and `IntakeImplemented`: `Insert` maps to `TakeIn`,
  `Remember` to `Confirm`, each of the three ways to a 409 to `Repeat`, everything else
  stutters. That a hit in the cache may be answered 409 is `replayCache \subseteq takedowns`.

`Replication_proofs`:

* `TypeCorrect`, from `TypedAndFinite`: a list of identifiers is a sequence because
  what a node holds is finite, which is part of the induction.
* `PullsReportTheTruth`: `PulledIsHeld` for any number of nodes and links, inductive
  given the types, by `RowsChange`: each step saves at most one row, and one that the
  save does not refuse.
* `UndatedAtMostThreads`: `UndatedBounded` counts what is stored together with what has
  passed the check, and so is inductive. A save only moves a copy from one count to
  another (`SumMoved`); a copy that passes the check does so while none is stored, and
  then those under way are of different requests (`UnderWay`).
* `MirrorsAreNotRefused`: the safety that `MirrorCatchesUp` rests on, from `MirrorInv`.
  A mirror's rows are copies of its peer's (`CopiesOfPeer`); the list it works through,
  old as it may be, has every undated capture of a content before the later ones
  (`ListedFirst`), so with a capture the mirror has what had to come before it
  (`UndatedFirst`), also after a pull that was cut off. Ordering by time of capture is
  what makes that inductive: what the peer gets later can only break the order of its
  list, which the property excludes.

`DiscoveryAudit_proofs`:

* `TypeCorrect`, inductive as it stands, and `RecordedFirst`, from `RecordedInv`: a thread
  that is about to answer has its revision on record.
* `PeersLeave`, `NewestShown`: `PeersInv` says that what a thread made of a bundle
  is, but for the node's own descriptor and what has expired, what that revision
  publishes (`Published`), whatever the time it was read, and that what is shown lost
  only expired ones. `ExpiryIsFinal` makes two looks at two times as good as the last.
* `LimitKept`, `BrokenStays`: neither bound is inductive. `BoundsInv` counts the
  threads between the check of the log and their event (`Appending`): length and
  threads together stay below the bound from the moment the limit is reached, or the
  chain breaks, since no thread passes the check after it.

`NodeCapture_proofs`:

* `TypeCorrect` from `TypeInv`, which adds what a thread holds at each step
  (`JobsHold`), that what is stored is signed with a generated key (`StoredHold`), and
  that a whole key file is of one.
* `IdentityKept` follows from it.
* `FewKeys`: keys generated and threads about to generate one (`AboutToCreate`) are
  together no more than the threads (`KeysInv`): a thread is only sent to create
  while there is no file, and then there is no key yet.
* `RateLimited`: `RateInv` says that what passed and still counts is in the list of
  its address, and that sets are finite; a request that passes is then one more than
  fewer than `Limit`, in every window that ends now.

`OperatorDemo_proofs`:

* `TypeCorrect`, variable group by variable group, with `JobsHold`.
* `RetainedBound`: `VerifiedParts` shows what the checks of an import leave open: a
  package that verifies has the statement, signature, archive and key of the capture, and
  evidence with the right imprint or none. `CheckedHold` carries that from the check to
  the copy. Nothing is assumed of packages: any half of a bundle may be in one.
* `EvidenceKept`: `WholeHold` follows bundles and packages of an Observation of which
  nothing was cut off or replaced so far: they are whole, and half ones are only those
  that a command is writing (`WholeBundles`, `WholePackages`), so no export reads one
  (`ZipHold` has that the bundle is not absent while its export is written).
* `ExportsBound`: `KeysHold` says which files of an init are written at each step.
* `SteadyFound`: `QueryHold` says where what was there all the time is: at an operator
  still to be visited or in what was found.
* `CustodyKept`: `KeptHold` strengthens custody by the index entry that survives a
  rewrite. It needs that names are right (`NamesHold`: an export file is a package
  of the Observation it is named after, and numbers in jobs and receipts name contents
  that exist), that captures are made once (`OnceHold`), and what an import has written
  when it comes to its receipt (`WrittenHold`).

### Only model-checked

* `EveryRequestAnswered` and `MirrorCatchesUp`: liveness under fairness is outside the
  prover. `MirrorsAreNotRefused` is the safety part of the second.
* The runs that expect a violation; what they check is false.

All other properties of the runs are theorems.

## 5. Hazards

`PROJECT.json` lists each place where this code can go wrong in a way tests hardly
reach, with the properties that would catch it. Some have none, for one of three reasons:

* The code really goes wrong there, and there is nothing left to promise: two threads that
  expire the same takedown fingerprint (`app.py:331`), a key file cut short (`keys.py:40`),
  a line of the audit log cut short (`audit.py:182`), a rotation cut off
  (`operator.py:105`), a bundle out of order (`bootstrap.py:41`). The models have these
  steps, and the other properties hold in spite of them.
* A property would repeat a guard: the check before each hop of a fetch
  (`http_capture.py:200`), the answer of a full audit log (`audit.py:171`).
* It is outside the model: a name that resolves differently for the check and for the
  connection (`http_capture.py:145`).

## 6. Disagreements between code and documents

* `merkle_node_differs`: the Node.js verifier starts with `sn` at the tree size
  instead of the last index, and rejects proofs that the Python one accepts. It also
  accepts lines under indices past the end. It accepts nothing worse
  (`AcceptedIsLogged`).
* `replica_stalls`: a node stores an undated capture, and later a dated capture of the
  same bytes that was made earlier. Its list has the dated one first, and a mirror
  that has ingested that refuses the undated one, on every pull, with whatever
  comes after it. What a node may hold depends on the order of arrival, what it
  can hand on depends on the order of capture. The design says that a node recovers by
  repeating the synchronisation. `Ordered` in `MirrorCatchesUp` excludes this case.

* `offline_differs`: the offline verifier wants the Object identifier to be the hash
  of the canonical URL; texts and files have another one, so each of them is INVALID
  offline while the node answers VALID, where `docs/Deployment_and_Operations.md:44` has
  either verification do without the node of origin. So are pages whose evidence is a
  whole reply with a certificate: `openssl` is told that it is a bare token.

More consequences of the code are visible in the models, without a run of their own.
They say why the properties above are stated as they are:

* Ingest asks the database whether it has the Observation, but logs first and saves
  later (`app.py:167`): a retry after a failure in between logs it again, where
  `docs/OIN_MVP_Engineering_Design.md:241` wants one entry. `CleanLogIsStored` is about
  the time until the first failure.
* Two requests with the same bytes can pass the repeat check together (`app.py:146`);
  the evidence that `docs/limitations.md:5` requires is then missing.
  `RepeatsBoundedByThreads` says how often; with one thread it says never.
  `UndatedBounded` says the same of posts and pulls together.
* A line of the log that was cut short (`merkle.py:136`) makes every later ingest answer
  500, after it wrote its archive, until somebody mends the file; a line of the audit log
  (`audit.py:182`) every later request for peers 503.
* A unique key violated by one pair of `record_conflicts` rolls back every pair of the
  batch (`repository.py:258`, `271`), after the Observation was committed, and the retry
  answers `already_present`: a pair stays unrelated although the design (`:135`) wants all.
  `CreatedAreLinked` is about Observations that were answered, `CleanGraphIsComplete` about
  one thread without failures.
* Two threads can count the same number of lines, and both save that leaf index.
  The shipped schema (`migrations/001_initial.sql:76`) declares
  `UNIQUE (log_id, leaf_index)`, the ORM table has no such key. `StoredVerify` is a
  property of the serial run.
* `canonical_url` is unique in the objects table while `object_id` includes the
  resource type. The second type of a page is logged and then refused, again on
  each retry; `CleanLogIsStored` names it as its exception.
* A concurrent ingest of a stored Observation truncates and rewrites its archive
  with the same bytes; `StoredIsBacked` therefore allows a torn archive. So does one
  failed ingest of another Observation with the same archive, threads or not
  (`OwnArchives`).
* Two loads of a bundle can append after the same audit event. From then on every
  load answers 503; `BrokenIsFrozen` is about the log in that state.
* A descriptor of the bundle replaces the node's own if it has its `operator_id`
  (`bootstrap.py:41`), and an older one a newer one if it comes later;
  `docs/architecture/discovery-bootstrap-api.md:14` has the node's own descriptor in
  the answer beside the unexpired ones of the bundle. `NewestIsShown` is about bundles in order of issue.
* A key file that was opened and not written is never rewritten (`keys.py:40`,
  `app.py:76`): the node answers 500 until somebody removes it. `KeyIsKept` is about
  whole files.
* An import that fails after it removed the bundle leaves it partial, and writes
  `REJECTED` over the receipt that said `ACCEPTED` of the same export (`operator.py:415`,
  `478`; `network-demo/ARCHITECTURE.md:41`). A partial bundle ends every history query
  with an error (`VisitFails`). `CustodyIsKept` excepts what was cut off.
* `evidence.json` is optional (`operator.py:240`, `offline.py:20`). What a capture or an
  import that was cut off left without it can be exported, is accepted as whole, and goes
  on to other operators. `EvidenceIsKept` says that evidence gets lost in no other way.
* An export file replaced between the check and the copy is retained unverified
  (`operator.py:417`); `RetainedIsBound` excepts it as `swapped`.

## 7. Plan

Done: `Observations`, `ObservationStore`, `IngestNode`; `MerkleTree`,
`MerkleVerifiers`; `TakedownIntake`, `Takedown`; `Replication`; `BootstrapRegistry`, `DiscoveryAudit`;
`BundleVerifiers`, `PublicGate`, `NodeCapture`; `OperatorDemo`; the proofs of all of
them.

Theorems next: that each node of `Replication` implements the `Accept` part of
`ObservationStore`; that a step of a thread of `IngestNode` always brings its request
closer to its answer, which is the safety part of `EveryRequestAnswered`.

Models next, each of less weight than what is there: `POST /v1/observers` beside
`save_observation`; takedowns of replicated Observations, in `Replication`; the log key
at start-up of two processes over one directory.
