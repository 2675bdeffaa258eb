-------------------------- MODULE MerkleVerifiers --------------------------
(***************************************************************************)
(* The two programs that verify an audit path: verify_inclusion of         *)
(* transparency/merkle.py and its port in verifier_node/index.js.          *)
(*                                                                         *)
(* The checkpoint is signed, so its tree size and root are those of a log; *)
(* the leaf index, the entry and the path come from whoever presents the   *)
(* proof and may belong to another leaf or to the log at another time.     *)
(* The loop over the path takes one step for each sibling.                 *)
(***************************************************************************)
EXTENDS MerkleTree

CONSTANTS
    Verifier,       \* the programs that run: "python", "node"
    Logs            \* the logs they are given proofs about

ASSUME VerifierAssumption ==
    /\ Verifier \subseteq {"python", "node"}
    /\ Logs \subseteq Seq(Entry) \ {<<>>}

VARIABLES
    log,            \* the entries the checkpoint is about
    claim,          \* the proof presented: index, entry, path
    verifier,       \* which program looks at it
    pc,             \* "start", "loop", "accept", "reject"
    rest,           \* the siblings not looked at yet
    fn, sn,         \* the node on the way up, and the last node of its level
    computed        \* the hash of that node

vars == <<log, claim, verifier, pc, rest, fn, sn, computed>>

(* Every path the log gave out while it grew, with or without its first or
   its last sibling. *)
PathsOf(entries) ==
    UNION { {inclusionPath[SubSeq(entries, 1, m)][i] : i \in 0 .. m - 1} :
            m \in 1 .. Len(entries) }

Cut(path) ==
    IF path = <<>> THEN {path}
    ELSE {path, Tail(path), SubSeq(path, 1, Len(path) - 1)}

(* The loop looks at no more bits of an index than the tree size has.  An index
   that is negative, or larger within the 32 bits that the shifts keep, takes
   the turns of one of these past the end, that with the same low bits: neither
   ever is the last node of a level. *)
Claims(entries) ==
    [index : 0 .. 4 * Len(entries), entry : Entry,
     path : UNION {Cut(p) : p \in PathsOf(entries)}]

Init ==
    /\ log \in Logs
    /\ claim \in Claims(log)
    /\ verifier \in Verifier
    /\ pc = "start"
    /\ rest = claim.path
    /\ fn = 0
    /\ sn = 0
    /\ computed = EmptyHash

-----------------------------------------------------------------------------

Begin(last) ==
    /\ fn' = claim.index
    /\ sn' = last
    /\ computed' = LeafHash(claim.entry)
    /\ pc' = "loop"
    /\ UNCHANGED <<log, claim, verifier, rest>>

(* Python: the index must be one of the tree, and sn is the last of them. *)
StartPython ==
    /\ pc = "start" /\ verifier = "python"
    /\ claim.index < Len(log)
    /\ Begin(Len(log) - 1)

RefusePython ==
    /\ pc = "start" /\ verifier = "python"
    /\ claim.index >= Len(log)
    /\ pc' = "reject"
    /\ UNCHANGED <<log, claim, verifier, rest, fn, sn, computed>>

(* JavaScript: no check, and the tree size is passed as sn. *)
StartNode ==
    /\ pc = "start" /\ verifier = "node"
    /\ Begin(Len(log))

IsOdd(n) == n % 2 = 1

(* Mutation: the last node of a level is not treated as a right child. *)
OnlyOddIsRight(f, s) == IsOdd(f)

(* The sibling is on the left: of a right child, or of the last node of a
   level, which was carried up without a sibling of its own. *)
SiblingIsLeft(f, s) == IsOdd(f) \/ f = s

(* The levels on which the last node has no sibling are skipped. *)
climb[level \in Nat \X Nat] ==
    IF level[1] # 0 /\ ~ IsOdd(level[1])
    THEN climb[<<level[1] \div 2, level[2] \div 2>>]
    ELSE level

Halve(level) ==
    /\ fn' = level[1] \div 2
    /\ sn' = level[2] \div 2

TakeLeft ==
    /\ pc = "loop" /\ rest # <<>> /\ sn # 0
    /\ SiblingIsLeft(fn, sn)
    /\ computed' = NodeHash(Head(rest), computed)
    /\ Halve(climb[<<fn, sn>>])
    /\ rest' = Tail(rest)
    /\ UNCHANGED <<log, claim, verifier, pc>>

TakeRight ==
    /\ pc = "loop" /\ rest # <<>> /\ sn # 0
    /\ ~ SiblingIsLeft(fn, sn)
    /\ computed' = NodeHash(computed, Head(rest))
    /\ Halve(<<fn, sn>>)
    /\ rest' = Tail(rest)
    /\ UNCHANGED <<log, claim, verifier, pc>>

(* There are siblings left over at the root. *)
TooLong ==
    /\ pc = "loop" /\ rest # <<>> /\ sn = 0
    /\ pc' = "reject"
    /\ UNCHANGED <<log, claim, verifier, rest, fn, sn, computed>>

(* Mutation: the height at which the path ends is not looked at. *)
RootReached == computed = root[log]

(* Mutation: the hash at the root is not looked at. *)
TopReached == sn = 0

AtRoot == sn = 0 /\ computed = root[log]

Decide ==
    /\ pc = "loop" /\ rest = <<>>
    /\ pc' = IF AtRoot THEN "accept" ELSE "reject"
    /\ UNCHANGED <<log, claim, verifier, rest, fn, sn, computed>>

Next ==
    \/ StartPython \/ RefusePython \/ StartNode
    \/ TakeLeft \/ TakeRight \/ TooLong \/ Decide

Spec == Init /\ [][Next]_vars

-----------------------------------------------------------------------------

(* The claim is the proof that the log gives for one of its lines. *)
IsHonest ==
    /\ claim.index < Len(log)
    /\ claim.entry = log[claim.index + 1]
    /\ claim.path = inclusionPath[log][claim.index]

(* The Python program accepts a proof that the log gives, for every size of
   the log and every line, the last one of an incomplete tree included. *)
HonestIsAccepted == verifier = "python" /\ IsHonest => pc # "reject"

(* It accepts nothing else: an accepted entry is the line with the claimed
   index, and its path is the one the log gives for it today, not one from an
   earlier size of the log or for another line. *)
OnlyHonestIsAccepted == verifier = "python" /\ pc = "accept" => IsHonest

(* Whatever is claimed, neither program accepts anything but an entry of the log
   with the path that the log gives for it today, be it under another index:
   the JavaScript program also takes the proof of a line under indices past the
   end. *)
AcceptedIsLogged ==
    pc = "accept" =>
       \E i \in 0 .. Len(log) - 1 :
          /\ claim.entry = log[i + 1]
          /\ claim.path = inclusionPath[log][i]

(* The JavaScript program gives the verdict of the Python one, which accepts
   exactly the proofs that the log gives. *)
AlignedWithPython ==
    pc \in {"accept", "reject"} => (pc = "accept" <=> IsHonest)
=============================================================================
