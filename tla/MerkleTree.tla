----------------------------- MODULE MerkleTree -----------------------------
(***************************************************************************)
(* The binary Merkle tree of the transparency log (transparency/merkle.py):*)
(* the root and the audit paths over the lines of entries.jsonl.           *)
(*                                                                         *)
(* SHA-256 is taken to be injective, so a hash is the term that was        *)
(* hashed; the one-byte prefixes keep leaves and inner nodes apart.  Leaf  *)
(* indices count from 0, as in the code, positions in a sequence from 1.   *)
(***************************************************************************)
EXTENDS Integers, Sequences

CONSTANT Entry      \* entry_bytes: an observation_id with its manifest_hash

EmptyHash == <<"empty">>

LeafHash(entry) == <<"leaf", entry>>

NodeHash(left, right) == <<"node", left, right>>

(* 1 << (n.bit_length() - 1): the highest bit of n *)
highBit[n \in Nat \ {0}] == IF n = 1 THEN 1 ELSE 2 * highBit[n \div 2]

(* Where a tree of two leaves or more is split. *)
Split(size) == highBit[size - 1]

Left(entries) == SubSeq(entries, 1, Split(Len(entries)))

Right(entries) == SubSeq(entries, Split(Len(entries)) + 1, Len(entries))

root[entries \in Seq(Entry)] ==
    IF entries = <<>> THEN EmptyHash
    ELSE IF Len(entries) = 1 THEN LeafHash(entries[1])
    ELSE NodeHash(root[Left(entries)], root[Right(entries)])

(* For each leaf, the siblings on the way to the root, the lowest first. *)
inclusionPath[entries \in Seq(Entry) \ {<<>>}] ==
    [index \in 0 .. Len(entries) - 1 |->
       IF Len(entries) = 1 THEN <<>>
       ELSE IF index < Split(Len(entries))
       THEN Append(inclusionPath[Left(entries)][index], root[Right(entries)])
       ELSE Append(inclusionPath[Right(entries)][index - Split(Len(entries))],
                   root[Left(entries)])]
=============================================================================
