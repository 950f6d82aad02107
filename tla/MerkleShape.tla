----------------------------- MODULE MerkleShape ----------------------------
(***************************************************************************)
(* The shape of a Merkle tree whose rows are halved, rounding up, down to  *)
(* one hash, in closed form, and what this repository's tree promises for  *)
(* the proofs it generates.  Module MerkleTree is checked to keep that     *)
(* promise; module MerkleService relies on it.                             *)
(***************************************************************************)
EXTENDS Integers

\* Hashes in row l of a tree of n leaves, counting rows from 0
RowLength(n, l) == (n + 2 ^ l - 1) \div 2 ^ l

\* The index in row l of the node above leaf i
NodeAbove(i, l) == i \div 2 ^ l

\* The path from leaf i meets the last node of an odd row, below the root.
MeetsOddNode(n, i) ==
  \E l \in 0 .. n - 1 :
    /\ RowLength(n, l) > 1
    /\ NodeAbove(i, l) % 2 = 0
    /\ NodeAbove(i, l) + 1 = RowLength(n, l)

\* The proof generated for leaf i of n verifies.
Verifies(n, i) == n > 1 /\ ~MeetsOddNode(n, i)
=============================================================================
