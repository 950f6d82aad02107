----------------------------- MODULE MerkleTree ------------------------------
(***************************************************************************)
(* class MerkleTree (src/src/merkle.cpp, src/include/merkle.h): one object *)
(* on which build_tree, generate_proof and verify_proof are called in any  *)
(* order, one loop iteration per step.                                     *)
(*                                                                         *)
(* BLAKE3 is ideal: a hash is the term of what was hashed, so two hashes   *)
(* are equal only when their inputs are.  Leaf contents are never the 32   *)
(* or 64 bytes of other hashes (the prover's leaves have 256 bytes), so a  *)
(* leaf's hash is never a node's.                                          *)
(*                                                                         *)
(* A level of the tree is the sequence of its hashes; the code counts its  *)
(* nodes from 0, sequences count from 1.                                   *)
(***************************************************************************)
EXTENDS Integers, Sequences, MerkleShape

CONSTANTS
  LeafLists,    (* the sequences of leaves build_tree may be given         *)
  MaxBuilds     (* bound: how many times a tree is built                   *)

ASSUME MerkleAssumption ==
  /\ MaxBuilds \in Nat
  /\ \A list \in LeafLists : list \in Seq({list[i] : i \in DOMAIN list})

HashLeaf(data) == <<"leaf", data>>
HashPair(left, right) == <<"pair", left, right>>
HashSingle(node) == <<"single", node>>

NodeAt(row, i) == row[i + 1]

VARIABLES
  pc,           (* the loop that is running, or "idle" between calls       *)
  rows,         (* tree_nodes_                                             *)
  root,         (* root_hash_                                              *)
  leafCount,    (* leaf_count_, indeterminate until the first build        *)
  treeHeight,   (* tree_height_, likewise                                  *)
  temp,         (* of build_tree: the height loop's counter                *)
  level,        (* the loop counter of every other loop                    *)
  proof,        (* the last proof generated                                *)
  index,        (* current_index of generate_proof and verify_proof        *)
  current,      (* current_hash of verify_proof                            *)
  verdict,      (* what verify_proof last said of `proof`                  *)
  leaves,       (* history: the argument of the last build_tree            *)
  earlier,      (* history: leaves and root of the build before            *)
  origin,       (* history: the rows `proof` was generated from            *)
  builds        (* history: how many builds there have been                *)

tree == <<rows, root, leafCount, treeHeight>>
history == <<leaves, earlier, origin, builds>>
vars == <<pc, tree, temp, level, proof, index, current, verdict, history>>

\* A default-constructed MerkleProof; its leaf_index is never read.
EmptyProof == [leaf |-> <<>>, leafIndex |-> 0, siblings |-> <<>>, root |-> <<>>]

Init ==
  /\ pc = "idle"
  /\ rows = <<>>
  /\ root = <<>>
  /\ leafCount \in {0, 2}
  /\ treeHeight \in {0, 1}
  /\ temp = 0
  /\ level = 0
  /\ proof = EmptyProof
  /\ index = 0
  /\ current = <<>>
  /\ verdict = "none"
  /\ leaves = <<>>
  /\ earlier = [leaves |-> <<>>, root |-> <<>>]
  /\ origin = <<>>
  /\ builds = 0

-----------------------------------------------------------------------------
(* build_tree                                                              *)

\* Mutant: an odd node is paired with itself.
PairedWithItself(row) ==
  [j \in 1 .. (Len(row) + 1) \div 2 |->
     IF 2 * j <= Len(row) THEN HashPair(row[2 * j - 1], row[2 * j])
                          ELSE HashPair(row[2 * j - 1], row[2 * j - 1])]

ParentRow(row) ==
  [j \in 1 .. (Len(row) + 1) \div 2 |->
     IF 2 * j <= Len(row) THEN HashPair(row[2 * j - 1], row[2 * j])
                          ELSE HashSingle(row[2 * j - 1])]

\* Every build leaves the last one's leaves and root in `earlier`.
RecordBuild(list) ==
  /\ builds' = builds + 1
  /\ leaves' = list
  /\ earlier' = [leaves |-> leaves, root |-> root]

\* Mutant: an empty list leaves the counts of the last tree standing.
ClearRootOnly == root' = <<>> /\ UNCHANGED <<leafCount, treeHeight>>

\* What an empty list resets; tree_nodes_ keeps the last tree.
ClearRoot == root' = <<>> /\ leafCount' = 0 /\ treeHeight' = 0

BuildEmpty ==
  /\ pc = "idle"
  /\ builds < MaxBuilds
  /\ ClearRoot
  /\ RecordBuild(<<>>)
  /\ UNCHANGED <<pc, rows, temp, level, proof, index, current, verdict, origin>>

StartBuild(list) ==
  /\ pc = "idle"
  /\ builds < MaxBuilds
  /\ list # <<>>
  /\ leafCount' = Len(list)
  /\ treeHeight' = 0
  /\ temp' = Len(list)
  /\ pc' = "height"
  /\ RecordBuild(list)
  /\ UNCHANGED <<rows, root, level, proof, index, current, verdict, origin>>

\* Mutant: the height is the logarithm rounded down.
HalfDown(n) == n \div 2

HalfUp(n) == (n + 1) \div 2

CountHeight ==
  /\ pc = "height"
  /\ temp > 1
  /\ temp' = HalfUp(temp)
  /\ treeHeight' = treeHeight + 1
  /\ UNCHANGED <<pc, rows, root, leafCount, level, proof, index, current, verdict,
                 history>>

\* The rows are allocated, and the lowest one filled with the leaves' hashes.
HashLeaves ==
  /\ pc = "height"
  /\ temp <= 1
  /\ rows' = [l \in 1 .. treeHeight + 1 |->
                IF l = 1 THEN [i \in 1 .. leafCount |-> HashLeaf(leaves[i])] ELSE <<>>]
  /\ level' = 0
  /\ pc' = "rows"
  /\ UNCHANGED <<root, leafCount, treeHeight, temp, proof, index, current, verdict,
                 history>>

HashRow ==
  /\ pc = "rows"
  /\ level < treeHeight
  /\ rows' = [rows EXCEPT ![level + 2] = ParentRow(rows[level + 1])]
  /\ level' = level + 1
  /\ UNCHANGED <<pc, root, leafCount, treeHeight, temp, proof, index, current,
                 verdict, history>>

FinishBuild ==
  /\ pc = "rows"
  /\ level >= treeHeight
  /\ root' = rows[treeHeight + 1]
  /\ pc' = "idle"
  /\ UNCHANGED <<rows, leafCount, treeHeight, temp, level, proof, index, current,
                 verdict, history>>

-----------------------------------------------------------------------------
(* generate_proof                                                          *)

\* Nothing to prove: an index past the leaves, or no tree yet.  Which of
\* the two an unbuilt tree's indeterminate leaf_count_ makes it is the same.
Unprovable(i) == i >= leafCount \/ rows = <<>>

RefuseProof(i) ==
  /\ pc = "idle"
  /\ Unprovable(i)
  /\ proof' = EmptyProof
  /\ origin' = <<>>
  /\ verdict' = "none"
  /\ UNCHANGED <<pc, tree, temp, level, index, current, leaves, earlier, builds>>

StartProof(i) ==
  /\ pc = "idle"
  /\ ~Unprovable(i)
  /\ proof' = [leaf |-> NodeAt(rows[1], i), leafIndex |-> i, siblings |-> <<>>,
               root |-> root]
  /\ index' = i
  /\ level' = 0
  /\ pc' = "path"
  /\ origin' = rows
  /\ verdict' = "none"
  /\ UNCHANGED <<tree, temp, current, leaves, earlier, builds>>

\* Mutant: the sibling is always the node to the right.
RightNeighbour(i) == i + 1

SiblingIndex(i) == IF i % 2 = 0 THEN i + 1 ELSE i - 1

ParentIndex(i) == i \div 2

\* A node without a sibling, the last of an odd row, stands in for it.
AddSibling ==
  /\ pc = "path"
  /\ level < treeHeight
  /\ LET row == rows[level + 1]
         sibling == SiblingIndex(index)
         hash == NodeAt(row, IF sibling < Len(row) THEN sibling ELSE index)
     IN  proof' = [proof EXCEPT !.siblings = Append(@, hash)]
  /\ index' = ParentIndex(index)
  /\ level' = level + 1
  /\ UNCHANGED <<pc, tree, temp, current, verdict, history>>

FinishProof ==
  /\ pc = "path"
  /\ level >= treeHeight
  /\ pc' = "idle"
  /\ UNCHANGED <<tree, temp, level, proof, index, current, verdict, history>>

-----------------------------------------------------------------------------
(* verify_proof: static, it looks at the proof only.                       *)

RefuseVerify ==
  /\ pc = "idle"
  /\ proof.siblings = <<>>
  /\ verdict' = "invalid"
  /\ UNCHANGED <<pc, tree, temp, level, proof, index, current, history>>

StartVerify ==
  /\ pc = "idle"
  /\ proof.siblings # <<>>
  /\ current' = proof.leaf
  /\ index' = proof.leafIndex
  /\ level' = 0
  /\ pc' = "verify"
  /\ UNCHANGED <<tree, temp, proof, verdict, history>>

FoldSibling ==
  /\ pc = "verify"
  /\ level < Len(proof.siblings)
  /\ LET sibling == proof.siblings[level + 1] IN
       current' = IF index % 2 = 0 THEN HashPair(current, sibling)
                                   ELSE HashPair(sibling, current)
  /\ index' = ParentIndex(index)
  /\ level' = level + 1
  /\ UNCHANGED <<pc, tree, temp, proof, verdict, history>>

ClaimedRoot == proof.root

CompareRoot ==
  /\ pc = "verify"
  /\ level >= Len(proof.siblings)
  /\ verdict' = IF <<current>> = ClaimedRoot THEN "valid" ELSE "invalid"
  /\ pc' = "idle"
  /\ UNCHANGED <<tree, temp, level, proof, index, current, history>>

-----------------------------------------------------------------------------
Next ==
  \/ BuildEmpty
  \/ \E list \in LeafLists : StartBuild(list)
  \/ CountHeight
  \/ HashLeaves
  \/ HashRow
  \/ FinishBuild
  \/ \E i \in 0 .. Len(leaves) : RefuseProof(i) \/ StartProof(i)
  \/ AddSibling
  \/ FinishProof
  \/ RefuseVerify
  \/ StartVerify
  \/ FoldSibling
  \/ CompareRoot

Spec == Init /\ [][Next]_vars

-----------------------------------------------------------------------------
(* Properties.                                                             *)

\* The height the first loop counts is the number of rows the second needs
\* to come down to one hash, and what build_tree returns is that hash: not
\* an empty vector, and not a row that was never filled (merkle.cpp:34-44,
\* 63, 90).
RootIsOneHash ==
  pc \notin {"height", "rows"} /\ leaves # <<>> => Len(root) = 1

\* The root commits to the leaves, their order and their number: two lists
\* with one root are the same list, odd lists and padded ones included.
RootCommits ==
  pc \notin {"height", "rows"} /\ root = earlier.root /\ root # <<>>
    => leaves = earlier.leaves

\* After build_tree of an empty list nothing of the last tree, which
\* tree_nodes_ still holds, can get into a proof: only an empty one is
\* generated, until the next build (merkle.cpp:25-30, 98).
NoStaleTree ==
  leaves = <<>> /\ builds > 0 => pc # "path"

\* What verify_proof says of a generated proof, at any later time and
\* whatever has been built since: it is valid exactly when the tree had two
\* leaves or more and no node on the path lacks a sibling.
VerdictExplained ==
  verdict # "none" =>
    (verdict = "valid"
       <=> origin # <<>> /\ Verifies(Len(origin[1]), proof.leafIndex))

\* The README has the prover generate an inclusion proof for a leaf index
\* and verify it (README.md:118-121); a proof from a tree of two leaves or
\* more would verify.  It does not when an odd node is on its path: the tree
\* hashes that node alone, the proof has it as its own sibling.
GeneratedProofVerifies == verdict = "invalid" => Len(origin) <= 1
=============================================================================
