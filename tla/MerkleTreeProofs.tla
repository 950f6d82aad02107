-------------------------- MODULE MerkleTreeProofs --------------------------
(***************************************************************************)
(* Proofs about MerkleTree, for lists of any lengths and any number of     *)
(* builds, proofs and verifications.                                       *)
(*                                                                         *)
(* The rows.  build_tree has two loops that must agree: one counts how     *)
(* often the number of leaves can be halved, the other fills that many     *)
(* rows.  What ties them is RowLength: the counter of the first loop is    *)
(* the length that row treeHeight is going to have.                        *)
(*                                                                         *)
(* The root.  A row is determined by the row above it, so two towers of    *)
(* rows that end in one root are the same from the top down, and the       *)
(* shorter one ends at its leaves where the other must have leaves too.    *)
(*                                                                         *)
(* The verdict.  What verify_proof has folded together is the node above   *)
(* the leaf as long as every node on the way had a sibling; after one that *)
(* had none it never is again.                                             *)
(***************************************************************************)
EXTENDS MerkleTree, SequenceTheorems, Arithmetic

IsRow(row, n) == n \in Nat \ {0} /\ Len(row) = n /\ row = [i \in 1 .. n |-> row[i]]

\* R holds rows 0 to h of a tree of n leaves.
Tower(R, n, h) ==
  /\ \A l \in 0 .. h : IsRow(R[l + 1], RowLength(n, l))
  /\ \A l \in 0 .. h - 1 : R[l + 2] = ParentRow(R[l + 1])

\* It takes h halvings to come down from n leaves to one node.
Height(n, h) ==
  /\ h \in Nat /\ h < n
  /\ RowLength(n, h) = 1
  /\ \A l \in 0 .. h - 1 : RowLength(n, l) > 1

WholeTree(R, n, h) == Height(n, h) /\ DOMAIN R = 1 .. h + 1 /\ Tower(R, n, h)

LeafRow(list) == [i \in 1 .. Len(list) |-> HashLeaf(list[i])]

Commits(list, top) ==
  \E h \in Nat : \E R :
    WholeTree(R, Len(list), h) /\ R[1] = LeafRow(list) /\ top = R[h + 1]

Counts ==
  /\ leafCount \in Nat
  /\ treeHeight \in Nat
  /\ builds \in Nat
  /\ leaves = <<>> \/ leaves \in LeafLists
  /\ builds = 0 => leaves = <<>> /\ rows = <<>>

HeightCounted ==
  pc = "height" =>
    /\ leaves # <<>> /\ leafCount = Len(leaves)
    /\ temp = RowLength(leafCount, treeHeight)
    /\ treeHeight + temp <= leafCount
    /\ \A l \in 0 .. treeHeight - 1 : RowLength(leafCount, l) > 1

RowsFollow ==
  pc = "rows" =>
    /\ leaves # <<>> /\ leafCount = Len(leaves)
    /\ Height(leafCount, treeHeight)
    /\ DOMAIN rows = 1 .. treeHeight + 1
    /\ level \in 0 .. treeHeight
    /\ rows[1] = LeafRow(leaves)
    /\ Tower(rows, leafCount, level)

TreeStands ==
  pc \notin {"height", "rows"} =>
    IF leaves = <<>>
    THEN root = <<>> /\ (builds > 0 => leafCount = 0) /\ pc # "path"
    ELSE /\ leafCount = Len(leaves)
         /\ WholeTree(rows, leafCount, treeHeight)
         /\ rows[1] = LeafRow(leaves)
         /\ root = rows[treeHeight + 1]

EarlierStands ==
  IF earlier.leaves = <<>> THEN earlier.root = <<>>
  ELSE earlier.leaves \in LeafLists /\ Commits(earlier.leaves, earlier.root)

TreeInv == Counts /\ HeightCounted /\ RowsFollow /\ TreeStands /\ EarlierStands

\* The node of row l above leaf i, and what a proof has for its sibling.
Node(R, i, l) == NodeAt(R[l + 1], NodeAbove(i, l))
Sibling(R, i, l) ==
  LET s == SiblingIndex(NodeAbove(i, l))
  IN  NodeAt(R[l + 1], IF s < Len(R[l + 1]) THEN s ELSE NodeAbove(i, l))
Odd(n, i, l) == NodeAbove(i, l) % 2 = 0 /\ NodeAbove(i, l) + 1 = RowLength(n, l)

\* `proof` was generated from the rows in `origin`, of a tree of n leaves.
ProofOf(n, h) ==
  LET i == proof.leafIndex
      steps == IF pc = "path" THEN level ELSE h
  IN  /\ WholeTree(origin, n, h)
      /\ i \in 0 .. n - 1
      /\ proof.leaf = Node(origin, i, 0)
      /\ proof.root = origin[h + 1]
      /\ proof.siblings = [l \in 1 .. steps |-> Sibling(origin, i, l - 1)]

\* generate_proof and verify_proof on their way up.
Climbing(n, h) ==
  LET i == proof.leafIndex IN
  /\ pc \in {"path", "verify"} => level \in 0 .. h /\ index = NodeAbove(i, level)
  /\ pc = "path" => origin = rows /\ h = treeHeight
  /\ pc = "verify" =>
       /\ h > 0
       /\ current = Node(origin, i, level) <=> \A l \in 0 .. level - 1 : ~Odd(n, i, l)

ProofStands ==
  /\ DOMAIN proof = {"leaf", "leafIndex", "siblings", "root"}
  /\ IF origin = <<>>
     THEN pc \notin {"path", "verify"} /\ proof.siblings = <<>>
     ELSE \E n, h \in Nat : ProofOf(n, h) /\ Climbing(n, h)

ProofInv == ProofStands /\ VerdictExplained

IInv == TreeInv /\ ProofInv

-----------------------------------------------------------------------------
(***************************************************************************)
(* Lengths.                                                                *)
(***************************************************************************)
LEMMA FunctionLen ==
  ASSUME NEW n \in Nat, NEW S, NEW s \in [1 .. n -> S]
  PROVE  Len(s) = n
<1>1. s \in Seq(S)
  OBVIOUS
<1> QED
  BY <1>1

\* A function on 1 .. n is a row of n.
LEMMA RowOf ==
  ASSUME NEW n \in Nat \ {0}, NEW row, DOMAIN row = 1 .. n, row = [i \in 1 .. n |-> row[i]]
  PROVE  IsRow(row, n)
<1> DEFINE S == {row[i] : i \in 1 .. n}
<1>1. row \in [1 .. n -> S]
  OBVIOUS
<1> HIDE DEF S
<1>2. Len(row) = n
  BY <1>1, FunctionLen
<1> QED
  BY <1>2 DEF IsRow

\* The row above has half as many nodes, rounded up, and never none.
LEMMA NextRowLength ==
  ASSUME NEW n \in Nat, NEW l \in Nat
  PROVE  /\ RowLength(n, l) \in Nat
         /\ n # 0 => RowLength(n, l) # 0
         /\ RowLength(n, l + 1) = HalfUp(RowLength(n, l))
<1>1. 2 ^ (l + 1) = 2 * 2 ^ l /\ 2 ^ l \in Nat \ {0}
  BY PowerDoubles
<1> DEFINE p == 2 ^ l
<1>2. RowLength(n, l + 1) = (n + 2 * p - 1) \div (2 * p) /\ RowLength(n, l) = (n + p - 1) \div p
  BY <1>1 DEF RowLength
<1>3. p \in Nat \ {0}
  BY <1>1
<1> HIDE DEF p
<1>4. ((n + p - 1) \div p + 1) \div 2 = (n + 2 * p - 1) \div (2 * p)
  BY <1>3, HalfUpTwice
<1>5. (n + p - 1) \div p \in Nat /\ (n # 0 => (n + p - 1) \div p # 0)
  BY <1>3
<1> QED
  BY <1>2, <1>4, <1>5 DEF HalfUp

\* The lowest row has the leaves.
LEMMA LowestRowLength ==
  ASSUME NEW n \in Nat
  PROVE  RowLength(n, 0) = n
BY DEF RowLength

\* The row above is half as long, rounded up.
LEMMA ParentIsRow ==
  ASSUME NEW row, NEW n, IsRow(row, n)
  PROVE  IsRow(ParentRow(row), HalfUp(n))
<1>1. HalfUp(n) \in Nat \ {0} /\ Len(row) = n
  BY DEF IsRow, HalfUp
<1>2. /\ DOMAIN ParentRow(row) = 1 .. HalfUp(n)
      /\ ParentRow(row) = [k \in 1 .. HalfUp(n) |-> ParentRow(row)[k]]
  BY <1>1 DEF ParentRow, HalfUp
<1> QED
  BY <1>1, <1>2, RowOf

\* A list of leaves has a length, and is given by its elements.
LEMMA ListLen ==
  ASSUME NEW list \in LeafLists
  PROVE  /\ Len(list) \in Nat
         /\ list # <<>> => Len(list) # 0
         /\ list = [i \in 1 .. Len(list) |-> list[i]]
<1> DEFINE S == {list[i] : i \in DOMAIN list}
<1>1. list \in Seq(S)
  BY MerkleAssumption
<1> HIDE DEF S
<1> QED
  BY <1>1, EmptySeq

\* There is a hash for each leaf.
LEMMA LeafRowIsRow ==
  ASSUME NEW list \in LeafLists, list # <<>>
  PROVE  IsRow(LeafRow(list), Len(list))
<1>1. Len(list) \in Nat \ {0}
  BY ListLen
<1>2. /\ DOMAIN LeafRow(list) = 1 .. Len(list)
      /\ LeafRow(list) = [i \in 1 .. Len(list) |-> LeafRow(list)[i]]
  BY DEF LeafRow
<1> QED
  BY <1>1, <1>2, RowOf

-----------------------------------------------------------------------------
(***************************************************************************)
(* The root commits to the leaves.                                         *)
(***************************************************************************)
\* A hash tells what was hashed.
LEMMA HashTells ==
  ASSUME NEW a, NEW b, NEW c, NEW d
  PROVE  /\ HashLeaf(a) = HashLeaf(b) => a = b
         /\ HashPair(a, b) = HashPair(c, d) => a = c /\ b = d
         /\ HashSingle(a) = HashSingle(b) => a = b
         /\ HashLeaf(a) # HashPair(c, d) /\ HashLeaf(a) # HashSingle(c)
         /\ HashPair(a, b) # HashSingle(c)
BY DEF HashLeaf, HashPair, HashSingle

\* No two rows, of whatever lengths, have the same parents.
LEMMA ParentTells ==
  ASSUME NEW r, NEW s, NEW m, NEW n, IsRow(r, m), IsRow(s, n), ParentRow(r) = ParentRow(s)
  PROVE  r = s
<1>1. m \in Nat \ {0} /\ n \in Nat \ {0} /\ Len(r) = m /\ Len(s) = n
  BY DEF IsRow
<1>2. (m + 1) \div 2 = (n + 1) \div 2
  <2>1. DOMAIN ParentRow(r) = 1 .. (m + 1) \div 2 /\ DOMAIN ParentRow(s) = 1 .. (n + 1) \div 2
    BY <1>1 DEF ParentRow
  <2> QED
    BY <1>1, <2>1
<1>3. ASSUME NEW j \in 1 .. (m + 1) \div 2
      PROVE  /\ 2 * j <= m <=> 2 * j <= n
             /\ r[2 * j - 1] = s[2 * j - 1]
             /\ 2 * j <= m => r[2 * j] = s[2 * j]
  <2>1. (IF 2 * j <= m THEN HashPair(r[2 * j - 1], r[2 * j]) ELSE HashSingle(r[2 * j - 1]))
        = (IF 2 * j <= n THEN HashPair(s[2 * j - 1], s[2 * j]) ELSE HashSingle(s[2 * j - 1]))
    <3>1. ParentRow(r)[j] = ParentRow(s)[j]
      OBVIOUS
    <3> QED
      BY <1>1, <1>2, <3>1 DEF ParentRow
  <2> QED
    BY <2>1, HashTells
<1>4. m = n
  <2> DEFINE j == (m + 1) \div 2
  <2>1. j \in 1 .. (m + 1) \div 2
    BY <1>1
  <2>2. 2 * j <= m <=> 2 * j <= n
    BY <1>3, <2>1
  <2> QED
    BY <1>1, <1>2, <2>2
<1>5. ASSUME NEW k \in 1 .. m PROVE r[k] = s[k]
  <2> DEFINE j == (k + 1) \div 2
  <2>1. j \in 1 .. (m + 1) \div 2 /\ (k = 2 * j - 1 \/ (k = 2 * j /\ 2 * j <= m))
    BY <1>1
  <2> HIDE DEF j
  <2> QED
    BY <1>3, <2>1
<1> QED
  BY <1>4, <1>5 DEF IsRow

\* No row above the leaves begins with the hash of a leaf.
LEMMA ParentIsNoLeafRow ==
  ASSUME NEW row, NEW n, IsRow(row, n), NEW list, Len(list) \in Nat \ {0}
  PROVE  ParentRow(row) # LeafRow(list)
<1>1. \E a, b : ParentRow(row)[1] = HashPair(a, b) \/ ParentRow(row)[1] = HashSingle(a)
  <2>1. n \in Nat \ {0} /\ Len(row) = n /\ 1 \in 1 .. (n + 1) \div 2
    BY DEF IsRow
  <2>2. ParentRow(row)[1] = IF 2 * 1 <= n THEN HashPair(row[2 * 1 - 1], row[2 * 1])
                                          ELSE HashSingle(row[2 * 1 - 1])
    BY <2>1 DEF ParentRow
  <2> QED
    BY <2>2
<1>2. LeafRow(list)[1] = HashLeaf(list[1])
  BY DEF LeafRow
<1> QED
  BY <1>1, <1>2, HashTells

\* Two towers that end in one row are the same as far down as the lower goes.
LEMMA TowersMeet ==
  ASSUME NEW a, NEW b, Len(a) \in Nat \ {0}, Len(b) \in Nat \ {0},
         NEW R, NEW Q, NEW h, NEW g, WholeTree(R, Len(a), h), WholeTree(Q, Len(b), g),
         R[1] = LeafRow(a), Q[1] = LeafRow(b), R[h + 1] = Q[g + 1], h <= g
  PROVE  LeafRow(a) = LeafRow(b)
<1> DEFINE Same == {k \in Nat : R[h - k + 1] = Q[g - k + 1]}
<1>1. h \in Nat /\ g \in Nat
  BY DEF WholeTree, Height
<1>2. 0 \in Same
  BY <1>1
<1>3. ASSUME NEW k \in 0 .. h - 1, k \in Same PROVE k + 1 \in Same
  <2> DEFINE l == h - k - 1
             m == g - k - 1
  <2>1. l \in 0 .. h - 1 /\ m \in 0 .. g - 1 /\ l \in 0 .. h /\ m \in 0 .. g
    BY <1>1
  <2>2. R[l + 2] = Q[m + 2]
    BY <1>1, <1>3
  <2>3. R[l + 2] = ParentRow(R[l + 1]) /\ Q[m + 2] = ParentRow(Q[m + 1])
    BY <2>1 DEF WholeTree, Tower
  <2>4. IsRow(R[l + 1], RowLength(Len(a), l)) /\ IsRow(Q[m + 1], RowLength(Len(b), m))
    BY <2>1 DEF WholeTree, Tower
  <2> HIDE DEF l, m
  <2>5. R[l + 1] = Q[m + 1]
    BY <2>2, <2>3, <2>4, ParentTells
  <2> USE DEF l, m
  <2>6. R[h - (k + 1) + 1] = Q[g - (k + 1) + 1]
    <3>1. h - (k + 1) + 1 = l + 1 /\ g - (k + 1) + 1 = m + 1
      BY <1>1
    <3> QED
      BY <2>5, <3>1
  <2> QED
    BY <2>6
<1>4. h \in Same
  <2> HIDE DEF Same
  <2>1. \A k \in 0 .. h : k \in Same
    BY <1>1, <1>2, <1>3, InductionTo
  <2> QED
    BY <1>1, <2>1
<1>5. LeafRow(a) = Q[g - h + 1]
  BY <1>1, <1>4
<1>6. ASSUME g > h PROVE FALSE
  <2> DEFINE m == g - h - 1
  <2>1. m \in 0 .. g - 1 /\ m \in 0 .. g /\ g - h + 1 = m + 2
    BY <1>1, <1>6
  <2>2. Q[m + 2] = ParentRow(Q[m + 1]) /\ IsRow(Q[m + 1], RowLength(Len(b), m))
    BY <2>1 DEF WholeTree, Tower
  <2> HIDE DEF m
  <2>3. ParentRow(Q[m + 1]) = LeafRow(a)
    BY <1>5, <2>1, <2>2
  <2> QED
    BY <2>2, <2>3, ParentIsNoLeafRow
<1>7. g - h + 1 = 1
  BY <1>1, <1>6
<1> QED
  BY <1>5, <1>7

\* No two lists have the same hashes of leaves.
LEMMA LeafRowTells ==
  ASSUME NEW a \in LeafLists, NEW b \in LeafLists, LeafRow(a) = LeafRow(b)
  PROVE  a = b
<1>1. /\ Len(a) \in Nat /\ a = [i \in 1 .. Len(a) |-> a[i]]
      /\ Len(b) \in Nat /\ b = [i \in 1 .. Len(b) |-> b[i]]
  BY ListLen
<1>2. Len(a) = Len(b)
  <2>1. 1 .. Len(a) = 1 .. Len(b)
    BY DEF LeafRow
  <2> DEFINE m == Len(a)
             n == Len(b)
  <2> HIDE DEF m, n
  <2>2. \A i \in Nat : i \in 1 .. m <=> i \in 1 .. n
    BY <2>1 DEF m, n
  <2>3. m \in Nat /\ n \in Nat
    BY <1>1 DEF m, n
  <2>4. m = n
    BY <2>2, <2>3
  <2> QED
    BY <2>4 DEF m, n
<1>3. ASSUME NEW i \in 1 .. Len(a) PROVE a[i] = b[i]
  <2>1. LeafRow(a)[i] = HashLeaf(a[i]) /\ LeafRow(b)[i] = HashLeaf(b[i])
    BY <1>2 DEF LeafRow
  <2> QED
    BY <2>1, HashTells
<1> QED
  BY <1>1, <1>2, <1>3

\* No two lists have the same root.
LEMMA OneRootOneList ==
  ASSUME NEW a \in LeafLists, NEW b \in LeafLists, a # <<>>, b # <<>>,
         NEW top, Commits(a, top), Commits(b, top)
  PROVE  a = b
<1>1. Len(a) \in Nat \ {0} /\ Len(b) \in Nat \ {0}
  BY ListLen
<1>2. PICK h \in Nat : \E R :
        WholeTree(R, Len(a), h) /\ R[1] = LeafRow(a) /\ top = R[h + 1]
  BY DEF Commits
<1>3. PICK R : WholeTree(R, Len(a), h) /\ R[1] = LeafRow(a) /\ top = R[h + 1]
  BY <1>2
<1>4. PICK g \in Nat : \E Q :
        WholeTree(Q, Len(b), g) /\ Q[1] = LeafRow(b) /\ top = Q[g + 1]
  BY DEF Commits
<1>5. PICK Q : WholeTree(Q, Len(b), g) /\ Q[1] = LeafRow(b) /\ top = Q[g + 1]
  BY <1>4
<1>6. LeafRow(a) = LeafRow(b)
  <2>1. CASE h <= g
    BY <1>1, <1>3, <1>5, <2>1, TowersMeet
  <2>2. CASE g <= h
    BY <1>1, <1>3, <1>5, <2>2, TowersMeet
  <2> QED
    BY <2>1, <2>2
<1> QED
  BY <1>6, LeafRowTells

-----------------------------------------------------------------------------
(***************************************************************************)
(* The steps of a build.                                                   *)
(***************************************************************************)
LEMMA BuildStarts ==
  ASSUME NEW list \in LeafLists, StartBuild(list), TreeInv
  PROVE  TreeInv'
<1>1. /\ pc = "idle" /\ pc' = "height" /\ leafCount' = Len(list) /\ treeHeight' = 0
      /\ temp' = Len(list) /\ leaves' = list /\ list # <<>> /\ builds' = builds + 1
      /\ earlier' = [leaves |-> leaves, root |-> root] /\ rows' = rows
  BY DEF StartBuild, RecordBuild
<1>2. Len(list) \in Nat \ {0}
  BY <1>1, ListLen
<1>3. EarlierStands'
  <2>1. CASE leaves = <<>>
    BY <1>1, <2>1 DEF TreeInv, TreeStands, EarlierStands
  <2>2. CASE leaves # <<>>
    <3>1. /\ leaves \in LeafLists /\ WholeTree(rows, Len(leaves), treeHeight)
          /\ rows[1] = LeafRow(leaves) /\ root = rows[treeHeight + 1] /\ treeHeight \in Nat
      BY <1>1, <2>2 DEF TreeInv, Counts, TreeStands
    <3>2. Commits(leaves, root)
      BY <3>1 DEF Commits
    <3> QED
      BY <1>1, <2>2, <3>1, <3>2 DEF EarlierStands
  <2> QED
    BY <2>1, <2>2
<1>4. HeightCounted'
  BY <1>1, <1>2, LowestRowLength DEF HeightCounted
<1> QED
  BY <1>1, <1>2, <1>3, <1>4 DEF TreeInv, Counts, RowsFollow, TreeStands

\* The passes of build_tree keep what is known of the tree: the loop that counts,
LEMMA HeightGrows ==
  ASSUME CountHeight, TreeInv
  PROVE  TreeInv'
<1>1. /\ pc = "height" /\ pc' = "height" /\ temp > 1 /\ temp' = HalfUp(temp)
      /\ treeHeight' = treeHeight + 1
      /\ UNCHANGED <<rows, leafCount, leaves, earlier, builds>>
  BY DEF CountHeight, history
<1>2. treeHeight \in Nat /\ leafCount \in Nat
  BY DEF TreeInv, Counts
<1>3. /\ temp = RowLength(leafCount, treeHeight) /\ temp \in Nat
      /\ RowLength(leafCount, treeHeight + 1) = HalfUp(temp)
      /\ treeHeight + temp <= leafCount
  BY <1>1, <1>2, NextRowLength DEF TreeInv, HeightCounted
<1>4. treeHeight + 1 + HalfUp(temp) <= leafCount
  BY <1>1, <1>2, <1>3 DEF HalfUp
<1>5. ASSUME NEW l \in 0 .. treeHeight PROVE RowLength(leafCount, l) > 1
  <2>1. CASE l = treeHeight
    BY <1>1, <1>3, <2>1
  <2>2. CASE l \in 0 .. treeHeight - 1
    BY <1>1, <2>2 DEF TreeInv, HeightCounted
  <2> QED
    BY <1>2, <2>1, <2>2
<1>6. HeightCounted'
  BY <1>1, <1>2, <1>3, <1>4, <1>5 DEF TreeInv, HeightCounted
<1> QED
  BY <1>1, <1>2, <1>6 DEF TreeInv, Counts, RowsFollow, TreeStands, EarlierStands

\* the one that hashes the leaves,
LEMMA LeavesFill ==
  ASSUME HashLeaves, TreeInv
  PROVE  TreeInv'
<1> DEFINE all == [l \in 1 .. treeHeight + 1 |->
                     IF l = 1 THEN [i \in 1 .. leafCount |-> HashLeaf(leaves[i])] ELSE <<>>]
<1>1. /\ pc = "height" /\ pc' = "rows" /\ temp <= 1 /\ rows' = all /\ level' = 0
      /\ UNCHANGED <<leafCount, treeHeight, leaves, earlier, builds>>
  BY DEF HashLeaves, history
<1>2. /\ treeHeight \in Nat /\ leafCount = Len(leaves) /\ leaves \in LeafLists
      /\ leaves # <<>> /\ leafCount \in Nat \ {0}
  BY <1>1, ListLen DEF TreeInv, Counts, HeightCounted
<1>3. Height(leafCount, treeHeight)
  <2>1. temp = RowLength(leafCount, treeHeight) /\ temp \in Nat /\ treeHeight + temp <= leafCount
    BY <1>1, <1>2, NextRowLength DEF TreeInv, HeightCounted
  <2>2. temp # 0
    BY <1>2, <2>1, NextRowLength
  <2> QED
    BY <1>1, <1>2, <2>1, <2>2 DEF Height, TreeInv, HeightCounted
<1>4. DOMAIN all = 1 .. treeHeight + 1 /\ all[1] = LeafRow(leaves)
  BY <1>2 DEF LeafRow
<1> HIDE DEF all
<1>5. Tower(all, leafCount, 0)
  BY <1>2, <1>4, LeafRowIsRow, LowestRowLength DEF Tower
<1>6. RowsFollow'
  BY <1>1, <1>2, <1>3, <1>4, <1>5 DEF RowsFollow
<1> QED
  BY <1>1, <1>2, <1>6 DEF TreeInv, Counts, HeightCounted, TreeStands, EarlierStands

\* the one that hashes a row,
LEMMA RowFills ==
  ASSUME HashRow, TreeInv
  PROVE  TreeInv'
<1>1. /\ pc = "rows" /\ pc' = "rows" /\ level < treeHeight /\ level' = level + 1
      /\ rows' = [rows EXCEPT ![level + 2] = ParentRow(rows[level + 1])]
      /\ UNCHANGED <<leafCount, treeHeight, leaves, earlier, builds>>
  BY DEF HashRow, history
<1>2. /\ treeHeight \in Nat /\ leafCount \in Nat /\ level \in 0 .. treeHeight
      /\ DOMAIN rows = 1 .. treeHeight + 1 /\ Tower(rows, leafCount, level)
      /\ rows[1] = LeafRow(leaves)
  BY <1>1 DEF TreeInv, Counts, RowsFollow
<1>3. /\ DOMAIN rows' = 1 .. treeHeight + 1 /\ rows'[level + 2] = ParentRow(rows[level + 1])
      /\ \A l \in 0 .. level : rows'[l + 1] = rows[l + 1]
  BY <1>1, <1>2
<1>4. IsRow(rows'[level + 2], RowLength(leafCount, level + 1))
  <2>1. IsRow(rows[level + 1], RowLength(leafCount, level)) /\ level \in Nat
    BY <1>2 DEF Tower
  <2> QED
    BY <1>2, <1>3, <2>1, ParentIsRow, NextRowLength
<1>5. Tower(rows', leafCount, level + 1)
  <2>1. ASSUME NEW l \in 0 .. level + 1 PROVE IsRow(rows'[l + 1], RowLength(leafCount, l))
    <3>1. CASE l = level + 1
      BY <1>2, <1>4, <3>1
    <3>2. CASE l \in 0 .. level
      BY <1>2, <1>3, <3>2 DEF Tower
    <3> QED
      BY <1>2, <3>1, <3>2
  <2>2. ASSUME NEW l \in 0 .. level PROVE rows'[l + 2] = ParentRow(rows'[l + 1])
    <3>1. CASE l = level
      BY <1>2, <1>3, <3>1
    <3>2. CASE l \in 0 .. level - 1
      <4>1. rows[l + 2] = ParentRow(rows[l + 1])
        BY <1>2, <3>2 DEF Tower
      <4>2. rows'[(l + 1) + 1] = rows[(l + 1) + 1] /\ rows'[l + 1] = rows[l + 1]
        BY <1>2, <1>3, <3>2
      <4> QED
        BY <3>2, <4>1, <4>2
    <3> QED
      BY <1>2, <3>1, <3>2
  <2> QED
    BY <1>2, <2>1, <2>2 DEF Tower
<1>6. RowsFollow'
  <2>1. rows'[1] = LeafRow(leaves)
    BY <1>2, <1>3
  <2> QED
    BY <1>1, <1>2, <1>3, <1>5, <2>1 DEF TreeInv, RowsFollow
<1> QED
  BY <1>1, <1>2, <1>6 DEF TreeInv, Counts, HeightCounted, RowsFollow, TreeStands, EarlierStands

\* the end of the build,
LEMMA BuildFinishes ==
  ASSUME FinishBuild, TreeInv
  PROVE  TreeInv'
<1>1. /\ pc = "rows" /\ pc' = "idle" /\ level >= treeHeight /\ root' = rows[treeHeight + 1]
      /\ UNCHANGED <<rows, leafCount, treeHeight, leaves, earlier, builds>>
  BY DEF FinishBuild, history
<1>2. level = treeHeight
  BY <1>1 DEF TreeInv, Counts, RowsFollow
<1>3. TreeStands'
  BY <1>1, <1>2 DEF TreeInv, RowsFollow, TreeStands, WholeTree
<1> QED
  BY <1>1, <1>3 DEF TreeInv, Counts, HeightCounted, RowsFollow, EarlierStands

\* and the build of no leaves.
LEMMA Emptied ==
  ASSUME BuildEmpty, TreeInv
  PROVE  TreeInv'
<1>1. /\ pc = "idle" /\ pc' = "idle" /\ root' = <<>> /\ leafCount' = 0 /\ treeHeight' = 0
      /\ leaves' = <<>> /\ builds' = builds + 1
      /\ earlier' = [leaves |-> leaves, root |-> root] /\ rows' = rows
  BY DEF BuildEmpty, ClearRoot, RecordBuild
<1>2. EarlierStands'
  <2>1. CASE leaves = <<>>
    BY <1>1, <2>1 DEF TreeInv, TreeStands, EarlierStands
  <2>2. CASE leaves # <<>>
    <3>1. /\ leaves \in LeafLists /\ WholeTree(rows, Len(leaves), treeHeight)
          /\ rows[1] = LeafRow(leaves) /\ root = rows[treeHeight + 1] /\ treeHeight \in Nat
      BY <1>1, <2>2 DEF TreeInv, Counts, TreeStands
    <3>2. Commits(leaves, root)
      BY <3>1 DEF Commits
    <3> QED
      BY <1>1, <2>2, <3>1, <3>2 DEF EarlierStands
  <2> QED
    BY <2>1, <2>2
<1> QED
  BY <1>1, <1>2 DEF TreeInv, Counts, HeightCounted, RowsFollow, TreeStands

\* Proofs and verifications leave the tree alone.
LEMMA TreeUntouched ==
  ASSUME UNCHANGED <<tree, leaves, earlier, builds>>, TreeInv,
         pc' \in {"idle", "path", "verify"}, pc \in {"idle", "path", "verify"},
         pc' = "path" /\ pc # "path" => leaves # <<>>
  PROVE  TreeInv'
BY DEF tree, TreeInv, Counts, HeightCounted, RowsFollow, TreeStands, EarlierStands

-----------------------------------------------------------------------------
(***************************************************************************)
(* The way up from a leaf.                                                 *)
(***************************************************************************)
LEMMA NodesAbove ==
  ASSUME NEW n \in Nat, NEW i \in 0 .. n - 1, NEW l \in Nat
  PROVE  /\ NodeAbove(i, l) \in Nat /\ NodeAbove(i, l) < RowLength(n, l)
         /\ NodeAbove(i, l + 1) = ParentIndex(NodeAbove(i, l))
<1>1. 2 ^ (l + 1) = 2 * 2 ^ l /\ 2 ^ l \in Nat \ {0}
  BY PowerDoubles
<1> DEFINE p == 2 ^ l
<1>2. /\ NodeAbove(i, l) = i \div p /\ NodeAbove(i, l + 1) = i \div (2 * p)
      /\ RowLength(n, l) = (n + p - 1) \div p
  BY <1>1 DEF NodeAbove, RowLength
<1>3. p \in Nat \ {0} /\ i \in Nat
  BY <1>1
<1> HIDE DEF p
<1>4. (i \div p) \div 2 = i \div (2 * p)
  BY <1>3, HalfDownTwice
<1>5. i \div p \in Nat /\ i \div p < (n + p - 1) \div p
  <2>1. (i + p) \div p = i \div p + 1 /\ i \div p \in Nat
    BY <1>3
  <2>2. (i + p) \div p <= (n + p - 1) \div p
    BY <1>3
  <2> QED
    BY <1>3, <2>1, <2>2
<1> QED
  BY <1>2, <1>4, <1>5 DEF ParentIndex

\* No row up, a node is itself.
LEMMA LowestNode ==
  ASSUME NEW i \in Nat
  PROVE  NodeAbove(i, 0) = i
BY DEF NodeAbove

\* Only the rows below the root have more than one node.
LEMMA RowsAboveRoot ==
  ASSUME NEW n \in Nat, NEW h, Height(n, h), NEW l \in Nat, RowLength(n, l) > 1
  PROVE  l \in 0 .. h - 1
<1> DEFINE Single == {k \in Nat : RowLength(n, h + k) = 1}
<1>1. h \in Nat /\ 0 \in Single
  BY DEF Height
<1>2. ASSUME NEW k \in Nat, k \in Single PROVE k + 1 \in Single
  <2>1. RowLength(n, h + k) = 1 /\ h + k \in Nat
    BY <1>1, <1>2
  <2>2. RowLength(n, (h + k) + 1) = HalfUp(1)
    BY <2>1, NextRowLength
  <2>3. (h + k) + 1 = h + (k + 1)
    BY <1>1
  <2> QED
    BY <2>2, <2>3 DEF HalfUp
<1>3. \A k \in Nat : k \in Single
  <2> HIDE DEF Single
  <2> QED
    BY <1>1, <1>2, Induction
<1>4. ASSUME l >= h PROVE FALSE
  <2>1. l - h \in Nat /\ h + (l - h) = l
    BY <1>1, <1>4
  <2> QED
    BY <1>3, <2>1
<1> QED
  BY <1>1, <1>4

\* A proof verifies when the tree has a row below the root and no node on
\* the way lacks a sibling.
LEMMA VerifiesMeans ==
  ASSUME NEW n \in Nat, NEW h, Height(n, h), NEW i \in 0 .. n - 1
  PROVE  Verifies(n, i) <=> h > 0 /\ \A l \in 0 .. h - 1 : ~Odd(n, i, l)
<1>1. h \in Nat /\ h < n /\ \A l \in 0 .. h - 1 : RowLength(n, l) > 1
  BY DEF Height
<1>2. n > 1 <=> h > 0
  <2>1. RowLength(n, 0) = n
    BY LowestRowLength
  <2>2. h = 0 => n = 1
    BY <2>1 DEF Height
  <2> QED
    BY <1>1, <2>2
<1>3. MeetsOddNode(n, i) <=> \E l \in 0 .. h - 1 : Odd(n, i, l)
  <2>1. ASSUME NEW l \in 0 .. h - 1, Odd(n, i, l) PROVE MeetsOddNode(n, i)
    <3>1. l \in 0 .. n - 1 /\ RowLength(n, l) > 1
      BY <1>1
    <3> QED
      BY <2>1, <3>1 DEF MeetsOddNode, Odd
  <2>2. ASSUME NEW l \in 0 .. n - 1, RowLength(n, l) > 1,
               NodeAbove(i, l) % 2 = 0, NodeAbove(i, l) + 1 = RowLength(n, l)
        PROVE  l \in 0 .. h - 1 /\ Odd(n, i, l)
    BY <2>2, RowsAboveRoot DEF Odd
  <2> QED
    BY <2>1, <2>2 DEF MeetsOddNode
<1> QED
  BY <1>2, <1>3 DEF Verifies

\* One step up: from the node itself, and from nothing else, to its parent,
\* unless it has no sibling.
LEMMA FoldIsParent ==
  ASSUME NEW n \in Nat, NEW h, NEW R, WholeTree(R, n, h), NEW i \in 0 .. n - 1,
         NEW l \in 0 .. h - 1, NEW c
  PROVE  (IF NodeAbove(i, l) % 2 = 0 THEN HashPair(c, Sibling(R, i, l))
                                     ELSE HashPair(Sibling(R, i, l), c)) = Node(R, i, l + 1)
         <=> c = Node(R, i, l) /\ ~Odd(n, i, l)
<1> DEFINE x == NodeAbove(i, l)
           m == RowLength(n, l)
           row == R[l + 1]
<1>1. h \in Nat /\ l \in Nat
  BY DEF WholeTree, Height
<1>2. /\ x \in Nat /\ x < m /\ m \in Nat /\ m > 1
      /\ NodeAbove(i, l + 1) = x \div 2
  BY <1>1, NodesAbove, NextRowLength DEF WholeTree, Height, ParentIndex
<1>3. Len(row) = m /\ R[l + 2] = ParentRow(row)
  <2>1. l \in 0 .. h
    BY <1>1
  <2> QED
    BY <2>1 DEF WholeTree, Tower, IsRow
<1> DEFINE j == x \div 2 + 1
<1>4. Node(R, i, l + 1) = IF 2 * j <= m THEN HashPair(row[2 * j - 1], row[2 * j])
                                         ELSE HashSingle(row[2 * j - 1])
  <2>1. Node(R, i, l + 1) = ParentRow(row)[j]
    <3>1. l + 1 + 1 = l + 2
      BY <1>1
    <3> QED
      BY <1>2, <1>3, <3>1 DEF Node, NodeAt
  <2>2. j \in 1 .. (m + 1) \div 2
    BY <1>2
  <2> HIDE DEF j, x, row
  <2> QED
    BY <1>3, <2>1, <2>2 DEF ParentRow
<1>5. /\ Node(R, i, l) = row[x + 1]
      /\ Sibling(R, i, l) = row[(IF SiblingIndex(x) < m THEN SiblingIndex(x) ELSE x) + 1]
      /\ Odd(n, i, l) <=> x % 2 = 0 /\ x + 1 = m
  BY <1>3 DEF Node, Sibling, Odd, NodeAt
<1> HIDE DEF x, m, row
<1>6. CASE x % 2 = 0
  <2>1. SiblingIndex(x) = x + 1 /\ 2 * j = x + 2 /\ 2 * j - 1 = x + 1
    BY <1>2, <1>6 DEF SiblingIndex
  <2>2. CASE x + 1 < m
    <3>1. Sibling(R, i, l) = row[x + 2] /\ Node(R, i, l + 1) = HashPair(row[x + 1], row[x + 2])
      BY <1>2, <1>4, <1>5, <2>1, <2>2
    <3>2. HashPair(c, row[x + 2]) = HashPair(row[x + 1], row[x + 2]) <=> c = row[x + 1]
      BY HashTells
    <3> QED
      BY <1>2, <1>5, <1>6, <2>2, <3>1, <3>2 DEF x
  <2>3. CASE x + 1 = m
    <3>1. Node(R, i, l + 1) = HashSingle(row[x + 1])
      BY <1>2, <1>4, <2>1, <2>3
    <3> QED
      BY <1>5, <1>6, <2>3, <3>1, HashTells DEF x
  <2> QED
    BY <1>2, <2>2, <2>3
<1>7. CASE x % 2 # 0
  <2>1. SiblingIndex(x) = x - 1 /\ 2 * j = x + 1 /\ 2 * j - 1 = x
    BY <1>2, <1>7 DEF SiblingIndex
  <2>2. Sibling(R, i, l) = row[x] /\ Node(R, i, l + 1) = HashPair(row[x], row[x + 1])
    BY <1>2, <1>4, <1>5, <2>1
  <2>3. HashPair(row[x], c) = HashPair(row[x], row[x + 1]) <=> c = row[x + 1]
    BY HashTells
  <2> QED
    BY <1>5, <1>7, <2>2, <2>3 DEF x
<1> QED
  BY <1>6, <1>7

-----------------------------------------------------------------------------
(***************************************************************************)
(* The steps of generate_proof and verify_proof.                           *)
(***************************************************************************)
LEMMA AppendGrows ==
  ASSUME NEW n \in Nat, NEW f, f = [l \in 1 .. n + 1 |-> f[l]]
  PROVE  Append([l \in 1 .. n |-> f[l]], f[n + 1]) = f
<1> DEFINE S == {f[l] : l \in 1 .. n + 1}
           s == [l \in 1 .. n |-> f[l]]
           t == Append(s, f[n + 1])
<1>1. s \in [1 .. n -> S] /\ f[n + 1] \in S
  OBVIOUS
<1>2. \A l \in 1 .. n : s[l] = f[l]
  OBVIOUS
<1> HIDE DEF S, s
<1>3. s \in Seq(S) /\ Len(s) = n
  BY <1>1, FunctionLen
<1>4. /\ t \in Seq(S) /\ Len(t) = n + 1
      /\ \A l \in 1 .. n : t[l] = s[l]
      /\ t[n + 1] = f[n + 1]
  BY <1>1, <1>3, AppendProperties
<1> HIDE DEF t
<1>5. t = [l \in 1 .. n + 1 |-> t[l]]
  BY <1>4
<1>6. \A l \in 1 .. n + 1 : t[l] = f[l]
  BY <1>2, <1>4
<1> QED
  BY <1>5, <1>6 DEF t, s

\* Steps that do not touch the proof keep what is known of it.
LEMMA ProofUntouched ==
  ASSUME UNCHANGED <<proof, origin, verdict>>, ProofInv,
         pc \notin {"path", "verify"}, pc' \notin {"path", "verify"}
  PROVE  ProofInv'
<1>1. VerdictExplained'
  BY DEF ProofInv, VerdictExplained
<1>2. ProofStands'
  <2>1. CASE origin = <<>>
    BY <2>1 DEF ProofInv, ProofStands
  <2>2. CASE origin # <<>>
    <3>1. PICK n \in Nat, h \in Nat : ProofOf(n, h) /\ Climbing(n, h)
      BY <2>2 DEF ProofInv, ProofStands
    <3>2. ProofOf(n, h)' /\ Climbing(n, h)'
      BY <3>1 DEF ProofOf, Climbing
    <3> QED
      BY <2>2, <3>2 DEF ProofInv, ProofStands
  <2> QED
    BY <2>1, <2>2
<1> QED
  BY <1>1, <1>2 DEF ProofInv

\* So does generate_proof when it throws,
LEMMA ProofRefused ==
  ASSUME NEW i, RefuseProof(i)
  PROVE  ProofInv'
BY DEF RefuseProof, ProofInv, ProofStands, VerdictExplained, EmptyProof

\* What can be proved is a leaf of the tree that stands.
LEMMA ProofNeedsTree ==
  ASSUME NEW i \in Nat, StartProof(i), TreeInv
  PROVE  /\ leaves # <<>> /\ i \in 0 .. leafCount - 1
         /\ WholeTree(rows, leafCount, treeHeight) /\ root = rows[treeHeight + 1]
<1>1. pc = "idle" /\ i < leafCount /\ rows # <<>> /\ leafCount \in Nat /\ builds \in Nat
  BY DEF StartProof, Unprovable, TreeInv, Counts
<1>2. leaves # <<>>
  BY <1>1 DEF TreeInv, TreeStands, Counts
<1> QED
  BY <1>1, <1>2 DEF TreeInv, TreeStands

\* when it starts at a leaf,
LEMMA ProofStarts ==
  ASSUME NEW i \in Nat, StartProof(i), TreeInv
  PROVE  ProofInv'
<1>1. /\ pc' = "path" /\ index' = i /\ level' = 0 /\ origin' = rows /\ verdict' = "none"
      /\ proof' = [leaf |-> NodeAt(rows[1], i), leafIndex |-> i, siblings |-> <<>>,
                   root |-> root]
      /\ rows' = rows /\ treeHeight' = treeHeight /\ rows # <<>>
  BY DEF StartProof, tree, Unprovable
<1>2. /\ i \in 0 .. leafCount - 1 /\ WholeTree(rows, leafCount, treeHeight)
      /\ root = rows[treeHeight + 1] /\ leafCount \in Nat /\ treeHeight \in Nat
  BY ProofNeedsTree DEF TreeInv, Counts
<1>3. NodeAbove(i, 0) = i
  BY LowestNode
<1>4. ProofOf(leafCount, treeHeight)'
  <2>1. NodeAt(rows[1], i) = Node(rows, i, 0)
    BY <1>3 DEF Node
  <2>2. <<>> = [l \in 1 .. 0 |-> Sibling(rows, i, l - 1)]
    OBVIOUS
  <2>3. leafCount' = leafCount
    BY DEF StartProof, tree
  <2> QED
    BY <1>1, <1>2, <2>1, <2>2, <2>3 DEF ProofOf
<1>5. Climbing(leafCount, treeHeight)'
  BY <1>1, <1>2, <1>3 DEF Climbing
<1>6. ProofStands'
  <2>1. leafCount' \in Nat /\ treeHeight' \in Nat
    BY <1>2 DEF StartProof, tree
  <2> QED
    BY <1>1, <1>4, <1>5, <2>1 DEF ProofStands
<1> QED
  BY <1>1, <1>6 DEF ProofInv, VerdictExplained

\* when it adds a sibling,
LEMMA SiblingAdded ==
  ASSUME AddSibling, TreeInv, ProofInv
  PROVE  ProofInv'
<1>1. /\ pc = "path" /\ pc' = "path" /\ level < treeHeight /\ level' = level + 1
      /\ index' = ParentIndex(index)
      /\ UNCHANGED <<verdict, origin, rows, treeHeight>>
  BY DEF AddSibling, tree, history
<1>2. PICK n \in Nat, h \in Nat : ProofOf(n, h) /\ Climbing(n, h)
  BY <1>1 DEF ProofInv, ProofStands
<1> DEFINE i == proof.leafIndex
<1>3. /\ WholeTree(origin, n, h) /\ i \in 0 .. n - 1 /\ origin = rows /\ h = treeHeight
      /\ proof.siblings = [l \in 1 .. level |-> Sibling(origin, i, l - 1)]
      /\ level \in 0 .. h /\ index = NodeAbove(i, level)
      /\ origin # <<>>
  BY <1>1, <1>2 DEF ProofOf, Climbing, ProofInv, ProofStands
<1>4. /\ DOMAIN proof' = DOMAIN proof
      /\ proof'.leaf = proof.leaf /\ proof'.leafIndex = i /\ proof'.root = proof.root
      /\ proof'.siblings = Append(proof.siblings, Sibling(origin, i, level))
  <2>1. proof' = [proof EXCEPT !.siblings = Append(proof.siblings, Sibling(origin, i, level))]
    BY <1>3 DEF AddSibling, Sibling
  <2> QED
    BY <2>1 DEF ProofInv, ProofStands
<1>5. proof'.siblings = [l \in 1 .. level + 1 |-> Sibling(origin, i, l - 1)]
  <2> DEFINE f == [l \in 1 .. level + 1 |-> Sibling(origin, i, l - 1)]
  <2>1. f = [l \in 1 .. level + 1 |-> f[l]] /\ f[level + 1] = Sibling(origin, i, level)
    BY <1>3
  <2>2. proof.siblings = [l \in 1 .. level |-> f[l]]
    BY <1>3
  <2> HIDE DEF f
  <2>3. level \in Nat
    BY <1>3
  <2>4. Append([l \in 1 .. level |-> f[l]], f[level + 1]) = f
    BY <2>1, <2>3, AppendGrows
  <2>5. proof'.siblings = f
    BY <1>4, <2>1, <2>2, <2>4
  <2> QED
    BY <2>5 DEF f
<1>6. NodeAbove(i, level + 1) = ParentIndex(index)
  <2>1. level \in Nat /\ i \in 0 .. n - 1 /\ index = NodeAbove(i, level)
    BY <1>3
  <2> HIDE DEF i
  <2> QED
    BY <2>1, NodesAbove
<1>7. ProofOf(n, h)'
  BY <1>1, <1>2, <1>3, <1>4, <1>5 DEF ProofOf
<1>8. Climbing(n, h)'
  BY <1>1, <1>3, <1>4, <1>6 DEF Climbing
<1>9. ProofStands'
  BY <1>1, <1>3, <1>4, <1>7, <1>8 DEF ProofInv, ProofStands
<1>10. VerdictExplained'
  BY <1>1, <1>4 DEF ProofInv, VerdictExplained
<1> QED
  BY <1>9, <1>10 DEF ProofInv

\* and when it returns;
LEMMA ProofFinishes ==
  ASSUME FinishProof, TreeInv, ProofInv
  PROVE  ProofInv'
<1>1. /\ pc = "path" /\ pc' = "idle" /\ level >= treeHeight
      /\ UNCHANGED <<verdict, origin, proof>>
  BY DEF FinishProof, history
<1>2. PICK n \in Nat, h \in Nat : ProofOf(n, h) /\ Climbing(n, h)
  BY <1>1 DEF ProofInv, ProofStands
<1>3. level = h
  BY <1>1, <1>2 DEF Climbing
<1>4. ProofOf(n, h)' /\ Climbing(n, h)'
  BY <1>1, <1>2, <1>3 DEF ProofOf, Climbing
<1>5. ProofStands'
  BY <1>1, <1>4 DEF ProofInv, ProofStands
<1> QED
  BY <1>1, <1>5 DEF ProofInv, VerdictExplained

\* A finished proof of a tree of n leaves and height h.
LEMMA FinishedProof ==
  ASSUME NEW n \in Nat, NEW h \in Nat, ProofOf(n, h), pc # "path"
  PROVE  /\ Height(n, h) /\ Len(origin[1]) = n /\ proof.leafIndex \in 0 .. n - 1
         /\ Len(proof.siblings) = h
         /\ \A l \in 1 .. h :
              proof.siblings[l] = Sibling(origin, proof.leafIndex, l - 1)
         /\ origin # <<>>
<1>1. /\ WholeTree(origin, n, h) /\ proof.leafIndex \in 0 .. n - 1
      /\ proof.siblings = [l \in 1 .. h |-> Sibling(origin, proof.leafIndex, l - 1)]
  BY DEF ProofOf
<1>2. Len(origin[1]) = n
  <2>1. IsRow(origin[0 + 1], RowLength(n, 0))
    BY <1>1 DEF WholeTree, Tower
  <2> QED
    BY <2>1, LowestRowLength DEF IsRow
<1>3. Len(proof.siblings) = h
  <2> DEFINE S == {Sibling(origin, proof.leafIndex, l - 1) : l \in 1 .. h}
  <2>1. proof.siblings \in [1 .. h -> S]
    BY <1>1
  <2> HIDE DEF S
  <2> QED
    BY <2>1, FunctionLen
<1>4. origin # <<>>
  <2>1. 1 \in DOMAIN origin
    BY <1>1 DEF WholeTree
  <2> QED
    BY <2>1
<1> QED
  BY <1>1, <1>2, <1>3, <1>4 DEF WholeTree

\* and verify_proof when it returns at once,
LEMMA VerifyRefused ==
  ASSUME RefuseVerify, ProofInv
  PROVE  ProofInv'
<1>1. /\ pc = "idle" /\ pc' = "idle" /\ proof.siblings = <<>> /\ verdict' = "invalid"
      /\ UNCHANGED <<proof, origin>>
  BY DEF RefuseVerify, history
<1>2. CASE origin = <<>>
  BY <1>1, <1>2 DEF ProofInv, ProofStands, VerdictExplained
<1>3. CASE origin # <<>>
  <2>1. PICK n \in Nat, h \in Nat : ProofOf(n, h) /\ Climbing(n, h)
    BY <1>3 DEF ProofInv, ProofStands
  <2>2. ProofOf(n, h)' /\ Climbing(n, h)'
    BY <1>1, <2>1 DEF ProofOf, Climbing
  <2>3. ~Verifies(Len(origin[1]), proof.leafIndex)
    <3>1. h = 0
      BY <1>1, <2>1, FinishedProof
    <3> QED
      BY <1>1, <2>1, <3>1, FinishedProof, VerifiesMeans
  <2>4. ProofStands'
    BY <1>1, <2>2 DEF ProofInv, ProofStands
  <2>5. VerdictExplained'
    BY <1>1, <2>3 DEF VerdictExplained
  <2> QED
    BY <2>4, <2>5 DEF ProofInv
<1> QED
  BY <1>2, <1>3

\* when it starts at a leaf,
LEMMA VerifyStarts ==
  ASSUME StartVerify, ProofInv
  PROVE  ProofInv'
<1>1. /\ pc = "idle" /\ pc' = "verify" /\ proof.siblings # <<>> /\ level' = 0
      /\ current' = proof.leaf /\ index' = proof.leafIndex
      /\ UNCHANGED <<verdict, proof, origin>>
  BY DEF StartVerify, history
<1>2. PICK n \in Nat, h \in Nat : ProofOf(n, h) /\ Climbing(n, h)
  BY <1>1 DEF ProofInv, ProofStands
<1>3. h > 0
  <2>1. h = 0 => proof.siblings = <<>>
    BY <1>1, <1>2 DEF ProofOf
  <2> QED
    BY <1>1, <2>1
<1>4. /\ proof.leafIndex \in Nat /\ NodeAbove(proof.leafIndex, 0) = proof.leafIndex
      /\ proof.leaf = Node(origin, proof.leafIndex, 0)
  BY <1>2, LowestNode DEF ProofOf
<1>5. ProofOf(n, h)' /\ Climbing(n, h)'
  BY <1>1, <1>2, <1>3, <1>4 DEF ProofOf, Climbing
<1>6. ProofStands'
  BY <1>1, <1>5 DEF ProofInv, ProofStands
<1> QED
  BY <1>1, <1>6 DEF ProofInv, VerdictExplained

\* when it folds a sibling in,
LEMMA SiblingFolded ==
  ASSUME FoldSibling, ProofInv
  PROVE  ProofInv'
<1>1. /\ pc = "verify" /\ pc' = "verify" /\ level < Len(proof.siblings)
      /\ index' = ParentIndex(index) /\ level' = level + 1
      /\ current' = IF index % 2 = 0 THEN HashPair(current, proof.siblings[level + 1])
                                     ELSE HashPair(proof.siblings[level + 1], current)
      /\ UNCHANGED <<verdict, proof, origin>>
  BY DEF FoldSibling, history
<1>2. PICK n \in Nat, h \in Nat : ProofOf(n, h) /\ Climbing(n, h)
  BY <1>1 DEF ProofInv, ProofStands
<1> DEFINE i == proof.leafIndex
<1>3. /\ WholeTree(origin, n, h) /\ i \in 0 .. n - 1
      /\ level \in 0 .. h /\ index = NodeAbove(i, level)
      /\ current = Node(origin, i, level) <=> \A l \in 0 .. level - 1 : ~Odd(n, i, l)
      /\ h > 0
  BY <1>1, <1>2 DEF ProofOf, Climbing
<1>4. level \in 0 .. h - 1 /\ proof.siblings[level + 1] = Sibling(origin, i, level)
  <2>1. level \in 0 .. h - 1 /\ level + 1 \in 1 .. h
    BY <1>1, <1>2, <1>3, FinishedProof
  <2> QED
    BY <1>1, <1>2, <2>1, FinishedProof
<1>5. NodeAbove(i, level + 1) = ParentIndex(index)
  <2>1. level \in Nat /\ i \in 0 .. n - 1 /\ index = NodeAbove(i, level)
    BY <1>3
  <2> HIDE DEF i
  <2> QED
    BY <2>1, NodesAbove
<1>6. current' = Node(origin, i, level + 1)
      <=> current = Node(origin, i, level) /\ ~Odd(n, i, level)
  <2> HIDE DEF i
  <2>1. current' = IF NodeAbove(i, level) % 2 = 0
                   THEN HashPair(current, Sibling(origin, i, level))
                   ELSE HashPair(Sibling(origin, i, level), current)
    BY <1>1, <1>3, <1>4
  <2> QED
    BY <1>3, <1>4, <2>1, FoldIsParent
<1>7. (\A l \in 0 .. level : ~Odd(n, i, l))
      <=> (\A l \in 0 .. level - 1 : ~Odd(n, i, l)) /\ ~Odd(n, i, level)
  <2>1. \A l : l \in 0 .. level <=> l \in 0 .. level - 1 \/ l = level
    BY <1>4
  <2> QED
    BY <2>1
<1>8. ProofOf(n, h)'
  BY <1>1, <1>2 DEF ProofOf
<1>9. Climbing(n, h)'
  <2>1. level + 1 \in 0 .. h /\ level + 1 - 1 = level
    BY <1>4
  <2> QED
    BY <1>1, <1>3, <1>5, <1>6, <1>7, <2>1 DEF Climbing
<1>10. ProofStands'
  BY <1>1, <1>8, <1>9 DEF ProofInv, ProofStands
<1> QED
  BY <1>1, <1>10 DEF ProofInv, VerdictExplained

\* and when it compares the root.
LEMMA RootCompared ==
  ASSUME CompareRoot, ProofInv
  PROVE  ProofInv'
<1>1. /\ pc = "verify" /\ pc' = "idle" /\ level >= Len(proof.siblings)
      /\ verdict' = IF <<current>> = proof.root THEN "valid" ELSE "invalid"
      /\ UNCHANGED <<proof, origin>>
  BY DEF CompareRoot, ClaimedRoot, history
<1>2. PICK n \in Nat, h \in Nat : ProofOf(n, h) /\ Climbing(n, h)
  BY <1>1 DEF ProofInv, ProofStands
<1> DEFINE i == proof.leafIndex
<1>3. /\ Height(n, h) /\ Len(origin[1]) = n /\ i \in 0 .. n - 1 /\ Len(proof.siblings) = h
      /\ origin # <<>>
  BY <1>1, <1>2, FinishedProof
<1>4. level = h
  BY <1>1, <1>2, <1>3 DEF Climbing
<1>5. proof.root = <<Node(origin, i, h)>>
  <2>1. IsRow(origin[h + 1], 1)
    <3>1. IsRow(origin[h + 1], RowLength(n, h)) /\ RowLength(n, h) = 1
      BY <1>2 DEF ProofOf, WholeTree, Tower, Height
    <3> QED
      BY <3>1
  <2>2. NodeAbove(i, h) = 0
    <3>1. RowLength(n, h) = 1
      BY <1>3 DEF Height
    <3> HIDE DEF i
    <3>2. NodeAbove(i, h) \in Nat /\ NodeAbove(i, h) < RowLength(n, h)
      BY <1>3, NodesAbove
    <3> QED
      BY <3>1, <3>2
  <2>3. origin[h + 1] = <<origin[h + 1][1]>>
    BY <2>1 DEF IsRow
  <2> QED
    BY <1>2, <2>2, <2>3 DEF ProofOf, Node, NodeAt
<1>6. <<current>> = proof.root <=> Verifies(n, i)
  <2>1. <<current>> = proof.root <=> current = Node(origin, i, h)
    BY <1>5
  <2> QED
    BY <1>1, <1>2, <1>3, <1>4, <2>1, VerifiesMeans DEF Climbing
<1>7. ProofOf(n, h)' /\ Climbing(n, h)'
  BY <1>1, <1>2 DEF ProofOf, Climbing
<1>8. ProofStands'
  BY <1>1, <1>3, <1>7 DEF ProofInv, ProofStands
<1>9. VerdictExplained'
  BY <1>1, <1>3, <1>6 DEF VerdictExplained
<1> QED
  BY <1>8, <1>9 DEF ProofInv

-----------------------------------------------------------------------------
(***************************************************************************)
(* The invariant, and what follows from it.                                *)
(***************************************************************************)
\* Every step keeps the tree's half of the invariant ...
LEMMA TreeKept ==
  ASSUME Next, IInv
  PROVE  TreeInv'
<1> USE DEF IInv
<1>1. CASE BuildEmpty
  BY <1>1, Emptied
<1>2. ASSUME NEW list \in LeafLists, StartBuild(list) PROVE TreeInv'
  BY <1>2, BuildStarts
<1>3. CASE CountHeight
  BY <1>3, HeightGrows
<1>4. CASE HashLeaves
  BY <1>4, LeavesFill
<1>5. CASE HashRow
  BY <1>5, RowFills
<1>6. CASE FinishBuild
  BY <1>6, BuildFinishes
<1>7. ASSUME NEW i \in 0 .. Len(leaves), RefuseProof(i) PROVE TreeInv'
  BY <1>7, TreeUntouched DEF RefuseProof
<1>8. ASSUME NEW i \in 0 .. Len(leaves), StartProof(i) PROVE TreeInv'
  BY <1>8, TreeUntouched, ProofNeedsTree DEF StartProof
<1>9. CASE AddSibling
  BY <1>9, TreeUntouched DEF AddSibling, history
<1>10. CASE FinishProof
  BY <1>10, TreeUntouched DEF FinishProof, history
<1>11. CASE RefuseVerify
  BY <1>11, TreeUntouched DEF RefuseVerify, history
<1>12. CASE StartVerify
  BY <1>12, TreeUntouched DEF StartVerify, history
<1>13. CASE FoldSibling
  BY <1>13, TreeUntouched DEF FoldSibling, history
<1>14. CASE CompareRoot
  BY <1>14, TreeUntouched DEF CompareRoot, history
<1> QED
  BY <1>1, <1>2, <1>3, <1>4, <1>5, <1>6, <1>7, <1>8, <1>9, <1>10, <1>11, <1>12,
     <1>13, <1>14 DEF Next

\* ... and the proof's.
LEMMA ProofKept ==
  ASSUME Next, IInv
  PROVE  ProofInv'
<1> USE DEF IInv
<1>1. CASE BuildEmpty
  BY <1>1, ProofUntouched DEF BuildEmpty
<1>2. ASSUME NEW list \in LeafLists, StartBuild(list) PROVE ProofInv'
  BY <1>2, ProofUntouched DEF StartBuild
<1>3. CASE CountHeight
  BY <1>3, ProofUntouched DEF CountHeight, history
<1>4. CASE HashLeaves
  BY <1>4, ProofUntouched DEF HashLeaves, history
<1>5. CASE HashRow
  BY <1>5, ProofUntouched DEF HashRow, history
<1>6. CASE FinishBuild
  BY <1>6, ProofUntouched DEF FinishBuild, history
<1>7. ASSUME NEW i \in 0 .. Len(leaves), RefuseProof(i) PROVE ProofInv'
  BY <1>7, ProofRefused
<1>8. ASSUME NEW i \in 0 .. Len(leaves), StartProof(i) PROVE ProofInv'
  BY <1>8, ProofStarts
<1>9. CASE AddSibling
  BY <1>9, SiblingAdded
<1>10. CASE FinishProof
  BY <1>10, ProofFinishes
<1>11. CASE RefuseVerify
  BY <1>11, VerifyRefused
<1>12. CASE StartVerify
  BY <1>12, VerifyStarts
<1>13. CASE FoldSibling
  BY <1>13, SiblingFolded
<1>14. CASE CompareRoot
  BY <1>14, RootCompared
<1> QED
  BY <1>1, <1>2, <1>3, <1>4, <1>5, <1>6, <1>7, <1>8, <1>9, <1>10, <1>11, <1>12,
     <1>13, <1>14 DEF Next

\* A step of nothing keeps the invariant.
LEMMA Stutters ==
  ASSUME UNCHANGED vars, IInv
  PROVE  IInv'
<1>1. TreeInv'
  BY DEF IInv, vars, tree, history, TreeInv, Counts, HeightCounted, RowsFollow,
         TreeStands, EarlierStands
<1>2. ProofInv'
  BY DEF IInv, vars, tree, history, ProofInv, ProofStands, ProofOf, Climbing,
         VerdictExplained
<1> QED
  BY <1>1, <1>2 DEF IInv

\* The invariant holds throughout.
LEMMA Invariance == Spec => []IInv
<1>1. Init => IInv
  BY DEF Init, IInv, TreeInv, Counts, HeightCounted, RowsFollow, TreeStands,
         EarlierStands, ProofInv, ProofStands, VerdictExplained, EmptyProof
<1>2. IInv /\ [Next]_vars => IInv'
  BY TreeKept, ProofKept, Stutters DEF IInv
<1> QED
  BY <1>1, <1>2, PTL DEF Spec

\* build_tree of any list of leaves ends in a single hash: the height loop
\* counts exactly the rows that the other loop needs.
THEOREM TreeHasOneRoot == Spec => []RootIsOneHash
<1>1. IInv => RootIsOneHash
  <2> SUFFICES ASSUME IInv, pc \notin {"height", "rows"}, leaves # <<>>
               PROVE  Len(root) = 1
    BY DEF RootIsOneHash
  <2>1. /\ WholeTree(rows, leafCount, treeHeight) /\ root = rows[treeHeight + 1]
        /\ treeHeight \in Nat
    BY DEF IInv, TreeInv, Counts, TreeStands
  <2>2. IsRow(rows[treeHeight + 1], RowLength(leafCount, treeHeight))
    BY <2>1 DEF WholeTree, Tower
  <2> QED
    BY <2>1, <2>2 DEF WholeTree, Height, IsRow
<1> QED
  BY <1>1, Invariance, PTL

\* Two lists of leaves that build_tree gives one root, one after the other,
\* are the same list: of any lengths, odd or even, and in the same order.
THEOREM RootCommitsToLeaves == Spec => []RootCommits
<1>1. IInv => RootCommits
  <2> SUFFICES ASSUME IInv, pc \notin {"height", "rows"},
                      root = earlier.root, root # <<>>
               PROVE  leaves = earlier.leaves
    BY DEF RootCommits
  <2>1. leaves # <<>> /\ earlier.leaves # <<>>
    BY DEF IInv, TreeInv, TreeStands, EarlierStands
  <2>2. /\ leaves \in LeafLists /\ earlier.leaves \in LeafLists
        /\ Commits(earlier.leaves, root)
    BY <2>1 DEF IInv, TreeInv, Counts, EarlierStands
  <2>3. Commits(leaves, root)
    BY <2>1 DEF IInv, TreeInv, Counts, TreeStands, Commits
  <2> QED
    BY <2>1, <2>2, <2>3, OneRootOneList
<1> QED
  BY <1>1, Invariance, PTL

\* After build_tree of an empty list no proof is begun, although the rows of
\* the last tree are still there.
THEOREM NoProofOfStaleTree == Spec => []NoStaleTree
<1>1. IInv => NoStaleTree
  BY DEF IInv, TreeInv, TreeStands, NoStaleTree
<1> QED
  BY <1>1, Invariance, PTL

\* What verify_proof says of a proof that generate_proof made, at any later
\* time and of a tree of any size: it is valid exactly when there were two
\* leaves or more and no node on the way to the root lacked a sibling.
THEOREM VerdictIsExplained == Spec => []VerdictExplained
<1>1. IInv => VerdictExplained
  BY DEF IInv, ProofInv
<1> QED
  BY <1>1, Invariance, PTL
=============================================================================
