----------------------------- MODULE MerkleService ---------------------------
(***************************************************************************)
(* Challenge B in service: merkle_prove.sh fetches workloads and submits   *)
(* what hardhack_merkle_prover (src/src/merkle_prover_main.cpp) prints.    *)
(*                                                                         *)
(* A seed is known by the number of its round.  Which proofs verify is     *)
(* what MerkleShape promises and module MerkleTree is checked to keep.     *)
(* Indexes stay below the 2^32 at which the prover would cut them off, and *)
(* no size has so many leaves that the prover runs out of memory.          *)
(***************************************************************************)
EXTENDS Integers, Sequences, MerkleShape

CONSTANTS
  Indexes,      (* the leaf indexes a workload may name                    *)
  Sizes,        (* the tree sizes it may name, and those of the shell      *)
  MaxRounds,    (* bound: rounds of the script                             *)
  None          (* a field the workload does not have                      *)

ServiceAssumption ==
  /\ Indexes \subseteq Nat
  /\ Sizes \subseteq Nat
  /\ MaxRounds \in Nat

Workload ==
  [seed : BOOLEAN, index : Indexes \cup {None}, size : Sizes \cup {None}]

VARIABLES
  localTest,    (* LOCAL_TEST: "true", "false", or anything else           *)
  pc,           (* where the script is                                     *)
  round,        (* number of the current round, and of its seed            *)
  treeSize,     (* TREE_SIZE                                               *)
  proofIndex,   (* PROOF_INDEX                                             *)
  result,       (* RESULT: the prover's line of JSON, or NoResult          *)
  heard,        (* history: what each round was asked to prove             *)
  submitted,    (* history: the results submitted                          *)
  initialSize   (* history: TREE_SIZE when the script was started          *)

history == <<heard, submitted, initialSize>>
vars == <<localTest, pc, round, treeSize, proofIndex, result, history>>

NoResult == [status |-> "none"]

Init ==
  /\ localTest \in {"true", "false", "other"}
  /\ pc = "top"
  /\ round = 0
  /\ treeSize \in Sizes
  /\ proofIndex = 0
  /\ result = NoResult
  /\ heard = <<>>
  /\ submitted = <<>>
  /\ initialSize = treeSize

-----------------------------------------------------------------------------
\* A local test draws an index below TREE_SIZE.
LocalTask(i) ==
  /\ pc = "top"
  /\ round < MaxRounds
  /\ localTest = "true"
  /\ round' = round + 1
  /\ proofIndex' = i
  /\ heard' = Append(heard, [seed |-> TRUE, index |-> i, size |-> None])
  /\ pc' = "prove"
  /\ UNCHANGED <<localTest, treeSize, result, submitted, initialSize>>

\* RANDOM % 0 is an error of the shell, which ends the script.
DivideByZero ==
  /\ pc = "top"
  /\ localTest = "true"
  /\ treeSize = 0
  /\ pc' = "exited"
  /\ UNCHANGED <<localTest, round, treeSize, proofIndex, result, history>>

\* Mutant: a workload without an index leaves the last one standing.
KeptIndex(w) == IF w.index = None THEN proofIndex ELSE w.index

IndexOf(w) == IF w.index = None THEN 0 ELSE w.index

SizeOf(w) == IF w.size = None THEN treeSize ELSE w.size

\* A failed request is a workload without any field.  The size stays even
\* when the workload has no seed and is waited over.
Fetch(w) ==
  /\ pc = "top"
  /\ round < MaxRounds
  /\ localTest # "true"
  /\ round' = round + 1
  /\ treeSize' = SizeOf(w)
  /\ proofIndex' = IndexOf(w)
  /\ heard' = Append(heard, w)
  /\ pc' = IF w.seed THEN "prove" ELSE "sleep"
  /\ UNCHANGED <<localTest, result, submitted, initialSize>>

Leaf(i, n) == i % n

\* The prover: an empty tree has no root, and no JSON is printed.
Prove ==
  /\ pc = "prove"
  /\ result' =
       IF treeSize = 0 THEN NoResult
       ELSE LET leaf == Leaf(proofIndex, treeSize)
            IN  [status |-> IF Verifies(treeSize, leaf) THEN "success" ELSE "failure",
                 seed   |-> round,
                 size   |-> treeSize,
                 leaf   |-> leaf]
  /\ pc' = "report"
  /\ UNCHANGED <<localTest, round, treeSize, proofIndex, heard, submitted, initialSize>>

\* No JSON: the next round begins at once.
SkipPause ==
  /\ pc = "report"
  /\ result = NoResult
  /\ pc' = "top"
  /\ UNCHANGED <<localTest, round, treeSize, proofIndex, result, history>>

\* Mutant: any JSON will do.
AnyResult == localTest = "false"

ToSubmit == result.status = "success" /\ localTest = "false"

Report ==
  /\ pc = "report"
  /\ result # NoResult
  /\ submitted' = IF ToSubmit THEN Append(submitted, result) ELSE submitted
  /\ pc' = "sleep"
  /\ UNCHANGED <<localTest, round, treeSize, proofIndex, result, heard, initialSize>>

AfterPause == "top"

Sleep ==
  /\ pc = "sleep"
  /\ pc' = AfterPause
  /\ UNCHANGED <<localTest, round, treeSize, proofIndex, result, history>>

-----------------------------------------------------------------------------
Step ==
  \/ \E i \in 0 .. treeSize - 1 : LocalTask(i)
  \/ DivideByZero
  \/ \E w \in Workload : Fetch(w)
  \/ Prove \/ SkipPause \/ Report \/ Sleep

\* The bound on rounds is reached, or the script has ended; only deadlock
\* checking needs this.
Terminating ==
  /\ pc = "exited" \/ (pc = "top" /\ round = MaxRounds)
  /\ UNCHANGED vars

Next == Step \/ Terminating

Spec == Init /\ [][Next]_vars

-----------------------------------------------------------------------------
(* Properties.                                                             *)

\* The size in force in round r: named by the last workload up to r, seed
\* or no seed, that named one.
SizeInForce(r) ==
  LET named == {k \in 1 .. r : heard[k].size # None}
  IN  IF named = {} THEN initialSize
      ELSE heard[CHOOSE k \in named : \A j \in named : j <= k].size

LeafAskedFor(r) == IF heard[r].index = None THEN 0 ELSE heard[r].index

\* A proof that is submitted is for the seed, the tree and the leaf its
\* workload asked for, whatever earlier workloads named: the index never
\* outlives its round, the size lasts until another is named, and a leaf
\* of the tree is never mistaken for another (merkle_prove.sh:35-41,
\* merkle_prover_main.cpp:112).
AnswersItsWorkload ==
  \A k \in 1 .. Len(submitted) :
    LET answer == submitted[k]
    IN  /\ answer.size = SizeInForce(answer.seed)
        /\ answer.leaf < answer.size
        /\ LeafAskedFor(answer.seed) < answer.size =>
             answer.leaf = LeafAskedFor(answer.seed)

\* Between rounds: in production a workload has been answered, once, exactly
\* when it has a seed and the proof of its leaf verifies; in a local test and
\* with any other LOCAL_TEST nothing is ever sent (merkle_prove.sh:43-74).
\* So a workload for the last node of an odd row goes unanswered.
AnsweredIffProvable ==
  pc = "top" =>
    \A r \in 1 .. round :
      LET answers == {k \in 1 .. Len(submitted) : submitted[k].seed = r}
          size == SizeInForce(r)
          provable ==
            /\ localTest = "false"
            /\ heard[r].seed
            /\ size > 1
            /\ Verifies(size, LeafAskedFor(r) % size)
      IN  IF provable THEN \E k \in answers : answers = {k} ELSE answers = {}

\* No workload, provable or not, holds up the ones after it: every round ends
\* and the script asks for the next (merkle_prove.sh:51-82).
RoundsGoOn == pc \in {"prove", "report", "sleep"} ~> pc = "top"
=============================================================================
