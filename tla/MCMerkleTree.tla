---------------------------- MODULE MCMerkleTree -----------------------------
(***************************************************************************)
(* Leaf lists for TLC: all lists of up to three leaves with two contents,  *)
(* and longer ones with repetitions, so that every shape of tree up to six *)
(* leaves occurs (four and six have odd rows above even ones).             *)
(***************************************************************************)
EXTENDS MerkleTree

CONSTANTS a, b

ShortLists == UNION {[1 .. n -> {a, b}] : n \in 1 .. 3}

SomeLists ==
  ShortLists \cup
    {<<a, b, a, a>>, <<a, b, b, b>>, <<a, a, b, a>>,
     <<a, b, a, a, b>>, <<a, b, a, b, b>>,
     <<a, b, a, a, b, b>>, <<a, b, a, b, a, b>>}
=============================================================================
