--------------------------- MODULE Blake3Squares ---------------------------
(***************************************************************************)
(* Arrays of vectors, transposed a square at a time, by the transposition  *)
(* of a back end.                                                          *)
(***************************************************************************)
EXTENDS Blake3Lanes

CONSTANTS DEGREE, TransposeVecs(_)

(* The vectors of an array in groups of as many as there are lanes.        *)
Square(vecs, k) == Array([j \in 0 .. DEGREE - 1 |-> vecs[DEGREE * k + j]])

(* Every group transposed.                                                 *)
TransposedSquares(vecs) ==
  LET squares == Array([k \in 0 .. Cardinality(DOMAIN vecs) \div DEGREE - 1 |->
                          TransposeVecs(Square(vecs, k))])
  IN  Array([i \in DOMAIN vecs |-> squares[i \div DEGREE][i % DEGREE]])

(* A block of every input, turned so that vector i holds its words i.      *)
TransposedBlocks(inputs, block) ==
  TransposedSquares(
    Array([i \in 0 .. 15 |-> Loadu(DEGREE, inputs[i % DEGREE][block], DEGREE * (i \div DEGREE))]))
============================================================================
