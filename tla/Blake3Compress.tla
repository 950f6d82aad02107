--------------------------- MODULE Blake3Compress ---------------------------
(***************************************************************************)
(* The vocabulary the BLAKE3 modules share: the sizes of a block and of a  *)
(* chunk, the compression function and the nodes it is applied to.         *)
(*                                                                         *)
(* The compression function is opaque here: two calls give one value when  *)
(* their five arguments agree and never otherwise, which is what a hash    *)
(* promises.  What the words of a result are, and that every back end      *)
(* computes the same ones, is the matter of module Blake3Kernels.          *)
(*                                                                         *)
(* Lengths are counted in chaining values: OUT_LEN is one unit, a block    *)
(* holds two of them, and one unit of input is told from every other.      *)
(***************************************************************************)
EXTENDS Naturals, Sequences

CONSTANTS
  CHUNK_LEN,  (* units of input in a chunk: a whole number of blocks       *)
  MAX_DEPTH   (* the tallest tree: 2^MAX_DEPTH chunks                      *)

OUT_LEN == 1

BLOCK_LEN == 2 * OUT_LEN

SizesAssumption ==
  /\ MAX_DEPTH \in Nat
  /\ CHUNK_LEN % BLOCK_LEN = 0
  /\ \E k \in 1 .. 30 : CHUNK_LEN = 2^k

(* The key words of Hash mode, and a caller's key.                         *)
IV == "IV"

Compress(cv, block, blockLen, counter, flags) ==
  [cv |-> cv, block |-> block, len |-> blockLen, counter |-> counter, flags |-> flags]

(* A node whose last block is held back, so that it may still turn out to  *)
(* be the root.                                                            *)
Output(cv, block, blockLen, counter, flags) ==
  [input_chaining_value |-> cv, block |-> block, block_len |-> blockLen,
   counter |-> counter, flags |-> flags]

ChainingValue(o) ==
  Compress(o.input_chaining_value, o.block, o.block_len, o.counter, o.flags)

(* A block that is not full is padded with zeros.                          *)
Padded(buf) == [i \in 1 .. BLOCK_LEN |-> IF i <= Len(buf) THEN buf[i] ELSE 0]

Shorter(a, b) == IF a < b THEN a ELSE b

Longer(a, b) == IF a > b THEN a ELSE b

(* The input split after n units.                                          *)
Taken(s, n) == SubSeq(s, 1, n)

Dropped(s, n) == SubSeq(s, n + 1, Len(s))

(* The i-th of the pieces of n units.                                      *)
Piece(s, n, i) == SubSeq(s, (i - 1) * n + 1, i * n)

(* The number of ones in the binary form of n.                             *)
CountOnes[n \in Nat] == IF n = 0 THEN 0 ELSE (n % 2) + CountOnes[n \div 2]

(* The least power of two that is not below n.                             *)
NextPowerOfTwo[n \in Nat] == IF n <= 1 THEN 1 ELSE 2 * NextPowerOfTwo[(n + 1) \div 2]

(* The greatest power of two that divides n.                               *)
LowestOne[n \in Nat \ {0}] == IF n % 2 = 1 THEN 1 ELSE 2 * LowestOne[n \div 2]

(* The number of zeros below it.                                           *)
TrailingZeros[n \in Nat \ {0}] == IF n % 2 = 1 THEN 0 ELSE 1 + TrailingZeros[n \div 2]
=============================================================================
