---------------------------- MODULE Blake3Blocks ----------------------------
(***************************************************************************)
(* The loop over the blocks of one input, which every back end of BLAKE3   *)
(* has around its own compression.                                         *)
(***************************************************************************)
EXTENDS Blake3Words

CONSTANT CompressInPlace(_, _, _, _, _)

(* An input of whole blocks, compressed one after the other: the first     *)
(* takes flagsStart, the last flagsEnd.                                    *)
HashBlocks(blocks, n, key, counter, flags, flagsStart, flagsEnd) ==
  LET after[b \in 0 .. n] ==
        IF b = 0 THEN key
        ELSE CompressInPlace(after[b - 1], blocks[b], BlockLen, counter,
               flags + (IF b = 1 THEN flagsStart ELSE 0) + (IF b = n THEN flagsEnd ELSE 0))
  IN  after[n]
=============================================================================
