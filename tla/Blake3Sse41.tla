---------------------------- MODULE Blake3Sse41 ----------------------------
(***************************************************************************)
(* The SSE4.1 back end of BLAKE3: four lanes, Intel's own shuffles and     *)
(* blend.                                                                  *)
(***************************************************************************)
EXTENDS Blake3Lanes

(* Half words of b where imm has a bit, of a elsewhere: _mm_blend_epi16.   *)
BlendEpi16(a, b, imm) ==
  LET from == Halves(a)
      with == Halves(b)
  IN  FromHalves([h \in 0 .. 7 |-> IF BitSet(imm, h) THEN with[h] ELSE from[h]])

LOCAL Rows == INSTANCE Blake3Rows WITH
  ShuffleEpi32 <- MmShuffleEpi32, Shuffle2 <- MmShufflePs,
  UnpackLoEpi32 <- MmUnpackLoEpi32, UnpackHiEpi32 <- MmUnpackHiEpi32,
  UnpackLoEpi64 <- MmUnpackLoEpi64, UnpackHiEpi64 <- MmUnpackHiEpi64

CompressPre(cv, block, blockLen, counter, flags) ==
  Rows!RowsAfter(cv, block, blockLen, counter, flags)

CompressInPlace(cv, block, blockLen, counter, flags) ==
  Rows!FoldedInPlace(CompressPre(cv, block, blockLen, counter, flags))

CompressXof(cv, block, blockLen, counter, flags) ==
  Rows!FoldedXof(CompressPre(cv, block, blockLen, counter, flags), cv)

Round(v, m, r) == LaneRound(v, m, r)

TransposeVecs(vecs) == Rows!Transpose(vecs)

LOCAL Squares == INSTANCE Blake3Squares WITH DEGREE <- 4

TransposeMsgVecs(inputs, block) == Squares!TransposedBlocks(inputs, block)

LoadCounters(counter, increment) == LaneCounters(4, counter, increment)

LOCAL Columns == INSTANCE Blake3Columns WITH DEGREE <- 4

Hash4(inputs, n, key, counter, increment, flags, flagsStart, flagsEnd) ==
  Columns!HashLanes(inputs, n, key, counter, increment, flags, flagsStart, flagsEnd)

LOCAL Blocks == INSTANCE Blake3Blocks

Hash1(blocks, n, key, counter, flags, flagsStart, flagsEnd) ==
  Blocks!HashBlocks(blocks, n, key, counter, flags, flagsStart, flagsEnd)
=============================================================================
