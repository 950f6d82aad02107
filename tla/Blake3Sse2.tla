----------------------------- MODULE Blake3Sse2 -----------------------------
(***************************************************************************)
(* The SSE2 back end of BLAKE3: that of SSE4.1 with a blend of its own,    *)
(* which SSE2 has no instruction for.                                      *)
(***************************************************************************)
EXTENDS Blake3Lanes

(* The mask has a half word for every bit of imm that is set, and chooses  *)
(* between b and a.  _mm_set_epi16 takes the highest half word first.      *)
BlendEpi16(a, b, imm) ==
  LET bits == [h \in 0 .. 7 |-> <<128, 64, 32, 16, 8, 4, 2, 1>>[8 - h]]
      masked(h) == bits[h] * ((imm \div bits[h]) % 2)
      from == Halves(a)
      with == Halves(b)
  IN  FromHalves([h \in 0 .. 7 |-> IF masked(h) = bits[h] THEN with[h] ELSE from[h]])

LOCAL Rows == INSTANCE Blake3Rows WITH
  ShuffleEpi32 <- MmShuffleEpi32, Shuffle2 <- MmShufflePs,
  UnpackLoEpi32 <- MmUnpackLoEpi32, UnpackHiEpi32 <- MmUnpackHiEpi32,
  UnpackLoEpi64 <- MmUnpackLoEpi64, UnpackHiEpi64 <- MmUnpackHiEpi64

CompressPre(cv, block, blockLen, counter, flags) ==
  Rows!RowsAfter(cv, block, blockLen, counter, flags)

CompressInPlace(cv, block, blockLen, counter, flags) ==
  Rows!FoldedInPlace(CompressPre(cv, block, blockLen, counter, flags))

CompressXof(cv, block, blockLen, counter, flags) ==
  Rows!FoldedXof(CompressPre(cv, block, blockLen, counter, flags), cv)

Round(v, m, r) == LaneRound(v, m, r)

TransposeVecs(vecs) == Rows!Transpose(vecs)

LOCAL Squares == INSTANCE Blake3Squares WITH DEGREE <- 4

TransposeMsgVecs(inputs, block) == Squares!TransposedBlocks(inputs, block)

LoadCounters(counter, increment) == LaneCounters(4, counter, increment)

LOCAL Columns == INSTANCE Blake3Columns WITH DEGREE <- 4

Hash4(inputs, n, key, counter, increment, flags, flagsStart, flagsEnd) ==
  Columns!HashLanes(inputs, n, key, counter, increment, flags, flagsStart, flagsEnd)

LOCAL Blocks == INSTANCE Blake3Blocks

Hash1(blocks, n, key, counter, flags, flagsStart, flagsEnd) ==
  Blocks!HashBlocks(blocks, n, key, counter, flags, flagsStart, flagsEnd)
=============================================================================
