----------------------------- MODULE Blake3Wasm -----------------------------
(***************************************************************************)
(* The WebAssembly back end of BLAKE3: Intel's shuffles, unpacks and blend *)
(* rebuilt from the shuffles WebAssembly has.                              *)
(***************************************************************************)
EXTENDS Blake3Lanes

(* The lanes of a and of b, numbered through, in the order of the picks.   *)
I32x4Shuffle(a, b, picks) ==
  Array([l \in 0 .. 3 |-> LET p == picks[l + 1] IN IF p < 4 THEN a[p] ELSE b[p - 4]])

I64x2Shuffle(a, b, picks) ==
  I32x4Shuffle(a, b, <<2 * picks[1], 2 * picks[1] + 1, 2 * picks[2], 2 * picks[2] + 1>>)

ShuffleEpi32(a, sel) == I32x4Shuffle(a, a, <<sel[4], sel[3], sel[2], sel[1]>>)

Shuffle2(a, b, sel) == I32x4Shuffle(a, b, <<sel[4], sel[3], sel[2] + 4, sel[1] + 4>>)

UnpackLoEpi64(a, b) == I64x2Shuffle(a, b, <<0, 2>>)

UnpackHiEpi64(a, b) == I64x2Shuffle(a, b, <<1, 3>>)

UnpackLoEpi32(a, b) == I32x4Shuffle(a, b, <<0, 4, 1, 5>>)

UnpackHiEpi32(a, b) == I32x4Shuffle(a, b, <<2, 6, 3, 7>>)

(* A mask, as on SSE2, but i16x8 takes the lowest half word first.         *)
BlendEpi16(a, b, imm) ==
  LET bits == [h \in 0 .. 7 |-> <<1, 2, 4, 8, 16, 32, 64, 128>>[h + 1]]
      masked(h) == bits[h] * ((imm \div bits[h]) % 2)
      from == Halves(a)
      with == Halves(b)
  IN  FromHalves([h \in 0 .. 7 |-> IF masked(h) = bits[h] THEN with[h] ELSE from[h]])

LOCAL Rows == INSTANCE Blake3Rows

CompressPre(cv, block, blockLen, counter, flags) ==
  Rows!RowsAfter(cv, block, blockLen, counter, flags)

CompressInPlace(cv, block, blockLen, counter, flags) ==
  Rows!FoldedInPlace(CompressPre(cv, block, blockLen, counter, flags))

CompressXof(cv, block, blockLen, counter, flags) ==
  Rows!FoldedXof(CompressPre(cv, block, blockLen, counter, flags), cv)

Round(v, m, r) == LaneRound(v, m, r)

TransposeVecs(vecs) == Rows!Transpose(vecs)

LOCAL Squares == INSTANCE Blake3Squares WITH DEGREE <- 4

TransposeMsgVecs(inputs, block) == Squares!TransposedBlocks(inputs, block)

LoadCounters(counter, increment) == LaneCounters(4, counter, increment)

LOCAL Columns == INSTANCE Blake3Columns WITH DEGREE <- 4

Hash4(inputs, n, key, counter, increment, flags, flagsStart, flagsEnd) ==
  Columns!HashLanes(inputs, n, key, counter, increment, flags, flagsStart, flagsEnd)

LOCAL Blocks == INSTANCE Blake3Blocks

Hash1(blocks, n, key, counter, flags, flagsStart, flagsEnd) ==
  Blocks!HashBlocks(blocks, n, key, counter, flags, flagsStart, flagsEnd)
=============================================================================
