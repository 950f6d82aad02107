----------------------------- MODULE Blake3Avx2 -----------------------------
(***************************************************************************)
(* The AVX2 back end of BLAKE3: eight inputs at a time.  It has no         *)
(* compression of its own, and leaves what is fewer than eight inputs to   *)
(* SSE4.1.                                                                 *)
(***************************************************************************)
EXTENDS Blake3Lanes

Round(v, m, r) == LaneRound(v, m, r)

(* The lower halves of both, and the upper: _mm256_permute2x128_si256.     *)
Interleave128(a, b) ==
  << Array([l \in 0 .. 7 |-> IF l < 4 THEN a[l] ELSE b[l - 4]]),
     Array([l \in 0 .. 7 |-> IF l < 4 THEN a[l + 4] ELSE b[l]]) >>

TransposeVecs(vecs) ==
  LET lo(i) == MmUnpackLoEpi32(vecs[i], vecs[i + 1])
      hi(i) == MmUnpackHiEpi32(vecs[i], vecs[i + 1])
      quads(i) == << MmUnpackLoEpi64(lo(i), lo(i + 2)), MmUnpackHiEpi64(lo(i), lo(i + 2)),
                     MmUnpackLoEpi64(hi(i), hi(i + 2)), MmUnpackHiEpi64(hi(i), hi(i + 2)) >>
      abcd == quads(0)
      efgh == quads(4)
      full == [k \in 1 .. 4 |-> Interleave128(abcd[k], efgh[k])]
  IN  Array([i \in 0 .. 7 |-> full[(i % 4) + 1][(i \div 4) + 1]])

LOCAL Squares == INSTANCE Blake3Squares WITH DEGREE <- 8

TransposeMsgVecs(inputs, block) == Squares!TransposedBlocks(inputs, block)

LoadCounters(counter, increment) == LaneCounters(8, counter, increment)

LOCAL Columns == INSTANCE Blake3Columns WITH DEGREE <- 8

Hash8(inputs, n, key, counter, increment, flags, flagsStart, flagsEnd) ==
  Columns!HashLanes(inputs, n, key, counter, increment, flags, flagsStart, flagsEnd)
=============================================================================
