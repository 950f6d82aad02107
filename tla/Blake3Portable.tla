--------------------------- MODULE Blake3Portable ---------------------------
(***************************************************************************)
(* The portable back end of BLAKE3: one state of sixteen words, message    *)
(* words looked up in the schedule.                                        *)
(***************************************************************************)
EXTENDS Blake3Words

Round(s, m, r) ==
  LET w(i) == Scheduled(m, r, i)
      c0 == G(s, 0, 4, 8, 12, w(0), w(1))
      c1 == G(c0, 1, 5, 9, 13, w(2), w(3))
      c2 == G(c1, 2, 6, 10, 14, w(4), w(5))
      c3 == G(c2, 3, 7, 11, 15, w(6), w(7))
      d0 == G(c3, 0, 5, 10, 15, w(8), w(9))
      d1 == G(d0, 1, 6, 11, 12, w(10), w(11))
      d2 == G(d1, 2, 7, 8, 13, w(12), w(13))
  IN  G(d2, 3, 4, 9, 14, w(14), w(15))

CompressPre(cv, block, blockLen, counter, flags) ==
  LET after[r \in 0 .. 7] ==
        IF r = 0
        THEN [state |-> Array([i \in 0 .. 15 |-> StateWord(cv, counter, blockLen, flags, i)])]
        ELSE [after[r - 1] EXCEPT !.state = Round(@, block, r)]
  IN  after[7].state

CompressInPlace(cv, block, blockLen, counter, flags) ==
  LET s == CompressPre(cv, block, blockLen, counter, flags)
  IN  Array([i \in 0 .. 7 |-> WordXor[s[i], s[i + 8]]])

CompressXof(cv, block, blockLen, counter, flags) ==
  FoldState(CompressPre(cv, block, blockLen, counter, flags), cv)

LOCAL Blocks == INSTANCE Blake3Blocks

Hash1(blocks, n, key, counter, flags, flagsStart, flagsEnd) ==
  Blocks!HashBlocks(blocks, n, key, counter, flags, flagsStart, flagsEnd)
=============================================================================
