---------------------------- MODULE Blake3Words ----------------------------
(***************************************************************************)
(* The compression function of BLAKE3 on machine words as the reference    *)
(* implementation has it, which permutes the message between rounds; and   *)
(* the schedule and the loop over blocks that the back ends of the library *)
(* share.                                                                  *)
(*                                                                         *)
(* A word has 8 bits where the code has 32.  Additions wrap, rotations     *)
(* turn by the same fraction of a word (16, 12, 8 and 7 of 32 bits are 4,  *)
(* 3, 2 and 1 of 8), and a counter is two words.  Arrays are functions     *)
(* from 0, as in the code.                                                 *)
(***************************************************************************)
EXTENDS Naturals, TLC

WordBits == 8

(* The array f, every entry evaluated once (TLC leaves [x \in S |-> e]     *)
(* unevaluated where it is only applied).                                  *)
Array(f) == f @@ <<>>

Word == 0 .. 2^WordBits - 1

Wrap(x) == x % 2^WordBits

(* A number of bits of 32 as the same part of a word.                      *)
Scaled(bits) == IF bits < 16 THEN bits \div 4 ELSE WordBits - (32 - bits) \div 4

WrappingAdd(a, b) == Wrap(a + b)

WordXor[a, b \in Word] ==
  IF a + b = 0 THEN 0 ELSE ((a + b) % 2) + 2 * WordXor[a \div 2, b \div 2]

ShiftRight(x, bits) == x \div 2^Scaled(bits)

ShiftLeft(x, bits) == Wrap(x * 2^Scaled(bits))

RotateRight(x, bits) == ShiftRight(x, bits) + ShiftLeft(x, 32 - bits)

(* The lower bytes of the eight constants, and of the flags.               *)
IV == [i \in 0 .. 7 |-> <<103, 133, 114, 58, 127, 140, 171, 25>>[i + 1]]

CHUNK_START == 1
CHUNK_END == 2
PARENT == 4
ROOT == 8

BlockLen == 64

CounterLow(counter) == Wrap(counter)

CounterHigh(counter) == Wrap(counter \div 2^WordBits)

(* The state every form of the function starts from.                       *)
StateWord(cv, counter, blockLen, flags, i) ==
  CASE i < 8  -> cv[i]
    [] i < 12 -> IV[i - 8]
    [] i = 12 -> CounterLow(counter)
    [] i = 13 -> CounterHigh(counter)
    [] i = 14 -> blockLen
    [] i = 15 -> flags

(* The words <<a, b, c, d>> of a quarter, with one word of the message.    *)
HalfQuarter(q, word, forD, forB) ==
  LET A(p) == [p EXCEPT ![1] = WrappingAdd(WrappingAdd(@, p[2]), word)]
      D(p) == [p EXCEPT ![4] = RotateRight(WordXor[@, p[1]], forD)]
      C(p) == [p EXCEPT ![3] = WrappingAdd(@, p[4])]
      B(p) == [p EXCEPT ![2] = RotateRight(WordXor[@, p[3]], forB)]
  IN  B(C(D(A(q))))

(* One quarter: a, b, c and d are places in the state, x and y words of    *)
(* the message.                                                            *)
G(s, a, b, c, d, x, y) ==
  LET Replaced(q) == [s EXCEPT ![a] = q[1], ![b] = q[2], ![c] = q[3], ![d] = q[4]]
  IN  Replaced(HalfQuarter(HalfQuarter(<<s[a], s[b], s[c], s[d]>>, x, 16, 12), y, 8, 7))

(***************************************************************************)
(* The reference implementation.                                           *)
(***************************************************************************)
MSG_PERMUTATION == <<2, 6, 3, 10, 7, 0, 4, 13, 1, 11, 12, 5, 9, 14, 15, 8>>

Permute(m) == Array([i \in 0 .. 15 |-> m[MSG_PERMUTATION[i + 1]]])

RefRound(s, m) ==
  LET c0 == G(s, 0, 4, 8, 12, m[0], m[1])
      c1 == G(c0, 1, 5, 9, 13, m[2], m[3])
      c2 == G(c1, 2, 6, 10, 14, m[4], m[5])
      c3 == G(c2, 3, 7, 11, 15, m[6], m[7])
      d0 == G(c3, 0, 5, 10, 15, m[8], m[9])
      d1 == G(d0, 1, 6, 11, 12, m[10], m[11])
      d2 == G(d1, 2, 7, 8, 13, m[12], m[13])
  IN  G(d2, 3, 4, 9, 14, m[14], m[15])

(* The state after n rounds, and the message they leave.                   *)
RefRounds(s, m) ==
  LET after[n \in 0 .. 7] ==
        IF n = 0 THEN [state |-> s, msg |-> m]
        ELSE LET before == after[n - 1]
             IN  [before EXCEPT !.state = RefRound(@, before.msg), !.msg = Permute(@)]
  IN  after[7].state

(* Folded: the lower half takes the upper in, the upper the chaining value. *)
FoldState(s, cv) ==
  Array([i \in 0 .. 15 |-> WordXor[s[i], IF i < 8 THEN s[i + 8] ELSE cv[i - 8]]])

RefCompress(cv, block, counter, blockLen, flags) ==
  FoldState(RefRounds(Array([i \in 0 .. 15 |-> StateWord(cv, counter, blockLen, flags, i)]), block), cv)

(***************************************************************************)
(* What every back end shares.                                             *)
(***************************************************************************)
MSG_SCHEDULE ==
  << <<0, 1, 2, 3, 4, 5, 6, 7, 8, 9, 10, 11, 12, 13, 14, 15>>,
     <<2, 6, 3, 10, 7, 0, 4, 13, 1, 11, 12, 5, 9, 14, 15, 8>>,
     <<3, 4, 10, 12, 13, 2, 7, 14, 6, 5, 9, 0, 11, 15, 8, 1>>,
     <<10, 7, 12, 9, 14, 3, 13, 15, 4, 0, 11, 2, 5, 8, 1, 6>>,
     <<12, 13, 9, 11, 15, 10, 14, 8, 7, 2, 5, 3, 0, 1, 6, 4>>,
     <<9, 14, 11, 5, 8, 12, 15, 1, 13, 3, 0, 10, 2, 6, 4, 7>>,
     <<11, 15, 5, 0, 1, 9, 8, 6, 14, 10, 2, 12, 3, 4, 7, 13>> >>

(* Word i of the message in round r.                                       *)
Scheduled(m, r, i) == m[MSG_SCHEDULE[r][i + 1]]
=============================================================================
