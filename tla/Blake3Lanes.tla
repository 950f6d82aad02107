---------------------------- MODULE Blake3Lanes ----------------------------
(***************************************************************************)
(* What the vector back ends of BLAKE3 have in common.  A vector is a      *)
(* function from its lanes, numbered from 0, to words.  The instructions   *)
(* of the machine are the ones with no counterpart in the sources; what    *)
(* is built from them is the text the back ends share.                     *)
(***************************************************************************)
EXTENDS Blake3Words, FiniteSets

Add(a, b) == Array([l \in DOMAIN a |-> WrappingAdd(a[l], b[l])])

Xor(a, b) == Array([l \in DOMAIN a |-> WordXor[a[l], b[l]]])

(* A word in all lanes.                                                    *)
Set1(degree, x) == Array([l \in 0 .. degree - 1 |-> x])

(* The words of an array from a place on, one to a lane.                   *)
Loadu(degree, words, from) == Array([l \in 0 .. degree - 1 |-> words[from + l]])

(* The rotations, by the two shifts of the code.                           *)
Rot(a, bits) ==
  Array([l \in DOMAIN a |-> ShiftRight(a[l], bits) + ShiftLeft(a[l], 32 - bits)])

(***************************************************************************)
(* Intel's instructions on four lanes.  A selector <<z, y, x, w>> is the   *)
(* argument of _MM_SHUFFLE!, its last entry for the lowest lane.           *)
(***************************************************************************)
MmShuffleEpi32(a, sel) == Array([l \in 0 .. 3 |-> a[sel[4 - l]]])

MmShufflePs(a, b, sel) ==
  Array([l \in 0 .. 3 |-> IF l < 2 THEN a[sel[4 - l]] ELSE b[sel[4 - l]]])

(* Lanes of a and b in turn, from the lower or the upper half.  Eight      *)
(* lanes are two groups of four, each interleaved on its own.              *)
MmUnpackLoEpi32(a, b) ==
  LET place(l) == 4 * (l \div 4) + ((l % 4) \div 2)
  IN  Array([l \in DOMAIN a |-> IF l % 2 = 0 THEN a[place(l)] ELSE b[place(l)]])

MmUnpackHiEpi32(a, b) ==
  LET place(l) == 4 * (l \div 4) + 2 + ((l % 4) \div 2)
  IN  Array([l \in DOMAIN a |-> IF l % 2 = 0 THEN a[place(l)] ELSE b[place(l)]])

MmUnpackLoEpi64(a, b) == Array([l \in DOMAIN a |-> IF l % 4 < 2 THEN a[l] ELSE b[l - 2]])

MmUnpackHiEpi64(a, b) == Array([l \in DOMAIN a |-> IF l % 4 < 2 THEN a[l + 2] ELSE b[l]])

(* A vector as half words, the lower half of a lane first.                 *)
Halves(a) == [h \in 0 .. 7 |-> IF h % 2 = 0 THEN a[h \div 2] % 16 ELSE a[h \div 2] \div 16]

FromHalves(halves) == Array([l \in 0 .. 3 |-> halves[2 * l] + 16 * halves[2 * l + 1]])

BitSet(n, i) == (n \div 2^i) % 2 = 1

(***************************************************************************)
(* The transposed form: vector i holds word i of the states of as many     *)
(* inputs as there are lanes.                                              *)
(*                                                                         *)
(* One half of the quarters of a round: shift 0 for the columns, 1 for     *)
(* the diagonals, y false for the first message words and rotations and    *)
(* true for the second.                                                    *)
HalfLane(q, word, y) ==
  LET A(p) == [p EXCEPT ![1] = Add(Add(@, word), p[2])]
      D(p) == [p EXCEPT ![4] = Rot(Xor(@, p[1]), IF y THEN 8 ELSE 16)]
      C(p) == [p EXCEPT ![3] = Add(@, p[4])]
      B(p) == [p EXCEPT ![2] = Rot(Xor(@, p[3]), IF y THEN 7 ELSE 12)]
  IN  B(C(D(A(q))))

Mix(v, m, r, shift, y) ==
  LET vec(q, row) == v[(4 * row) + ((q + row * shift) % 4)]
      word(q) == Scheduled(m, r, (8 * shift) + (2 * q) + (IF y THEN 1 ELSE 0))
      mixed == [q \in 0 .. 3 |->
                  HalfLane(<<vec(q, 0), vec(q, 1), vec(q, 2), vec(q, 3)>>, word(q), y)]
      Placed(quarters) ==
        [i \in 0 .. 15 |-> quarters[(i - shift * (i \div 4)) % 4][(i \div 4) + 1]]
  IN  Array(Placed(Array(mixed)))

LaneRound(v, m, r) ==
  LET columns == Mix(Mix(v, m, r, 0, FALSE), m, r, 0, TRUE)
  IN  Mix(Mix(columns, m, r, 1, FALSE), m, r, 1, TRUE)

(* Mutant: a carry between two lanes is lost.                              *)
UpperOfFirst(counter, offset) == CounterHigh(counter)

UpperWord(counter, offset) == CounterHigh(counter + offset)

(* The counters of the lanes, as vectors of their lower and upper words.   *)
LaneCounters(degree, counter, increment) ==
  LET mask(l) == IF increment THEN l ELSE 0
  IN  [low  |-> Array([l \in 0 .. degree - 1 |-> CounterLow(counter + mask(l))]),
       high |-> Array([l \in 0 .. degree - 1 |-> UpperWord(counter, mask(l))])]
=============================================================================
