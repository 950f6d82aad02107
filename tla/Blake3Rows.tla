----------------------------- MODULE Blake3Rows -----------------------------
(***************************************************************************)
(* One compression in four vectors of four lanes, the rows of the state.   *)
(* The quarters of a column run side by side in the lanes; for the         *)
(* diagonals the rows are turned and turned back, and row b stays in       *)
(* place, so the message words are shuffled to match.                      *)
(*                                                                         *)
(* The constants are the vector operations of a back end.                  *)
(***************************************************************************)
EXTENDS Blake3Lanes

CONSTANTS ShuffleEpi32(_, _), Shuffle2(_, _, _), BlendEpi16(_, _, _),
          UnpackLoEpi32(_, _), UnpackHiEpi32(_, _),
          UnpackLoEpi64(_, _), UnpackHiEpi64(_, _)

HalfG(rows, m, forD, forB) ==
  LET A(v) == [v EXCEPT !.a = Add(Add(@, m), v.b)]
      D(v) == [v EXCEPT !.d = Rot(Xor(@, v.a), forD)]
      C(v) == [v EXCEPT !.c = Add(@, v.d)]
      B(v) == [v EXCEPT !.b = Rot(Xor(@, v.c), forB)]
  IN  B(C(D(A(rows))))

G1(rows, m) == HalfG(rows, m, 16, 12)

G2(rows, m) == HalfG(rows, m, 8, 7)

Diagonalize(rows) ==
  [rows EXCEPT !.a = ShuffleEpi32(@, <<2, 1, 0, 3>>),
               !.d = ShuffleEpi32(@, <<1, 0, 3, 2>>),
               !.c = ShuffleEpi32(@, <<0, 3, 2, 1>>)]

(* Mutant: the rows stay turned.                                           *)
StayDiagonal(rows) == rows

Undiagonalize(rows) ==
  [rows EXCEPT !.a = ShuffleEpi32(@, <<0, 3, 2, 1>>),
               !.d = ShuffleEpi32(@, <<1, 0, 3, 2>>),
               !.c = ShuffleEpi32(@, <<2, 1, 0, 3>>)]

(* The message vectors of the first round, from the block as loaded.       *)
FirstMessages(m) ==
  << Shuffle2(m[1], m[2], <<2, 0, 2, 0>>),
     Shuffle2(m[1], m[2], <<3, 1, 3, 1>>),
     ShuffleEpi32(Shuffle2(m[3], m[4], <<2, 0, 2, 0>>), <<2, 1, 0, 3>>),
     ShuffleEpi32(Shuffle2(m[3], m[4], <<3, 1, 3, 1>>), <<2, 1, 0, 3>>) >>

(* The message vectors of a later round, from those of the round before.   *)
NextMessages(m) ==
  << ShuffleEpi32(Shuffle2(m[1], m[2], <<3, 1, 1, 2>>), <<0, 3, 2, 1>>),
     BlendEpi16(ShuffleEpi32(m[1], <<0, 0, 3, 3>>), Shuffle2(m[3], m[4], <<3, 3, 2, 2>>), 204),
     ShuffleEpi32(BlendEpi16(UnpackLoEpi64(m[4], m[2]), m[3], 192), <<1, 3, 2, 0>>),
     ShuffleEpi32(UnpackLoEpi32(m[3], UnpackHiEpi32(m[2], m[4])), <<0, 1, 3, 2>>) >>

RowRound(rows, t) ==
  LET columns == G2(G1(rows, t[1]), t[2])
  IN  Undiagonalize(G2(G1(Diagonalize(columns), t[3]), t[4]))

RowsAfter(cv, block, blockLen, counter, flags) ==
  LET start == [a |-> Loadu(4, cv, 0), b |-> Loadu(4, cv, 4), c |-> Loadu(4, IV, 0),
                d |-> Array([l \in 0 .. 3 |-> <<CounterLow(counter), CounterHigh(counter),
                                                blockLen, flags>>[l + 1]])]
      loaded == [k \in 1 .. 4 |-> Loadu(4, block, 4 * (k - 1))]
      RoundOf(v) == [v EXCEPT !.rows = RowRound(@, v.msgs)]
      after[r \in 1 .. 7] ==
        IF r = 1
        THEN RoundOf([rows |-> start, msgs |-> FirstMessages(loaded)])
        ELSE RoundOf([after[r - 1] EXCEPT !.msgs = NextMessages(@)])
  IN  after[7].rows

(* Two vectors as eight words.                                             *)
Stored(first, second) == Array([i \in 0 .. 7 |-> IF i < 4 THEN first[i] ELSE second[i - 4]])

FoldedInPlace(rows) == Stored(Xor(rows.a, rows.c), Xor(rows.b, rows.d))

FoldedXof(rows, cv) ==
  LET lower == FoldedInPlace(rows)
      upper == Stored(Xor(rows.c, Loadu(4, cv, 0)), Xor(rows.d, Loadu(4, cv, 4)))
  IN  Array([i \in 0 .. 15 |-> IF i < 8 THEN lower[i] ELSE upper[i - 8]])

(* Four vectors, lanes for vectors.                                        *)
Transpose(vecs) ==
  LET ab_01 == UnpackLoEpi32(vecs[0], vecs[1])
      ab_23 == UnpackHiEpi32(vecs[0], vecs[1])
      cd_01 == UnpackLoEpi32(vecs[2], vecs[3])
      cd_23 == UnpackHiEpi32(vecs[2], vecs[3])
      abcd == << UnpackLoEpi64(ab_01, cd_01), UnpackHiEpi64(ab_01, cd_01),
                 UnpackLoEpi64(ab_23, cd_23), UnpackHiEpi64(ab_23, cd_23) >>
  IN  Array([i \in 0 .. 3 |-> abcd[i + 1]])
=============================================================================
