--------------------------- MODULE Blake3Columns ---------------------------
(***************************************************************************)
(* As many inputs at a time as a vector has lanes, each in a lane of its   *)
(* own: the loop over blocks that the vector back ends share.  A back end  *)
(* gives the number of lanes, its round, and how it turns blocks, counters *)
(* and results into vectors and back.                                      *)
(***************************************************************************)
EXTENDS Blake3Squares

CONSTANTS Round(_, _, _), TransposeMsgVecs(_, _), LoadCounters(_, _)

(* The chaining values of all lanes after one more block.                  *)
NextVecs(h, counters, msgs, blockFlags) ==
  LET start == Array([i \in 0 .. 15 |->
                  CASE i < 8  -> h[i]
                    [] i \in 8 .. 11 -> Set1(DEGREE, IV[i - 8])
                    [] i = 12 -> counters.low
                    [] i = 13 -> counters.high
                    [] i = 14 -> Set1(DEGREE, BlockLen)
                    [] i = 15 -> Set1(DEGREE, blockFlags)])
      after[r \in 0 .. 7] ==
        IF r = 0 THEN [v |-> start] ELSE [after[r - 1] EXCEPT !.v = Round(@, msgs, r)]
      Folded(v) == Array([i \in 0 .. 7 |-> Xor(v[i], v[i + 8])])
  IN  Folded(after[7].v)

(* The outputs of DEGREE inputs, one to a lane, of n blocks each.          *)
HashLanes(inputs, n, key, counter, increment, flags, flagsStart, flagsEnd) ==
  LET counters == LoadCounters(counter, increment)
      after[b \in 0 .. n] ==
        IF b = 0 THEN Array([i \in 0 .. 7 |-> Set1(DEGREE, key[i])])
        ELSE NextVecs(after[b - 1], counters, TransposeMsgVecs(inputs, b),
               flags + (IF b = 1 THEN flagsStart ELSE 0) + (IF b = n THEN flagsEnd ELSE 0))
      h == after[n]
      squares == TransposedSquares(h)
  IN  Array([j \in 0 .. DEGREE - 1 |->
         Array([w \in 0 .. 7 |-> squares[DEGREE * (w \div DEGREE) + j][w % DEGREE]])])
=============================================================================
