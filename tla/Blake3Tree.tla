----------------------------- MODULE Blake3Tree -----------------------------
(***************************************************************************)
(* The pieces the optimised hasher is built from: the state of a chunk,    *)
(* chunks and parents compressed several at a time, whole subtrees, and    *)
(* the hash of an input that is there at once.                             *)
(*                                                                         *)
(* A debug_assert! that does not hold leaves AssertionFailed in place of   *)
(* the result.                                                             *)
(***************************************************************************)
EXTENDS Blake3Compress

CONSTANT MaxSimdDegree   (* MAX_SIMD_DEGREE of the build *)

MaxSimdDegreeOr2 == Longer(MaxSimdDegree, 2)

AssertionFailed == "assertion failed"

Asserting(holds, value) == IF holds THEN value ELSE AssertionFailed

(***************************************************************************)
(* Chunks.                                                                 *)
(***************************************************************************)
NewChunkState(key, counter, flags, degree) ==
  [cv |-> key, chunk_counter |-> counter, buf |-> <<>>, blocks_compressed |-> 0,
   flags |-> flags, simd_degree |-> degree]

ChunkCount(s) == BLOCK_LEN * s.blocks_compressed + Len(s.buf)

ChunkStartFlag(s) == IF s.blocks_compressed = 0 THEN {"CHUNK_START"} ELSE {}

CompressBlock(s, block) ==
  [s EXCEPT !.cv = Compress(@, block, BLOCK_LEN, s.chunk_counter, s.flags \cup ChunkStartFlag(s)),
            !.blocks_compressed = @ + 1]

FillBuf(s, input) ==
  [s EXCEPT !.buf = @ \o Taken(input, Shorter(BLOCK_LEN - Len(s.buf), Len(input)))]

(* Whole blocks are compressed from the input itself, except the last,     *)
(* which waits in the buffer even when it is full.                         *)
CompressWholeBlocks(s, input) ==
  LET blocks == IF input = <<>> THEN 0 ELSE (Len(input) - 1) \div BLOCK_LEN
      after[n \in 0 .. blocks] ==
        IF n = 0 THEN s ELSE CompressBlock(after[n - 1], Piece(input, BLOCK_LEN, n))
  IN  FillBuf(after[blocks], Dropped(input, blocks * BLOCK_LEN))

UpdateChunk(s, input) ==
  LET want == BLOCK_LEN - Len(s.buf)
      rest == Dropped(input, want)
      updated ==
        IF s.buf = <<>> THEN CompressWholeBlocks(s, input)
        ELSE IF Len(input) <= want THEN FillBuf(s, input)
        ELSE CompressWholeBlocks([CompressBlock(s, FillBuf(s, input).buf) EXCEPT !.buf = <<>>], rest)
  IN  Asserting(ChunkCount(updated) <= CHUNK_LEN, updated)

ChunkOutput(s) ==
  Output(s.cv, Padded(s.buf), Len(s.buf), s.chunk_counter,
         s.flags \cup ChunkStartFlag(s) \cup {"CHUNK_END"})

ParentNodeOutput(left, right, key, flags) ==
  Output(key, <<left, right>>, BLOCK_LEN, 0, flags \cup {"PARENT"})

RootHash(o) ==
  Asserting(o.counter = 0,
    Compress(o.input_chaining_value, o.block, o.block_len, 0, o.flags \cup {"ROOT"}))

RootOutputBlock(o) ==
  Compress(o.input_chaining_value, o.block, o.block_len, o.counter, o.flags \cup {"ROOT"})

(***************************************************************************)
(* Many inputs of one length at a time.  Each has its own result, and its  *)
(* own counter when the counter is incremented.                            *)
(***************************************************************************)
Hash1(input, key, counter, flags, flagsStart, flagsEnd) ==
  LET blocks == Len(input) \div BLOCK_LEN
      cv[n \in 0 .. blocks] ==
        IF n = 0 THEN key
        ELSE Compress(cv[n - 1], Piece(input, BLOCK_LEN, n), BLOCK_LEN, counter,
                      flags \cup (IF n = 1 THEN flagsStart ELSE {})
                            \cup (IF n = blocks THEN flagsEnd ELSE {}))
  IN  cv[blocks]

HashMany(inputs, key, counter, increment, flags, flagsStart, flagsEnd) ==
  [i \in 1 .. Len(inputs) |->
     Hash1(inputs[i], key, counter + (IF increment THEN i - 1 ELSE 0),
           flags, flagsStart, flagsEnd)]

(* The whole pieces of size n in a sequence, and what is left over.        *)
ChunksExact(s, n) == [i \in 1 .. Len(s) \div n |-> Piece(s, n, i)]

Remainder(s, n) == Dropped(s, (Len(s) \div n) * n)

(* Mutant: the partial chunk takes the number of the first one.            *)
NumberOfFirst(counter, whole) == counter

PartialCounter(counter, whole) == counter + Len(whole)

CompressChunksParallel(input, key, counter, flags, degree) ==
  LET whole == ChunksExact(input, CHUNK_LEN)
      partial == Remainder(input, CHUNK_LEN)
      cvs == HashMany(whole, key, counter, TRUE, flags, {"CHUNK_START"}, {"CHUNK_END"})
      last == NewChunkState(key, PartialCounter(counter, whole), flags, degree)
  IN  Asserting(input # <<>> /\ Len(input) <= MaxSimdDegree * CHUNK_LEN,
        IF partial = <<>> THEN cvs
        ELSE Append(cvs, ChainingValue(ChunkOutput(UpdateChunk(last, partial)))))

(* Pairs become their parents; a child left over is passed on.             *)
CompressParentsParallel(cvs, key, flags) ==
  LET pairs == ChunksExact(cvs, 2)
  IN  Asserting(Len(cvs) >= 2 /\ Len(cvs) <= 2 * MaxSimdDegreeOr2,
        HashMany(pairs, key, 0, FALSE, flags \cup {"PARENT"}, {}, {}) \o Remainder(cvs, 2))

(***************************************************************************)
(* Subtrees.                                                               *)
(***************************************************************************)
LeftSubtreeLen(len) == Asserting(len > CHUNK_LEN, NextPowerOfTwo[(len + 1) \div 2])

(* One of the subtrees that an input is split into: len units from at on.  *)
CompressSubtreeWide(input, key, counter, flags, degree) ==
  LET wide[len \in 1 .. Len(input)] ==
        [at \in 0 .. Len(input) - len |->
           IF len <= degree * CHUNK_LEN
           THEN CompressChunksParallel(SubSeq(input, at + 1, at + len), key,
                                       counter + at \div CHUNK_LEN, flags, degree)
           ELSE LET left == LeftSubtreeLen(len)
                    expected == IF left = CHUNK_LEN THEN 1 ELSE Longer(degree, 2)
                    leftCvs == wide[left][at]
                    rightCvs == wide[len - left][at + left]
                IN  Asserting(Len(leftCvs) = expected /\ Len(rightCvs) \in 1 .. Len(leftCvs),
                      IF Len(leftCvs) = 1 THEN leftCvs \o rightCvs
                      ELSE CompressParentsParallel(leftCvs \o rightCvs, key, flags))]
  IN  wide[Len(input)][0]

CondenseToPair(cvs, key, flags) ==
  LET turn[n \in 0 .. Len(cvs)] ==
        IF n = 0 THEN cvs
        ELSE LET before == turn[n - 1]
             IN  IF Len(before) > 2 THEN CompressParentsParallel(before, key, flags) ELSE before
  IN  turn[Len(cvs)]

(* The two children of the subtree's top, which may be the root.           *)
CompressSubtreeToParentNode(input, key, counter, flags, degree) ==
  LET cvs == CompressSubtreeWide(input, key, counter, flags, degree)
  IN  Asserting(Len(input) > CHUNK_LEN /\ Len(cvs) >= 2, CondenseToPair(cvs, key, flags))

HashAllAtOnce(input, key, flags, degree) ==
  IF Len(input) <= CHUNK_LEN
  THEN ChunkOutput(UpdateChunk(NewChunkState(key, 0, flags, degree), input))
  ELSE Output(key, CompressSubtreeToParentNode(input, key, 0, flags, degree),
              BLOCK_LEN, 0, flags \cup {"PARENT"})
=============================================================================
