-------------------------- MODULE Blake3Reference --------------------------
(***************************************************************************)
(* The hasher of the reference implementation, which takes one chunk after *)
(* the other and merges subtrees as soon as a chunk completes them.  The   *)
(* optimised hasher (module Blake3Hasher) is held to what this computes.   *)
(***************************************************************************)
EXTENDS Blake3Compress

NewChunk(key, counter, flags) ==
  [chaining_value |-> key, chunk_counter |-> counter, block |-> <<>>,
   blocks_compressed |-> 0, flags |-> flags]

ChunkSize(s) == BLOCK_LEN * s.blocks_compressed + Len(s.block)

StartFlag(s) == IF s.blocks_compressed = 0 THEN {"CHUNK_START"} ELSE {}

(* A full block is compressed when more input follows it.                  *)
FlushBlock(s) ==
  IF Len(s.block) = BLOCK_LEN
  THEN [s EXCEPT !.chaining_value =
                   Compress(@, s.block, BLOCK_LEN, s.chunk_counter, s.flags \cup StartFlag(s)),
                 !.blocks_compressed = @ + 1,
                 !.block = <<>>]
  ELSE s

(* One turn of the loop: the chunk with more of its block, and the input   *)
(* that is left.                                                           *)
FillBlock(s, input) ==
  LET t == FlushBlock(s)
      take == Shorter(BLOCK_LEN - Len(t.block), Len(input))
  IN  [chunk |-> [t EXCEPT !.block = @ \o Taken(input, take)], input |-> Dropped(input, take)]

UpdateChunk(s, input) ==
  LET turn[n \in 0 .. Len(input)] ==
        IF n = 0 THEN [chunk |-> s, input |-> input]
        ELSE LET before == turn[n - 1]
             IN  IF before.input = <<>> THEN before ELSE FillBlock(before.chunk, before.input)
  IN  turn[Len(input)].chunk

ChunkOutput(s) ==
  Output(s.chaining_value, Padded(s.block), Len(s.block), s.chunk_counter,
         s.flags \cup StartFlag(s) \cup {"CHUNK_END"})

ParentOutput(left, right, key, flags) ==
  Output(key, <<left, right>>, BLOCK_LEN, 0, {"PARENT"} \cup flags)

ParentCv(left, right, key, flags) == ChainingValue(ParentOutput(left, right, key, flags))

NewHasher(key, flags) ==
  [chunk_state |-> NewChunk(key, 0, flags), key_words |-> key,
   cv_stack |-> <<>>, flags |-> flags]

(* One merge for each trailing zero of the number of chunks so far.        *)
AddChunkChainingValue(h, newCv, totalChunks) ==
  LET height == Len(h.cv_stack)
      cv[n \in 0 .. height] ==
        IF n = 0 THEN newCv
        ELSE ParentCv(h.cv_stack[height - n + 1], cv[n - 1], h.key_words, h.flags)
      merges == TrailingZeros[totalChunks]
  IN  [h EXCEPT !.cv_stack = Append(Taken(@, height - merges), cv[merges])]

(* A full chunk is closed when more input follows it.                      *)
CloseChunk(h) ==
  IF ChunkSize(h.chunk_state) = CHUNK_LEN
  THEN LET total == h.chunk_state.chunk_counter + 1
           added == AddChunkChainingValue(h, ChainingValue(ChunkOutput(h.chunk_state)), total)
       IN  [added EXCEPT !.chunk_state = NewChunk(h.key_words, total, h.flags)]
  ELSE h

(* One turn of the loop: the hasher with more of its chunk, and the input  *)
(* that is left.                                                           *)
FillChunk(h, input) ==
  LET open == CloseChunk(h)
      take == Shorter(CHUNK_LEN - ChunkSize(open.chunk_state), Len(input))
  IN  [hasher |-> [open EXCEPT !.chunk_state = UpdateChunk(@, Taken(input, take))],
       input |-> Dropped(input, take)]

Update(h, input) ==
  LET turn[n \in 0 .. Len(input)] ==
        IF n = 0 THEN [hasher |-> h, input |-> input]
        ELSE LET before == turn[n - 1]
             IN  IF before.input = <<>> THEN before ELSE FillChunk(before.hasher, before.input)
  IN  turn[Len(input)].hasher

FoldParents(h, output, remaining) ==
  LET after[n \in 0 .. remaining] ==
        IF n = 0 THEN output
        ELSE ParentOutput(h.cv_stack[remaining - n + 1], ChainingValue(after[n - 1]),
                          h.key_words, h.flags)
  IN  after[remaining]

(* The node that finalize takes its output from.                           *)
RootNode(h) == FoldParents(h, ChunkOutput(h.chunk_state), Len(h.cv_stack))

(* Block n of the output.                                                  *)
RootOutputBlock(o, n) ==
  Compress(o.input_chaining_value, o.block, o.block_len, n, o.flags \cup {"ROOT"})

Finalize(h) == RootOutputBlock(RootNode(h), 0)

DeriveKeyContext(context) == Finalize(Update(NewHasher(IV, {"DERIVE_KEY_CONTEXT"}), context))
=============================================================================
