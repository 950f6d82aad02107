---------------------------- MODULE Blake3Hasher ----------------------------
(***************************************************************************)
(* The incremental hasher of src/libs/blake3: any number of updates of any *)
(* lengths, the output of what was accepted so far at any moment, a reset, *)
(* and the interface for hashing subtrees apart (hazmat).                  *)
(*                                                                         *)
(* It compresses whole subtrees at a time and merges them late: a merge    *)
(* waits until more input shows that the parent is not the root.  How the  *)
(* stack of chaining values looks therefore depends on how the input was   *)
(* cut into updates; what the hash is must not.                            *)
(*                                                                         *)
(* Arithmetic is that of a build with debug assertions: what would         *)
(* underflow panics, as a failed assert! does.                             *)
(***************************************************************************)
EXTENDS Blake3Tree

CONSTANTS
  Degrees,    (* the SIMD degrees a machine can have                       *)
  Modes,      (* the modes of hashing tried                                *)
  Offsets,    (* the positions that subtrees are started at                *)
  Lengths,    (* the lengths of updates                                    *)
  MaxInput    (* bound: the units of input up to the end of a subtree      *)

(* The counter of the input is a u64: the tallest tree holds what it can   *)
(* count.                                                                  *)
RoomAssumption ==
  /\ MaxInput \in Nat /\ MaxInput <= CHUNK_LEN * 2 ^ MAX_DEPTH
  /\ Lengths \subseteq Nat /\ Offsets \subseteq Nat

(* The SIMD degrees of Platform are powers of two (1, 4, 8 and 16), and no *)
(* machine has one above the build's greatest.                             *)
DegreesAssumption ==
  /\ MaxSimdDegree \in Nat
  /\ \A degree \in Degrees : degree <= MaxSimdDegree /\ \E d \in 0 .. 4 : degree = 2 ^ d

VARIABLES
  hasher,     (* the Hasher                                                *)
  origin,     (* the chunk the caller last asked to start at               *)
  fed,        (* the units of input accepted since                         *)
  reference,  (* the reference hasher, given the same input from 0         *)
  panicked    (* an assertion has failed in a call; nothing follows        *)

vars == <<hasher, origin, fed, reference, panicked>>

Ref == INSTANCE Blake3Reference

(* The units of input from one position to another.                        *)
Span(from, to) == [i \in 1 .. to - from |-> from + i]

(***************************************************************************)
(* The three modes: a key and the flag of every compression.               *)
(***************************************************************************)
HashDeriveKeyContext(context, degree) ==
  RootHash(HashAllAtOnce(context, IV, {"DERIVE_KEY_CONTEXT"}, degree))

KeyWords(mode, degree) ==
  CASE mode = "Hash" -> IV
    [] mode = "KeyedHash" -> "key"
    [] mode = "DeriveKeyMaterial" -> HashDeriveKeyContext(<<7, 7, 7>>, degree)

FlagsByte(mode) ==
  CASE mode = "Hash" -> {}
    [] mode = "KeyedHash" -> {"KEYED_HASH"}
    [] mode = "DeriveKeyMaterial" -> {"DERIVE_KEY_MATERIAL"}

NewInternal(key, flags, degree) ==
  [key |-> key, chunk_state |-> NewChunkState(key, 0, flags, degree),
   initial_chunk_counter |-> 0, cv_stack |-> <<>>]

(***************************************************************************)
(* The stack of chaining values.                                           *)
(***************************************************************************)
MergeTopTwo(stack, key, flags) ==
  LET n == Len(stack)
  IN  Append(Taken(stack, n - 2),
             ChainingValue(ParentNodeOutput(stack[n - 1], stack[n], key, flags)))

MergeDownTo(h, size) ==
  LET merges == IF Len(h.cv_stack) > size THEN Len(h.cv_stack) - size ELSE 0
      after[n \in 0 .. merges] ==
        IF n = 0 THEN h.cv_stack ELSE MergeTopTwo(after[n - 1], h.key, h.chunk_state.flags)
  IN  [h EXCEPT !.cv_stack = after[merges]]

(* Mutant: nothing is merged before the end.                               *)
MergeNever(h, counter) == h

MergeCvStack(h, counter) == MergeDownTo(h, CountOnes[counter - h.initial_chunk_counter])

PushCv(h, cv, counter) ==
  [MergeCvStack(h, counter) EXCEPT !.cv_stack = Append(@, cv)]

(***************************************************************************)
(* update                                                                  *)
(***************************************************************************)
Count(h) ==
  (h.chunk_state.chunk_counter - h.initial_chunk_counter) * CHUNK_LEN + ChunkCount(h.chunk_state)

(* Mutant: half the subtree's length.                                      *)
HalfSubtreeLen(counter) == (LowestOne[counter] * CHUNK_LEN) \div 2

(* Of a subtree that does not start at chunk 0.                            *)
MaxSubtreeLen(counter) == LowestOne[counter] * CHUNK_LEN

UpdatePanics(h, len) ==
  /\ h.initial_chunk_counter # 0
  /\ \/ h.chunk_state.chunk_counter < h.initial_chunk_counter
     \/ len > MaxSubtreeLen(h.initial_chunk_counter) - Count(h)

LargestPowerOfTwoLeq(n) == NextPowerOfTwo[(n \div 2) + 1]

(* The longest subtree that is all input and starts where a subtree of its *)
(* length may start.                                                       *)
HalveToFit(len, countSoFar) ==
  LET fits[n \in 1 .. len] == IF countSoFar % n = 0 THEN n ELSE fits[n \div 2]
  IN  fits[len]

(* One turn of the loop: the hasher with the next subtree, and the input   *)
(* that is left.                                                           *)
AddSubtree(h, input) ==
  LET s == h.chunk_state
      len == HalveToFit(LargestPowerOfTwoLeq(Len(input)), s.chunk_counter * CHUNK_LEN)
      subtree == Taken(input, len)
      oneChunk == UpdateChunk(NewChunkState(h.key, s.chunk_counter, s.flags, s.simd_degree), subtree)
      pair == CompressSubtreeToParentNode(subtree, h.key, s.chunk_counter, s.flags, s.simd_degree)
      pushed ==
        IF len <= CHUNK_LEN
        THEN PushCv(h, Asserting(len = CHUNK_LEN, ChainingValue(ChunkOutput(oneChunk))),
                    s.chunk_counter)
        ELSE PushCv(PushCv(h, pair[1], s.chunk_counter), pair[2],
                    s.chunk_counter + (len \div CHUNK_LEN) \div 2)
  IN  [hasher |-> [pushed EXCEPT !.chunk_state.chunk_counter = @ + len \div CHUNK_LEN],
       input |-> Dropped(input, len)]

(* What is left after the turns is one chunk at most.                      *)
AddLastChunk(h, input) ==
  IF input = <<>> THEN h
  ELSE MergeCvStack([h EXCEPT !.chunk_state = UpdateChunk(@, input)], h.chunk_state.chunk_counter)

(* No more turns than chunks.                                              *)
UpdateSubtrees(h, input) ==
  LET turns == Len(input) \div CHUNK_LEN
      turn[n \in 0 .. turns] ==
        IF n = 0 THEN [hasher |-> h, input |-> input]
        ELSE LET before == turn[n - 1]
             IN  IF Len(before.input) > CHUNK_LEN THEN AddSubtree(before.hasher, before.input)
                 ELSE before
      Last(t) == AddLastChunk(t.hasher, t.input)
  IN  Last(turn[turns])

UpdateWithJoin(h, input) ==
  LET s == h.chunk_state
      take == Shorter(CHUNK_LEN - ChunkCount(s), Len(input))
      filled == UpdateChunk(s, Taken(input, take))
      closed == [PushCv(h, ChainingValue(ChunkOutput(filled)), s.chunk_counter)
                   EXCEPT !.chunk_state =
                     NewChunkState(h.key, s.chunk_counter + 1, s.flags, s.simd_degree)]
  IN  IF ChunkCount(s) = 0 THEN UpdateSubtrees(h, input)
      ELSE IF take = Len(input) THEN [h EXCEPT !.chunk_state = filled]
      ELSE UpdateSubtrees(closed, Dropped(input, take))

(***************************************************************************)
(* finalize: the hasher is read and left as it is.                         *)
(***************************************************************************)
(* Mutant: one merge, where there may be several.                          *)
MergeOnce(h, output, remaining) ==
  IF remaining = 0 THEN output
  ELSE ParentNodeOutput(h.cv_stack[remaining], ChainingValue(output), h.key, h.chunk_state.flags)

MergeRight(h, output, remaining) ==
  LET after[n \in 0 .. remaining] ==
        IF n = 0 THEN output
        ELSE ParentNodeOutput(h.cv_stack[remaining - n + 1], ChainingValue(after[n - 1]),
                              h.key, h.chunk_state.flags)
  IN  after[remaining]

FinalOutput(h) ==
  LET s == h.chunk_state
      n == Len(h.cv_stack)
  IN  IF n = 0
      THEN Asserting(s.chunk_counter = h.initial_chunk_counter, ChunkOutput(s))
      ELSE IF ChunkCount(s) > 0
      THEN Asserting(n = CountOnes[s.chunk_counter - h.initial_chunk_counter],
             MergeRight(h, ChunkOutput(s), n))
      ELSE Asserting(n >= 2,
             MergeRight(h,
               ParentNodeOutput(h.cv_stack[n - 1], h.cv_stack[n], h.key, s.flags), n - 2))

Finalize(h) == Asserting(h.initial_chunk_counter = 0, RootHash(FinalOutput(h)))

FinalizeNonRoot(h) == Asserting(Count(h) # 0, ChainingValue(FinalOutput(h)))

MergeSubtreesNonRoot(left, right, key, flags) ==
  ChainingValue(ParentNodeOutput(left, right, key, flags))

MergeSubtreesRoot(left, right, key, flags) ==
  RootHash(ParentNodeOutput(left, right, key, flags))

(***************************************************************************)
(* The calls.                                                              *)
(***************************************************************************)
Init ==
  \E mode \in Modes, degree \in Degrees :
    LET refKey == IF mode = "DeriveKeyMaterial" THEN Ref!DeriveKeyContext(<<7, 7, 7>>)
                  ELSE KeyWords(mode, degree)
    IN  /\ hasher = NewInternal(KeyWords(mode, degree), FlagsByte(mode), degree)
        /\ reference = Ref!NewHasher(refKey, FlagsByte(mode))
        /\ origin = 0
        /\ fed = 0
        /\ panicked = FALSE

Position == origin * CHUNK_LEN + fed

Update(len) ==
  /\ ~panicked
  /\ Position + len <= MaxInput
  /\ IF UpdatePanics(hasher, len)
     THEN /\ panicked' = TRUE
          /\ UNCHANGED <<hasher, origin, fed, reference>>
     ELSE /\ hasher' = UpdateWithJoin(hasher, Span(Position, Position + len))
          /\ reference' = IF origin = 0 THEN Ref!Update(reference, Span(fed, fed + len))
                          ELSE reference
          /\ fed' = fed + len
          /\ UNCHANGED <<origin, panicked>>

Reset ==
  LET s == hasher.chunk_state
  IN  /\ ~panicked
      /\ hasher' = [hasher EXCEPT
                      !.chunk_state = NewChunkState(hasher.key, 0, s.flags, s.simd_degree),
                      !.cv_stack = <<>>]
      /\ reference' = Ref!NewHasher(reference.key_words, reference.flags)
      /\ origin' = 0
      /\ fed' = 0
      /\ UNCHANGED panicked

SetInputOffset(offset) ==
  /\ ~panicked
  /\ IF Count(hasher) # 0 \/ offset % CHUNK_LEN # 0
     THEN /\ panicked' = TRUE
          /\ UNCHANGED <<hasher, origin, fed, reference>>
     ELSE /\ origin' = offset \div CHUNK_LEN
          /\ hasher' = [hasher EXCEPT !.chunk_state.chunk_counter = origin',
                                      !.initial_chunk_counter = origin']
          /\ UNCHANGED <<fed, reference, panicked>>

Next ==
  \/ \E len \in Lengths : Update(len)
  \/ Reset
  \/ \E offset \in Offsets : SetInputOffset(offset)

Spec == Init /\ [][Next]_vars
-----------------------------------------------------------------------------
(* The hasher starts where its caller asked it to.                         *)
AtOrigin == hasher.initial_chunk_counter = origin

Key == hasher.key

Flags == hasher.chunk_state.flags

Degree == hasher.chunk_state.simd_degree

(* Whatever lengths the input was cut into, whatever the SIMD degree and   *)
(* the mode, the hash of what was accepted so far is the one the reference *)
(* implementation gives (tests/test.rs compares them at some lengths).     *)
(* Two updates have to leave the stack in different shapes to part them.   *)
FinalizeMatchesReference ==
  AtOrigin /\ origin = 0 => Finalize(hasher) = Ref!Finalize(reference)

(* hash, keyed_hash and derive_key, which have the input at once and no    *)
(* stack, give the hash the incremental hasher gives.                      *)
OneShotAgrees ==
  AtOrigin /\ origin = 0 =>
    RootHash(HashAllAtOnce(Span(0, fed), Key, Flags, Degree)) = Finalize(hasher)

(* A new hasher for a part of the input.                                   *)
StartedAt(from) ==
  [NewInternal(Key, Flags, Degree) EXCEPT
     !.chunk_state.chunk_counter = from \div CHUNK_LEN,
     !.initial_chunk_counter = from \div CHUNK_LEN]

(* The chaining value of a part of the input, by the rules hazmat states:  *)
(* split after left_subtree_len, merge with merge_subtrees_non_root.  The  *)
(* part this hasher was given is finalize_non_root of this hasher.         *)
PartCv(from, to) ==
  LET cv[len \in 1 .. to - from] ==
        [at \in from .. to - len |->
           IF at = origin * CHUNK_LEN /\ at + len = Position THEN FinalizeNonRoot(hasher)
           ELSE IF len <= CHUNK_LEN
           THEN FinalizeNonRoot(UpdateWithJoin(StartedAt(at), Span(at, at + len)))
           ELSE LET left == LeftSubtreeLen(len)
                IN  MergeSubtreesNonRoot(cv[left][at], cv[len - left][at + left], Key, Flags)]
  IN  cv[to - from][from]

(* A subtree hashed apart, with set_input_offset and finalize_non_root,    *)
(* merges with the other parts into the hash of the whole input: its       *)
(* chunks count on from the offset, and its end may be short only at the   *)
(* right edge.  The whole is what was accepted and all that comes before   *)
(* it.  Where left_subtree_len splits the whole, update takes the right    *)
(* part at once: the bound of max_subtree_len never refuses it.            *)
SubtreesMerge ==
  LET middle == LeftSubtreeLen(Position)
  IN  AtOrigin /\ fed > 0 /\ Position > CHUNK_LEN =>
        /\ MergeSubtreesRoot(PartCv(0, middle), PartCv(middle, Position), Key, Flags)
             = RootHash(HashAllAtOnce(Span(0, Position), Key, Flags, Degree))
        /\ ~UpdatePanics(StartedAt(middle), Position - middle)

(* The stack has room for MAX_DEPTH + 1 chaining values, and no more are   *)
(* ever on it: a push beyond would panic in the middle of an update.       *)
StackFits == Len(hasher.cv_stack) <= MAX_DEPTH + 1

(* "This is functionally the same as overwriting the Hasher with a new     *)
(* one" (src/lib.rs:1115-1116): a hasher that was given nothing and   *)
(* no offset is a new one.                                                 *)
ResetIsNew ==
  fed = 0 /\ origin = 0 => hasher = NewInternal(Key, Flags, Degree)
=============================================================================
