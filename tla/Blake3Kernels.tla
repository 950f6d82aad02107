---------------------------- MODULE Blake3Kernels ----------------------------
(***************************************************************************)
(* One call of the platform layer of BLAKE3, on whichever back end the     *)
(* processor has: many inputs hashed (whole chunks, each with a counter of *)
(* its own, or parent nodes), a stream of output blocks, or the blocks of  *)
(* a chunk compressed one after the other.                                 *)
(*                                                                         *)
(* A step is one turn of the loop of the call.  hash_many takes as many    *)
(* inputs as a vector has lanes while there are that many, and the rest    *)
(* one by one; AVX2 hands what it leaves to SSE4.1.                        *)
(*                                                                         *)
(* Bounds: InputCounts, BlockCounts and OutputBlocks are the lengths       *)
(* tried, Counters the first counters.  A counter near 2^8 carries from    *)
(* its lower to its upper word between two inputs of one call.             *)
(***************************************************************************)
EXTENDS Naturals, Sequences

CONSTANTS InputCounts, BlockCounts, OutputBlocks, Counters

VARIABLES
  job,       \* the call: what is asked, of how many inputs, and of which
  backend,   \* the back end whose loop is running
  counter,   \* the counter of the next input or output block
  out        \* the outputs so far, in order

vars == <<job, backend, counter, out>>

LOCAL Words == INSTANCE Blake3Words
Portable == INSTANCE Blake3Portable
Sse2 == INSTANCE Blake3Sse2
Sse41 == INSTANCE Blake3Sse41
Avx2 == INSTANCE Blake3Avx2
Wasm == INSTANCE Blake3Wasm

(* The targets of a build: processors of Intel's line, whose features are  *)
(* found at run time, and those whose back end the build decides.          *)
Targets == {"x86", "x86+sse2", "x86+sse2+sse41", "x86+sse2+sse41+avx2", "wasm32_simd", "other"}

Has(target) ==
  CASE target = "x86+sse2" -> {"sse2"}
    [] target = "x86+sse2+sse41" -> {"sse2", "sse41"}
    [] target = "x86+sse2+sse41+avx2" -> {"sse2", "sse41", "avx2"}
    [] OTHER -> {}

Detect(target) ==
  CASE "avx2" \in Has(target) -> "AVX2"
    [] "avx2" \notin Has(target) /\ "sse41" \in Has(target) -> "SSE41"
    [] Has(target) = {"sse2"} -> "SSE2"
    [] target = "wasm32_simd" -> "WASM32_SIMD"
    [] OTHER -> "Portable"

CompressInPlace(platform, cv, block, blockLen, count, flags) ==
  CASE platform = "Portable" -> Portable!CompressInPlace(cv, block, blockLen, count, flags)
    [] platform = "SSE2" -> Sse2!CompressInPlace(cv, block, blockLen, count, flags)
    [] platform \in {"SSE41", "AVX2"} -> Sse41!CompressInPlace(cv, block, blockLen, count, flags)
    [] platform = "WASM32_SIMD" -> Wasm!CompressInPlace(cv, block, blockLen, count, flags)

CompressXof(platform, cv, block, blockLen, count, flags) ==
  CASE platform = "Portable" -> Portable!CompressXof(cv, block, blockLen, count, flags)
    [] platform = "SSE2" -> Sse2!CompressXof(cv, block, blockLen, count, flags)
    [] platform \in {"SSE41", "AVX2"} -> Sse41!CompressXof(cv, block, blockLen, count, flags)
    [] platform = "WASM32_SIMD" -> Wasm!CompressXof(cv, block, blockLen, count, flags)

-----------------------------------------------------------------------------
(* Input k: its blocks of sixteen words, no two of them alike.             *)
Block(k, b) ==
  Words!Array([i \in 0 .. 15 |-> Words!Wrap(41 * k * k + 29 * k + 67 * b + 5 * i * i + 3 * i + 1)])

Input(k) == Words!Array([b \in 1 .. job.blocks |-> Block(k, b)])

Key == Words!Array([i \in 0 .. 7 |-> Words!Wrap(Words!IV[i] + 31 * i)])

(* Chunks count up and are marked at both ends; a parent node is one block,*)
(* with counter 0 and a flag of its own.                                   *)
Increment == job.kind = "chunks"
Flags == IF job.kind = "parents" THEN Words!PARENT ELSE 0
FlagsStart == IF job.kind = "chunks" THEN Words!CHUNK_START ELSE 0
FlagsEnd == IF job.kind = "chunks" THEN Words!CHUNK_END ELSE 0

Jobs ==
  [kind : {"chunks"}, platform : {Detect(t) : t \in Targets}, n : InputCounts,
   blocks : BlockCounts, first : Counters]
    \cup [kind : {"parents"}, platform : {Detect(t) : t \in Targets}, n : InputCounts,
          blocks : {1}, first : {0}]
    \cup [kind : {"xof", "chain"}, platform : {Detect(t) : t \in Targets}, n : OutputBlocks,
          blocks : {1}, first : Counters]

Init ==
  /\ job \in Jobs
  /\ backend = job.platform
  /\ counter = job.first
  /\ out = <<>>

-----------------------------------------------------------------------------
Remaining == job.n - Len(out)

(* The next inputs of the call, one to a lane, and the next alone.         *)
NextInputs(degree) == Words!Array([l \in 0 .. degree - 1 |-> Input(Len(out) + l + 1)])

NextInput == Input(Len(out) + 1)

(* One turn of the loop over full vectors: degree inputs at once.          *)
HashVector(degree, hashes) ==
  /\ job.kind \in {"chunks", "parents"}
  /\ Remaining >= degree
  /\ out' = out \o [j \in 1 .. degree |-> hashes[j - 1]]
  /\ counter' = IF Increment THEN counter + degree ELSE counter
  /\ UNCHANGED <<job, backend>>

(* One turn of the loop over what is left, a full vector being too many.   *)
HashSingle(degree, hash) ==
  /\ job.kind \in {"chunks", "parents"}
  /\ Remaining \in 1 .. degree - 1
  /\ out' = Append(out, hash)
  /\ counter' = IF Increment THEN counter + 1 ELSE counter
  /\ UNCHANGED <<job, backend>>

PortableHashMany ==
  /\ backend = "Portable"
  /\ HashSingle(job.n + 1, Portable!Hash1(NextInput, job.blocks, Key, counter,
                                          Flags, FlagsStart, FlagsEnd))

Sse2HashMany ==
  /\ backend = "SSE2"
  /\ \/ HashVector(4, Sse2!Hash4(NextInputs(4), job.blocks, Key, counter, Increment,
                                Flags, FlagsStart, FlagsEnd))
     \/ HashSingle(4, Sse2!Hash1(NextInput, job.blocks, Key, counter,
                                Flags, FlagsStart, FlagsEnd))

Sse41HashMany ==
  /\ backend = "SSE41"
  /\ \/ HashVector(4, Sse41!Hash4(NextInputs(4), job.blocks, Key, counter, Increment,
                                Flags, FlagsStart, FlagsEnd))
     \/ HashSingle(4, Sse41!Hash1(NextInput, job.blocks, Key, counter,
                                Flags, FlagsStart, FlagsEnd))

WasmHashMany ==
  /\ backend = "WASM32_SIMD"
  /\ \/ HashVector(4, Wasm!Hash4(NextInputs(4), job.blocks, Key, counter, Increment,
                                Flags, FlagsStart, FlagsEnd))
     \/ HashSingle(4, Wasm!Hash1(NextInput, job.blocks, Key, counter,
                                Flags, FlagsStart, FlagsEnd))

(* What is too little for AVX2 is left to SSE4.1.                          *)
Avx2Leave ==
  /\ job.kind \in {"chunks", "parents"}
  /\ Remaining < 8
  /\ backend' = "SSE41"
  /\ UNCHANGED <<job, counter, out>>

Avx2HashMany ==
  /\ backend = "AVX2"
  /\ \/ HashVector(8, Avx2!Hash8(NextInputs(8), job.blocks, Key, counter, Increment,
                                Flags, FlagsStart, FlagsEnd))
     \/ Avx2Leave

(* One block of output, of a short last block of input.                    *)
XofMany ==
  /\ job.kind = "xof"
  /\ Remaining > 0
  /\ out' = Append(out, CompressXof(job.platform, Key, Block(1, 1), 5, counter, Words!ROOT))
  /\ counter' = counter + 1
  /\ UNCHANGED <<job, backend>>

(* One block of a chunk into the chunk's chaining value.                   *)
CompressBlock ==
  /\ job.kind = "chain"
  /\ Remaining > 0
  /\ LET cv == IF out = <<>> THEN Key ELSE out[Len(out)]
         flags == IF out = <<>> THEN Words!CHUNK_START ELSE 0
     IN  out' = Append(out, CompressInPlace(job.platform, cv, Block(1, Len(out) + 1),
                                            Words!BlockLen, counter, flags))
  /\ UNCHANGED <<job, backend, counter>>

Next ==
  \/ PortableHashMany
  \/ Sse2HashMany
  \/ Sse41HashMany
  \/ WasmHashMany
  \/ Avx2HashMany
  \/ XofMany
  \/ CompressBlock

Spec == Init /\ [][Next]_vars

-----------------------------------------------------------------------------
RefCompressInPlace(cv, block, blockLen, count, flags) ==
  LET s == Words!RefCompress(cv, block, count, blockLen, flags) IN Words!Array([i \in 0 .. 7 |-> s[i]])

LOCAL RefBlocks == INSTANCE Blake3Blocks WITH CompressInPlace <- RefCompressInPlace

(* However the inputs of a call are grouped into vectors and leftovers,    *)
(* and whichever back end takes over in between, the output at a place is  *)
(* the hash the reference implementation gives the input of that place,    *)
(* with that input's own counter, also where the counters of one vector    *)
(* differ in their upper words.                                            *)
EachInputOwnHash ==
  job.kind \in {"chunks", "parents"} =>
    \A k \in DOMAIN out :
      out[k] = RefBlocks!HashBlocks(Input(k), job.blocks, Key,
                 IF Increment THEN job.first + k - 1 ELSE job.first,
                 Flags, FlagsStart, FlagsEnd)

(* Every back end's row by row compression, with its shuffled messages and *)
(* its own blends, is that of the reference implementation: in place, a    *)
(* chunk's chaining value is handed from block to block; extended, block k *)
(* of the output is that of the k-th counter.                              *)
CompressionsAgree ==
  /\ job.kind = "xof" =>
       \A k \in DOMAIN out :
         out[k] = Words!RefCompress(Key, Block(1, 1), job.first + k - 1, 5, Words!ROOT)
  /\ job.kind = "chain" =>
       \A k \in DOMAIN out :
         out[k] = RefCompressInPlace(IF k = 1 THEN Key ELSE out[k - 1], Block(1, k),
                    Words!BlockLen, job.first, IF k = 1 THEN Words!CHUNK_START ELSE 0)
=============================================================================
