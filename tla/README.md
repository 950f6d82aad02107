# Verification of the Amadeus Hard Hack suite

TLA+ modules for the Hard Hack suite (`src/`): the proof-of-work miners, the
Merkle prover, the NTT prover, the scripts that run them against a server, and
the BLAKE3 library that comes with the suite, with its tool `b3sum`.
TLC checks the models on small instances; TLAPS proves the theorems for every
value of the constants.

Contents: [inventory](#inventory), [plan](#plan),
[modules and correspondence](#modules-and-their-correspondence-to-the-code),
[runs](#runs), [fairness](#fairness), [proofs](#proofs),
[disagreements](#what-the-runs-refute), [limits](#what-is-not-modelled).

## Inventory

| Component | Source | State | Operations | What makes it correct |
|---|---|---|---|---|
| Nonce search | `src/miner.cpp` | per thread: seed with nonce, matrices, counters; shared: `found_global`, `final_res`, `total_iterations` | `mine`: OpenMP region, loop, three critical sections | one genuine solution, never lost, no work twice, budget kept, it returns |
| Difficulty check | `check_diff_fast`, `check_difficulty` | none | one call per hash | accepts exactly the hashes with enough leading zero bits |
| CPU matmul | `src/compute_cpu.cpp` | the 16x16 accumulators | `matmul` | exact integers in 32 bits |
| TT matmul | `src/compute_tt.cpp`, `src/kernels/` | DRAM buffers, command queue, three circular buffers, tile registers | host `matmul`; reader, compute, writer kernels | tiles paired in order, each caller gets its own whole product, no kernel waits for ever |
| Miner command line | `src/main.cpp` | the digits of the encoder | arguments, `encode_base58`, one line of JSON | the text decodes to the solution |
| Merkle tree | `src/merkle.cpp` | rows of hashes, root, leaf count, height | `build_tree`, `generate_proof`, `verify_proof` | the root commits to the leaves, proofs verify, no proof from a stale tree |
| Merkle prover | `src/merkle_prover_main.cpp` | none between runs | parse, build, prove, verify, print | status says whether the proof verifies |
| NTT prover | `src/prover_main.cpp` | one vector, in place | bit reversal, levels of parallel butterflies | the transform by its definition, in every schedule |
| Python miner | `miner_openblas.py` | round's seed and difficulty, device, best hash | fetch, validate, search (exact, fast), submit, report | the first solution is returned and the device given back; rounds go on |
| Mining script | `mine.sh` | `/tmp/miner_result.json` | fetch, run under `timeout`, parse, submit, remove | the round's own result is submitted, once |
| Proving script | `merkle_prove.sh` | `TREE_SIZE`, kept from round to round | fetch, prove, submit, pause | each answer is for its own workload |
| BLAKE3: hasher | `libs/blake3/src/lib.rs` | chunk state, stack of chaining values, initial chunk counter | `new` and its keyed forms, `update`, `finalize`, `reset`, one-shot hashes | the hash does not depend on how the input is cut into updates, on the SIMD degree, or on having it at once |
| BLAKE3: hazmat | `libs/blake3/src/hazmat.rs` | the same | `set_input_offset`, `finalize_non_root`, merges, subtree lengths | parts hashed apart merge into the hash of the whole |
| BLAKE3: reference | `reference_impl.rs` | chunk state and stack, simpler | `update`, `finalize` | what the others are compared with |
| BLAKE3: output reader | `OutputReader` in `lib.rs` | block counter, place in the block | `fill`, `set_position`, `seek` | reads are reads of one stream |
| BLAKE3: platform layer | `platform.rs`, `portable.rs`, `rust_*.rs`, `wasm32_simd.rs` | vectors of words | `detect`, `hash_many`, `xof_many`, `compress` | every back end gives each input its own hash |
| b3sum | `b3sum/src/main.rs` | files, lines, exit status | hash files, print lines, `--check` | a check says OK of the file hashed, unchanged, and of no other |
| Build files | `CMakeLists.txt`, `Dockerfile`, `seed_template.json` | none at run time | | not modelled |

How they interact: `mine.sh` runs `hardhack_miner` (`main.cpp`), which calls
`Miner::mine`, whose threads all call `matmul` on one `ComputeDevice`, of the
CPU or of Tenstorrent; the miner's output reaches the script through a file.
`merkle_prove.sh` runs `hardhack_merkle_prover`, which builds one `MerkleTree`;
the output reaches the script through a pipe. `miner_openblas.py` and the NTT
prover stand alone. Scripts and the Python miner talk to a server over HTTP.
Miner, Merkle prover and NTT prover hash with the C version of BLAKE3; `b3sum`
is built on the Rust version, whose `Hasher` cuts the input into subtrees, hands
chunks and parents to the platform layer several at a time, and gives the root
to an `OutputReader`.

Hard behaviours: threads that race on `found_global`; one command queue shared by
all threads; three kernels in step over buffers of two pages; parallel
butterflies in place; a miner killed by its time limit between two writes, or
left alive by a killed script; requests and devices that fail; sizes kept from
one workload to the next; odd rows of a tree; arithmetic at the edges of words.
In BLAKE3: merges that wait to know whether a parent is the root, while updates
end anywhere; a short chunk after a group hashed together; counters that carry
between lanes of one vector; masks and orders of lanes in each back end; reads
that begin and end inside blocks. In `b3sum`: files that change between hash and
check, and names that are escaped, printed with losses, or contain the marks at
which a line is split.
`PROJECT.json` lists each hazard at its line with the properties about it.

## Plan

Order in which the modules were and will be written: the search first, since every
submission depends on it, then what it calls, then what calls it.

1. `NonceSearch`, `Miner`, `MCMiner`, `MinerProofs`: done.
2. `MerkleTree`, with its promise in `MerkleShape`: done. Composed into
   `MerkleService`, which takes the promise for the prover: done.
3. `CircularBuffer`, `TTMatmul` (composes the buffers with the host, the queue
   and the kernels): done.
4. `MineScript`, `PyMiner`, `Ntt`, `Solution`: done.
5. BLAKE3: `Blake3Compress`, `Blake3Tree` and `Blake3Hasher` against
   `Blake3Reference`; the platform layer against `Blake3Words`; `OutputReader` and its
   promise `ByteStream`: done. `B3sum`: done.
6. Proofs: `MinerProofs`, `TTMatmulProofs`, `MerkleTreeProofs`, `ScriptsProofs`,
   `NumericsProofs`, `Blake3HasherProofs`, `Blake3Proofs`, and what they share, `Arithmetic`:
   done.
7. Still to do, modelling: an abstract multiplier (one call, one product) that
   `TTMatmul` is to implement, and an abstract submitter for `MineScript`; several
   trees and their proofs side by side; the worker pool of the exact search, should
   its first line be repaired; `b3sum` on standard input and with keys.
8. Still to do, proofs: the second half of ComputesTransform, which needs the algebra
   of roots of unity; that a lane of a vector back end computes what the portable
   one does, round by round.

## Modules and their correspondence to the code

`PROJECT.json` maps every definition to its lines. Mutated definitions, each
headed by a comment that begins with "Mutant", stand before the definition that
they would replace; no specification uses them.

**`Miner`** is `Miner::mine`. Each thread has a program counter: the loop condition
(`test`), nonce to hash (`try`), the claim, the two counters, the progress report,
the tally. The three `omp critical` sections are unnamed and so share `lock`.
`found_global` is read without it: a data race. `FoundSeenBy` lets such a read give
the current value or, until the thread has itself taken the lock after the write,
the old one (`synced` remembers which). 64- and 32-bit counters wrap at `Word64` and
`Word32`. `winning` is the set of nonces that meet the difficulty, any member of
`HitSets`. `tried` and `printed` are history. **`NonceSearch`** is the promise: try,
settle once on something tried, finish; `Miner` implements it by the mapping at its
end (a hash is a Try, the recording claim a Settle, the return a Finish).

**`TTMatmul`** has one process for each caller, the command queue, the three kernels
(the compute kernel as two, math and pack, as TT-Metal runs it), and the
network-on-chip, which delivers and stores asynchronously until a barrier. A tile
is known by matrix, call and number; a sum is the sequence of the pairs multiplied.
`CircularBuffer` gives the buffers. Queue, buffers, noc and registers belong to
TT-Metal and are marked external: the queue runs its commands in order, and
acquiring the registers clears them.

**`MerkleTree`** is one object; each pass of a loop is a step. A hash is the term of
what was hashed. `leaf_count_` and `tree_height_` start indeterminate.
**`MerkleShape`** says in closed form which proofs verify; `VerdictExplained` checks
`MerkleTree` against it.

**`MerkleService`** is a loop of `merkle_prove.sh` with the prover as one step, using
`MerkleShape` for the outcome. A workload may lack any field; a failed request
lacks all. `heard` and `submitted` are history.

**`MineScript`** has the script, a miner per round, and the file. The result line is
some 4300 bytes, more than the 4096 bytes of a stdio buffer, so it reaches the file in two
writes: `WriteHead`, `WriteRest`. `Timeout` is the SIGTERM of `timeout`. A killed script
leaves its miner running, attached to the file until that is unlinked.

**`PyMiner`** is `main` with the fast search nonce by nonce and the exact search as
its one reachable step, an exception. `bits` is what each nonce's hash has in
leading zeros, any values; nothing ties a difficulty to a seed.

**`Ntt`** is `ntt_optimized` over a small field. Each butterfly is two steps, read
and write, and each block has its own: that is more schedules than OpenMP has,
which hands several blocks to a thread. `power` is a recursive function.

**`Blake3Hasher`** is `Hasher`: `update` with its subtrees (`Blake3Tree`), the lazy stack,
`finalize`, `reset`, and `hazmat`. A `debug_assert!` or a subtraction that fails is the value
`AssertionFailed`, an `assert!` of `set_input_offset` or `update` sets `panicked`. Compression
(`Blake3Compress`) is ideal: the term of its arguments, so that hashes are equal only
when the whole tree of compressions is. `reference` is the hasher of **`Blake3Reference`**,
fed the same input. A unit of input is one half of a block: a block has two, a
chunk four blocks, where the code has 64 bytes and 16 blocks.

**`Blake3Kernels`** is one call of the platform layer, one turn of its loop a step, on each
back end that `detect` can choose. Here compression is computed, on words of 8 bits
with rotations by the same fraction of a word. **`Blake3Words`** has the reference's
compression, `Blake3Blocks` the loop over the blocks of an input. The vector back ends
share `Blake3Lanes` (instructions on lanes), `Blake3Rows` (one compression, four rows
in vectors) and `Blake3Columns` with `Blake3Squares` (as many inputs as lanes, transposed in
and out); `Blake3Sse2`, `Blake3Sse41`, `Blake3Avx2` and `Blake3Wasm` give each its own
blends, shuffles, transpositions and counters, `Blake3Portable` is the plain one.

**`OutputReader`** keeps `counter` and `position_within_block`; a byte is known by its block
and place. `call` is a history variable: what the caller last asked for. The reader
implements **`ByteStream`**, reads and jumps of one stream, in which a jump, from the start or
from where the reader is, goes where it was asked to or to the last position.

**`B3sum`** runs `b3sum` over one or two files and then `b3sum --check` over what it printed, with
a file changed by someone else at any moment. A line is a sequence of characters by
class: those the parser looks for, and any other. Its operators have the
names of the functions.

`MCBlake3`, `MCNumerics` and `MCScripts` put programs of one kind into one run: the
initial state chooses the program (or part), the others rest, and they share no
state; so the run's states are those of each, added. `MCMiner` and `MCMerkleTree` only
give constants their values. `Blake3Incremental` is the share of the hasher in `MCBlake3`, its
constants, variables and assumptions, in a module of its own for the proofs.

**`Solution`** follows one seed through the arithmetic: one element of C in a word of
`WordBytes`, the check, Base58 byte by byte. The nested loop over digits is one step.
The hash is any sequence of bytes.

## Runs

| Run | Instance | What it shows |
|---|---|---|
| `miner` | 2 threads, quota 4, words of 10 and 4 values, every set of winners; 79 thousand states | the search's safety, FirstClaimWins, refinement of `NonceSearch`, Termination |
| `tt_matmul` | 2 calls, 3 tiles, buffers of 2 pages | PairsInOrder, OwnResult, EveryCallReturns |
| `merkle_tree` | lists of 1 to 6 leaves and none, 2 builds; 99 thousand | RootIsOneHash, RootCommits, NoStaleTree, VerdictExplained |
| `scripts` | `mine.sh`: 3 rounds, 2 kills; `miner_openblas.py`: 3 nonces, up to 2 bits, all options; `merkle_prove.sh`: sizes 0, 1, 5, indexes none, 1, 4, 3 rounds; 440 thousand | SubmissionExplained, SubmittedOnce, WholeResultSubmitted, RoundEnds; FirstSolutionReturned, DeviceReturned; AnswersItsWorkload, AnsweredIffProvable; RoundsGoOn of both loops |
| `numerics` | transform: field of 17, 8 elements, 64 seeds; solution: 2 terms, 3-byte words, 2-byte hashes; 138 thousand | ReadsStayCurrent, ComputesTransform; ProductIsExact, ChecksLeadingZeros, TextDecodes |
| `blake3` | chunks of 4 blocks, up to 16 chunks, degrees 1, 2, 4; calls of 1 to 13 inputs; 20 positions of output; ten file names; 328 thousand | FinalizeMatchesReference, OneShotAgrees, SubtreesMerge, StackFits; EachInputOwnHash, CompressionsAgree; ReadsOneStream; CheckVouches, ListedFilesPass |
| `miner_count`, `merkle_odd`, `tt_result`, `py_exact`, `blake3_reset`, `b3sum_tagged` | as the passing run of the module, or smaller | violations: see below |

Every property is stated in words above its definition. Each has a mutant, a
plausible slip at a mapped definition, under which TLC finds it violated.

The bounds and why they are enough. *miner*: two threads are the least that race,
and every safety property is proved for any number; the
stretches touch (nonces 1 to 4 and 5 to 8 of 0 to 9), so an off-by-one would
collide; 9 iterations leave a remainder; a report every second pass leaves totals
both printed and standing. *tt_matmul*: three tiles through two pages reuse a page
and two calls reuse the core and its old bytes. *merkle_tree*: six leaves give odd
rows at the bottom, in the middle, and none; two builds suffice for stale state.
*scripts*: three rounds and two kills put two orphans on one file; three nonces
distinguish first, best and last; three rounds of the Merkle loop let a size be
named, waited over, and used. *numerics*: three levels with four, two and
one blocks; every seed of the word, those that wrap included; the
extreme bytes bound the sum, and three-byte words hold two terms as four bytes hold
50240 (50240 * 255 * 128 < 2^31). *blake3, hasher*: sixteen chunks are the
most that MAX_DEPTH allows, and updates of 32, 32, 32, 16 and 16 bytes fill the stack to
its last place; there are subtrees of one, two, four and eight, aligned and not, complete
and not; the lengths end before, at and after a block, a chunk and a subtree; degrees one,
two and four are below, at and above the two children a parent needs. *blake3, platform*:
input counts below, at and above four and eight lanes, with leftovers; counter 250
carries into the upper word inside a call; three blocks have a first, a middle
and a last. *blake3, reader*: blocks of four bytes and reads of up to eleven have
every combination of the three pieces of a read, and the last byte there is.
*blake3, b3sum*: the ten names have each escape, each mark, and what cannot be
printed; two files in one command may have the same printed name.

## Fairness

`FairSpec` of `Miner`, `TTMatmul` and `MCScripts`, only where a liveness property needs it, and only weak:
the operating system runs every thread of an OpenMP team, each kernel has a
processor of its own, the shell goes on with its script, `timeout` keeps its time,
and a Python request has a timeout of ten seconds. Nothing is assumed of a
miner's luck, of the user (kills, Ctrl-C) or of the server. `curl` in the scripts has
no time limit: that it returns is an assumption of `RoundsGoOn` and
`RoundEnds`. The lock of `Miner` needs no strong fairness, since every thread takes
it a bounded number of times.

## Proofs

`MinerProofs` proves, for any number of threads, word sizes, budget and set of
winning nonces under `MinerAssumption` (the budget fits the word, the counts are
positive, `NoNonce` is no nonce):

| Theorem | Says |
|---|---|
| `TypeCorrectness` | `Spec => []TypeOK` |
| `NoDuplicateWork` | `Spec => []NoNonceTriedTwice` |
| `GenuineSolution` | `Spec => []SolutionIsGenuine` |
| `NoSolutionLost` | `Spec => []NoLostSolution` |
| `OneHitPerThread` | `Spec => []AtMostOneHitPerThread` |
| `FirstClaimFinal` | `Spec => FirstClaimWins` |
| `ProgressIsConserved` | `Spec => []ProgressConserved` |
| `BudgetIsRespected` | `Spec => []BudgetRespected` |
| `MinerImplementsSearch` | `Spec => ImplementsSearch` |

None of the invariants is inductive. `IInv` adds: where each thread's nonce stands
in its stretch and what it has tried (*Stretches*), that a thread about to claim
holds the product of its own nonce (*OwnProduct*), that whoever holds the lock knows
`found_global` (*HolderSynced*), and that a thread which met the difficulty is on its
way to the lock, or has been through it and will not pass the loop condition again
(*HitsStop*). The first rests on arithmetic: a quota fits a stretch and the
stretches fit the word (`StretchFits`), so nonces are injective in thread and pass
(`NonceOfInjective`). *HitsStop* carries the argument about the race: a stale read is
harmless because a thread that has won has synchronised. Progress, which is thread 0's
alone, has an invariant of its own, by `NextPeriod`, and so has the budget: until something is found, each
thread that has finished has added its quota to the result (`BudgetInv`); that no more
is hashed than the budget allows follows from numbering the nonces by thread and
pass (`WithinBudget`). The proof has a lemma for each action.

`TTMatmulProofs`, for any number of calls and tiles and buffers of any number of pages
(`TTAssumption`, `CircularBufferAssumption`): `TilesPaired` (PairsInOrder) and
`CallsGetTheirSum` (OwnResult). A buffer *holds* tile k in page k mod `Pages` for every k
pushed and not popped, and filling the next page disturbs none of them
(`SlotsDiffer`, `FillHolds`); where the reader and the math thread are tells the counters
(*ReaderOK*, *MathOK*), so that the fronts of both buffers have the same number; what
is on the way to DRAM is the whole sum (*OutOK*). On the host's side, a launch stands
behind the writes of its sources or these are done, a read is queued only when the
sum is stored (*QueueOK*), and what a call waits for is done or queued (*CallOK*).

`Arithmetic` has what several proofs need of the numbers. The library's induction
theorems take a predicate, which the provers cannot instantiate; `Induction` here is
stated of a set of numbers (`LeastNat`, its foundation, comes from the library's
theorem that a set of finite sets has a minimal one), and so serves for what recursive
functions and folds compute; `HalvesExist` gives a function that asks for its own value at a
smaller number. Powers of two are counted as subsets (`PowerIsCount`),
since the provers do not know exponentiation. It also has the binary trees over rows of
values, for any merge of two values (*Tree*, `TreeSplits`, `UpAbove`, `TreeFolds`).

`MerkleTreeProofs`, for any lists of leaves (`MerkleAssumption`): `TreeHasOneRoot`
(RootIsOneHash), `RootCommitsToLeaves` (RootCommits), `NoProofOfStaleTree` (NoStaleTree)
and `VerdictIsExplained` (VerdictExplained). The loop that counts the height and the
loop that fills the rows are tied by the length that each row is going to have. A
row is determined by the row above it, of whatever length, so two towers of rows that
end in one root are equal from the top down; the shorter would have leaf hashes where
the other has parents, which no leaf hash is. What `verify_proof` has folded together is
the node above the leaf as long as each node on the way had a sibling, and after one
that had none it never is again, for a hash is longer than what it hashes.

`ScriptsProofs` has the three programs that run in rounds, each for itself and then in
`ProgramSpec`, where the initial state chooses one (`ScriptsAssumption`; the constants are
any numbers of rounds, kills, iterations, bits, and any workloads).
- `mine.sh`: `TypeCorrectness`, `SubmissionIsExplained`, `SubmissionIsNew`,
  `ResultIsSubmitted`, together `MineShIsSafe`. Three invariants: who may still write into
  the file (*FileExplained*: the truncation at a round's start, and that no miner comes to
  life later), whose second half is new (*ResultsFresh*: who wrote a second half has
  ended), and that a whole result is on its way (*ResultsKept*, stage by stage).
- `miner_openblas.py`: `FirstIsReturned` (FirstSolutionReturned), since the best hash so far is
  below the difficulty while the search runs, and `DeviceIsGivenBack` (DeviceReturned).
- `merkle_prove.sh`: `AnswersTheirWorkloads` (AnswersItsWorkload) and
  `AnsweredOnceIfProvable` (AnsweredIffProvable). The script keeps one TREE_SIZE; *SizesOK*
  ties it to the last workload that named a size. That there is a last one is part of
  the invariant and grows with the history. A round is *Settled* when its answer, if
  it deserves one, has been sent.

`NumericsProofs`, for vectors of any power of two (`NttAssumption`), and for hashes,
difficulties and rows of any length and words that fit them (`SolutionAssumption`):
- `NoRace` (ReadsStayCurrent). Blocks begin at multiples of `len` and stay within `len`
  elements, so they are disjoint (`BlocksDisjoint`); they stay within the vector because
  `len` divides `N`.
- `StaysInField`, the first half of ComputesTransform: the reversed counter stays
  within the vector, which needs that `N` is a power of two (by induction on its
  halves), `power` is reduced, and the sum of two reduced elements fits the word.
- `ProductStaysExact` (ProductIsExact): every partial sum lies within the bounds that
  `SolutionAssumption` gives the whole one, so the signed word is the sum itself. The
  code has 50240 terms in 32 bits.
- `CheckCountsLeadingZeros` (ChecksLeadingZeros): the upper bits of a byte are zero exactly
  if the masked byte is (`HighBitsMean`, by induction on the bits), and the whole bytes
  before it are eight bits each.
- `TextStandsForBytes` (TextDecodes), for solutions of any length. The invariant
  *EncodingInv* says that the digits are worth the bytes read so far and have no zero on
  top. One byte more multiplies the digits by 256 with a carry; what the digits below a
  place are worth, together with the carry out of it, is what they were worth before,
  256 times, plus the byte (`PlaceAdded`, `ByteAdded`, by induction on the places), and
  what is left of the carry becomes new digits (`DigitsMean`). Without a zero on top, n
  digits are worth at least 58^(n - 1), m bytes less than 256^m, and eleven digits hold
  eight bytes (`ElevenHoldEight`, `BytesFit`): so the digits fit the buffer of 138/100 of the
  length (`DigitsFitBuffer`). The leading ones are the leading zero bytes if the
  solution is not all zero (`ZerosInFront`): one that is would get a one too many. No
  such solution is encoded, because the nonce in its seed is counted up, over all of
  its twelve bytes, before the seed is first hashed (`miner.cpp:53-54`); this is a part
  of `SolutionAssumption`.

`Blake3Proofs`, for blocks, streams and reads of any length (`BlockAssumption`,
`PositionAssumption`), and for any names, arguments and number of changes
(`NamesAssumption`):
- `TypeCorrectness` and `ReaderStreams` (ReadsOneStream; `ReaderIsAStream` is the reader alone).
  The two names of a byte agree by division; `FillArithmetic` says how long each of the
  three pieces of a read is and where it starts, and so that they join; every `Fill` is
  then a `Read`, every seek a `Jump` to what was asked for (`SeekJumps`).
- `CheckIsTrue` (CheckVouches) and `ListedFilesDoPass` (ListedFilesPass). Both rest on reading back
  what was printed, from the inside out: `unescape` undoes the escapes
  (`UnescapeUndoes`), a path reads back as the name of its file unless a character was
  replaced (`PathReadsBack`), a line is split where its hash is or into something that is
  no hash (`SplitPlain`, `SplitTagged`), so a line is read as what it was printed for or
  refused (`LineReadsBack`), and a checkfile is cut into the lines that were printed, since
  none holds an end of a line (`Tails`, `FirstLine`). The invariant *CliInv* follows both
  commands; its part *CliLines* says that the lines not yet judged are those left in the
  checkfile, and *CliVerdicts* what may be said of each that was.

`Blake3HasherProofs`, for any chunk length that is a power of two from 2 to 2^30 units of
half a block, any depth of the tree, offsets, modes, cuts of the input and machines
(`SizesAssumption`, `RoomAssumption`, `DegreesAssumption`). It EXTENDS `Blake3Incremental`, the
hasher with its state in a run of all parts and nothing else, because the cost of a proof
step grows with every module in sight. `RoomAssumption` is that the input has at most
2^MAX_DEPTH chunks: the code counts chunks in a u64 and has MAX_DEPTH = 54, with chunks of
2^10 bytes (`lib.rs:168`, 1070). `DegreesAssumption` is that SIMD degrees are powers of two,
none above MAX_SIMD_DEGREE (`platform.rs:4-20`, 102-121).
- One tree is behind all four properties. Over a row of leaves (the chaining values of
  chunks) *Tree* (in `Arithmetic`) is defined by halving the row; `Subtree` is its value for a part of the
  input. The code comes to it in four ways, each with a lemma that it arrives:
  - rows of parents from the bottom, `simd_degree` at a time, which is
    `compress_subtree_wide` (`Above`, `Up`; `WideIs` and what it rests on);
  - a split where the longest complete subtree ends, which is `hash_all_at_once` and
    `left_subtree_len` (`TreeSplits`);
  - one chunk at a time, merging as often as there are zeros at the end of the count,
    which is the reference implementation (`Carried`);
  - merging as late as possible what waits on the stack, which is `Hasher` (`Settles`).
- What waits after n leaves has one value for each one in the binary digits of n (`Waits`);
  folded from the top of the stack with a last leaf, it is the tree (`TreeFolds`).
- The compression is a term of what is compressed, and so ideal. `Vals` is a set of
  values that it does not lead out of, which the functions over values need for a
  domain. A chunk's value does not depend on how its units are cut (`ChunkUpdated`,
  `RefChunkUpdated`), nor on whether it is hashed alone or in a group (`ChunkHashed`).
- `HasherIsTree`: the invariant *HasherInv*. None of the four properties is inductive, for
  they compare what two programs would return, and the lazy stack is not determined by
  the input: after a push the last subtree may be merged with those before it, or not
  yet. *HasherAt* says in which states n units from a starting chunk can leave the hasher,
  up to that choice; `update` leads from one of them to another, through its three stages
  (the open chunk, the subtrees, the last chunk). The reference is at the state of the
  same input (*RefAt*). A hasher that was reset after an offset is the exception: its
  initial chunk counter stays, so that it can only panic or be reset again.
- From it `FinalizeIsReference`, `OneShotIsFinalize`, `PartsAreWhole` and `StackStaysLow`. For the
  last, a push is preceded by a merge down to as many values as there are ones in the
  number of chunks so far, and these are no more than its digits (`OnesFit`). For the
  third, the right part starts at a chunk that is a multiple of the left part's length, so
  no merge of it can reach beyond, and `max_subtree_len` does not refuse it.
- Loops are recursive functions of their turns in the model, with a lemma that each
  function exists (`HalvesExist`); what one computes is by `Induction`.

`Blake3Proofs` takes these to the whole: a run of `PartSpec` that starts as the hasher is a run
of the hasher (`HasherRuns`), any other never is one. So `HashIsReference`
(FinalizeMatchesReference), `OneShotIsIncremental` (OneShotAgrees), `SubtreesAreMerged`
(SubtreesMerge) and `StackHasRoom` (StackFits).

Only model-checked:
- liveness (Termination, EveryCallReturns, RoundEnds, RoundsGoOn), out of the provers' reach;
- EachInputOwnHash and CompressionsAgree: seven rounds on sixteen words, in the order of
  lanes of each back end; a large computation in which only the number of inputs
  and of blocks varies;
- ComputesTransform beyond StaysInField: needs sums over roots of unity in a prime field.

## What the runs refute

- `miner_count`: `final_res.iterations` is not the number of hashes
  (`miner.cpp:77`, 108), though `main.cpp` prints it as such.
- `merkle_odd`: an inclusion proof whose path meets the last node of an odd row is
  rejected: the tree hashes that node alone, the comment says "with itself", and
  the proof has it twice (`merkle.cpp:79-80`, 124).
- `tt_result`: the writer kernel stores 1024 of the bytes of which the host reads
  up to 1984 (`writer_matmul.cpp:13`, `compute_tt.cpp:204-209`).
- `blake3_reset`: a `Hasher` that was reset after `set_input_offset` is not a new one: its
  initial chunk counter stays (`lib.rs:1117`), though the comment above says that it
  is the same as overwriting it with a new one.
- `b3sum_tagged`: a line of `b3sum --tag` for a name with two spaces in a row is refused
  by `--check` (`main.rs:375` tries the untagged form first), though
  `what_does_check_do.md:153` says that any valid Unicode name can be checked.
- `py_exact`: the exact mode of `miner_openblas.py` raises a TypeError (line 203).

Also met, and stated here only: README.md:153 says that the scripts have a
`LOCAL_TEST=true` flag, but `mine.sh:5` defaults to false; README.md:98 names
`miner_local_seedfile.py`, which the repository does not have; a successful search of
`miner_openblas.py` without `--loop` ends in an exception, for line 553 prints bytes
as JSON (in `PyMiner` as `PrintResult`); Ctrl-C in the pause of line 551 is not
caught.

## What is not modelled

- The C version of BLAKE3, which the miner and the provers link, its assembly, the NEON
  and AVX-512 back ends: the first is a port of the Rust version modelled here, the
  others repeat a back end in other instructions. In `Miner`, `MerkleTree` and `PyMiner`
  the hash is ideal.
- `io.rs`, `traits.rs`, `guts.rs` and `join.rs` of BLAKE3, which pass input and output on. The
  halves that `join` may run in parallel share nothing they write; they are one
  step here. `hazmat`'s other forms of root output differ in what they return only.
- `b3sum` on standard input, with `--raw`, keys, threads and memory maps, and names
  with NUL.
- Argument parsing and hex conversion, report figures, wording of progress lines.
- `precompute_twiddles`, `montgomery_reduce` and `field_mult` of the NTT prover, which
  nothing calls.
- Out of memory, and tree sizes and indexes of 2^32 and more.
- Of `mine_correct`, what follows the exception: unreachable.
- The server's decisions: whether it accepts a solution changes no state here.

Seen in the code and left to its authors, for no module can say more about them
than the line does: `1ULL << difficulty_bits` is undefined from 64 bits on
(`miner.cpp:94`); the NEON loop loads eight bytes where four are meant, past the end
of B in its last row, and does not use them (`compute_cpu.cpp:31`); seed and
difficulty are fetched by two requests, and the chain may move between them
(`miner_openblas.py:502`); a fetch that breaks off gives a shorter seed, which the miner
pads with zeros (`mine.sh:34`).
