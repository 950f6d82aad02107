-------------------------------- MODULE Miner --------------------------------
(***************************************************************************)
(* Miner::mine (src/src/miner.cpp): an OpenMP parallel region in which     *)
(* every thread walks its own stretch of the nonce space, hashes the seed  *)
(* with that nonce and its matrix product, and stops when any thread has   *)
(* found a solution or its share of the iterations is used up.             *)
(*                                                                         *)
(* The three `#pragma omp critical` sections have no name, so they share   *)
(* one lock.  found_global is a plain bool: it is written inside the lock  *)
(* and read outside it by every thread's loop condition.  That read is a   *)
(* data race; what the build can produce is the current value or, until    *)
(* the thread has itself taken the lock after the write, the old one.      *)
(*                                                                         *)
(* BLAKE3 and the matrix product are functions of the seed, and within one *)
(* call the seed varies only in its nonce: `winning` is the set of nonces  *)
(* whose solution hash passes check_diff_fast.                             *)
(***************************************************************************)
EXTENDS Integers, FiniteSets, FiniteSetsExt

CONSTANTS
  NumThreads,      (* omp_get_num_threads()                                *)
  Word64, Word32,  (* number of values of uint64_t and uint32_t            *)
  MaxIterations,   (* the max_iterations argument                          *)
  ProgressEvery,   (* 1000000: thread 0 reports after so many iterations   *)
  HitSets,         (* the values `winning` may take                        *)
  NoNonce          (* the nonce of an empty solution                       *)

Nonce == [low : 0 .. Word64 - 1, high : 0 .. Word32 - 1]

ASSUME MinerAssumption ==
  /\ NumThreads \in Nat \ {0}
  /\ Word64 \in Nat \ {0}
  /\ Word32 \in Nat \ {0}
  /\ MaxIterations \in 0 .. Word64 - 1
  /\ ProgressEvery \in Nat \ {0}
  /\ HitSets \subseteq SUBSET Nonce
  /\ NoNonce \notin Nonce

Thread == 0 .. NumThreads - 1
Free == -1         \* the value of `lock` when no thread holds it

VARIABLES
  winning,          (* nonces whose solution meets the difficulty; fixed    *)
  pc,               (* where each thread is in the parallel region          *)
  nonce,            (* the last 12 bytes of each thread's local_seed        *)
  product,          (* the nonce whose matrices each local_C is computed of *)
  iterations,       (* local_iterations, and with it the loop counter i     *)
  lock,             (* holder of the critical-section lock                  *)
  synced,           (* the thread has locked since found_global was set     *)
  found,            (* found_global                                         *)
  success,          (* final_res.success                                    *)
  solution,         (* final_res.solution: the seed's nonce and the C part  *)
  reported,         (* final_res.iterations                                 *)
  totalIterations,  (* total_iterations, of the progress report             *)
  returned,         (* mine has returned final_res                          *)
  tried,            (* history: the nonces each thread has hashed           *)
  printed           (* history: sum of the totals the progress lines showed *)

result == <<success, solution, reported>>
history == <<tried, printed>>
vars == <<winning, pc, nonce, product, iterations, lock, synced, found, result,
          totalIterations, returned, history>>

\* A thread is at the loop condition ("test"), in the body ("try", "claim",
\* "count", "progress"), past the loop ("tally") or at the end of the region.
Places == {"test", "try", "claim", "count", "progress", "tally", "done"}
CriticalPlaces == {"claim", "progress", "tally"}

Goto(t, place) == pc' = [pc EXCEPT ![t] = place]

-----------------------------------------------------------------------------
(* Each thread's stretch of the nonce space.                               *)

Stride == (Word64 - 1) \div NumThreads
Quota == MaxIterations \div NumThreads

\* Mutant: every thread starts from the same nonce.
SharedStartNonce(t) == [low |-> 0, high |-> 0]

StartNonce(t) ==
  [low |-> (t * Stride) % Word64, high |-> t % Word32]

NextNonce(n) ==
  LET low == (n.low + 1) % Word64
  IN  [low |-> low, high |-> IF low = 0 THEN (n.high + 1) % Word32 ELSE n.high]

Init ==
  /\ winning \in HitSets
  /\ pc = [t \in Thread |-> "test"]
  /\ nonce = [t \in Thread |-> StartNonce(t)]
  /\ product = [t \in Thread |-> NoNonce]
  /\ iterations = [t \in Thread |-> 0]
  /\ lock = Free
  /\ synced = [t \in Thread |-> FALSE]
  /\ found = FALSE
  /\ success = FALSE
  /\ solution = [seed |-> NoNonce, product |-> NoNonce]
  /\ reported = 0
  /\ totalIterations = 0
  /\ returned = FALSE
  /\ tried = [t \in Thread |-> {}]
  /\ printed = 0

-----------------------------------------------------------------------------
(* The loop.                                                               *)

\* The values a racy read of found_global may give thread t.
FoundSeenBy(t) == IF found /\ ~synced[t] THEN BOOLEAN ELSE {found}

\* Mutant: the loop does not look at found_global.
DeafContinue(t, seen) == iterations[t] < Quota

Continue(t, seen) == iterations[t] < Quota /\ ~seen

LoopTest(t) ==
  /\ pc[t] = "test"
  /\ \E seen \in FoundSeenBy(t) :
       Goto(t, IF Continue(t, seen) THEN "try" ELSE "tally")
  /\ UNCHANGED <<winning, nonce, product, iterations, lock, synced, found, result,
                 totalIterations, returned, history>>

\* Advance the nonce, expand the seed, multiply, hash and check: all of it
\* touches the thread's own buffers only.
TryNonce(t) ==
  /\ pc[t] = "try"
  /\ LET n == NextNonce(nonce[t]) IN
       /\ nonce' = [nonce EXCEPT ![t] = n]
       /\ product' = [product EXCEPT ![t] = n]
       /\ tried' = [tried EXCEPT ![t] = @ \cup {n}]
       /\ Goto(t, IF n \in winning THEN "claim" ELSE "count")
  /\ UNCHANGED <<winning, iterations, lock, synced, found, result, totalIterations,
                 returned, printed>>

\* Entering any of the three critical sections.  Taking the lock orders the
\* thread after every earlier holder, so from here on it sees found_global
\* as it is now.
EnterCritical(t) ==
  /\ pc[t] \in CriticalPlaces
  /\ lock = Free
  /\ lock' = t
  /\ synced' = [synced EXCEPT ![t] = found]
  /\ UNCHANGED <<winning, pc, nonce, product, iterations, found, result,
                 totalIterations, returned, history>>

\* Mutant: a thread leaves the section and keeps the lock.
KeepLock(t) == lock = t /\ UNCHANGED lock

LeaveCritical(t) == lock = t /\ lock' = Free

\* Mutant: the flag is raised and the result left to be filled in.
FlagOnly(t) ==
  /\ found' = TRUE
  /\ synced' = [synced EXCEPT ![t] = TRUE]
  /\ UNCHANGED result

\* Mutant: the recorded seed has been advanced past the product's nonce.
RecordAdvanced(t) ==
  /\ found' = TRUE
  /\ synced' = [synced EXCEPT ![t] = TRUE]
  /\ success' = TRUE
  /\ solution' = [seed |-> NextNonce(nonce[t]), product |-> product[t]]
  /\ reported' = iterations[t] * NumThreads

Record(t) ==
  /\ found' = TRUE
  /\ synced' = [synced EXCEPT ![t] = TRUE]
  /\ success' = TRUE
  /\ solution' = [seed |-> nonce[t], product |-> product[t]]
  /\ reported' = iterations[t] * NumThreads

\* Mutant: the critical section does not look at found_global again.
ClaimUnchecked(t) ==
  /\ pc[t] = "claim"
  /\ LeaveCritical(t)
  /\ Goto(t, "count")
  /\ Record(t)
  /\ UNCHANGED <<winning, nonce, product, iterations, totalIterations, returned,
                 history>>

\* The thread met the difficulty: only the first one to get here is recorded.
Claim(t) ==
  /\ pc[t] = "claim"
  /\ LeaveCritical(t)
  /\ Goto(t, "count")
  /\ \/ ~found /\ Record(t)
     \/ found /\ UNCHANGED <<found, synced, result>>
  /\ UNCHANGED <<winning, nonce, product, iterations, totalIterations, returned,
                 history>>

\* local_iterations++, the test for a progress report, and the loop's ++i:
\* the two counters go up together on every pass, so one stands for both.
Count(t) ==
  /\ pc[t] = "count"
  /\ iterations' = [iterations EXCEPT ![t] = @ + 1]
  /\ Goto(t, IF t = 0 /\ (iterations[t] + 1) % ProgressEvery = 0 THEN "progress" ELSE "test")
  /\ UNCHANGED <<winning, nonce, product, lock, synced, found, result,
                 totalIterations, returned, history>>

\* Mutant: a progress line that leaves the total standing.
PrintAndKeep(total) == printed' = printed + total /\ totalIterations' = total

\* A progress line shows the total and starts again from zero.
PrintAndReset(total) == printed' = printed + total /\ totalIterations' = 0

\* Thread 0 adds an estimate of everyone's work, and prints it if five
\* seconds have gone by since the last line: any time may have.
Progress(t) ==
  /\ pc[t] = "progress"
  /\ LeaveCritical(t)
  /\ Goto(t, "test")
  /\ LET total == totalIterations + ProgressEvery * NumThreads IN
       \/ PrintAndReset(total)
       \/ totalIterations' = total /\ UNCHANGED printed
  /\ UNCHANGED <<winning, nonce, product, iterations, synced, found, result,
                 returned, tried>>

-----------------------------------------------------------------------------
(* The end of the parallel region.                                         *)

\* Mutant: final_res.iterations is replaced by the thread's own count.
OwnCount(t) == iterations[t]

\* Mutant: the sum is kept in a wider type than the result's.
WiderTally(t) == reported + iterations[t]

TallyOf(t) == (reported + iterations[t]) % Word64

Tally(t) ==
  /\ pc[t] = "tally"
  /\ LeaveCritical(t)
  /\ Goto(t, "done")
  /\ reported' = TallyOf(t)
  /\ UNCHANGED <<winning, nonce, product, iterations, synced, found, success,
                 solution, totalIterations, returned, history>>

\* Mutant: the return waits for the first thread only.
MasterDone == pc[0] = "done"

\* The implicit barrier at the end of the region.
AllDone == \A t \in Thread : pc[t] = "done"

Return ==
  /\ ~returned
  /\ AllDone
  /\ returned' = TRUE
  /\ UNCHANGED <<winning, pc, nonce, product, iterations, lock, synced, found,
                 result, totalIterations, history>>

\* mine is over; only deadlock checking needs this.
Terminating == returned /\ UNCHANGED vars

ThreadStep(t) ==
  \/ LoopTest(t)
  \/ TryNonce(t)
  \/ EnterCritical(t)
  \/ Claim(t)
  \/ Count(t)
  \/ Progress(t)
  \/ Tally(t)

Next ==
  \/ \E t \in Thread : ThreadStep(t)
  \/ Return
  \/ Terminating

Spec == Init /\ [][Next]_vars

\* The operating system keeps running every thread of the team, and the main
\* thread leaves the region once all have arrived.
FairSpec ==
  /\ Spec
  /\ \A t \in Thread : WF_vars(ThreadStep(t))
  /\ WF_vars(Return)

-----------------------------------------------------------------------------
(* Properties.                                                             *)

\* The passes of the loop thread t has made or is making.
Attempts(t) ==
  iterations[t] + IF pc[t] \in {"claim", "count"} THEN 1 ELSE 0

\* Every nonce any thread has hashed.
AllTried == UNION {tried[t] : t \in Thread}

TypeOK ==
  /\ winning \in HitSets
  /\ pc \in [Thread -> Places]
  /\ nonce \in [Thread -> Nonce]
  /\ product \in [Thread -> Nonce \cup {NoNonce}]
  /\ iterations \in [Thread -> 0 .. Word64 - 1]
  /\ lock \in Thread \cup {Free}
  /\ synced \in [Thread -> BOOLEAN]
  /\ found \in BOOLEAN
  /\ success \in BOOLEAN
  /\ solution \in [seed : Nonce \cup {NoNonce}, product : Nonce \cup {NoNonce}]
  /\ reported \in 0 .. Word64 - 1
  /\ totalIterations \in Nat
  /\ returned \in BOOLEAN
  /\ tried \in [Thread -> SUBSET Nonce]
  /\ printed \in Nat

\* No work is done twice: the stretches the threads walk do not overlap and
\* do not wrap around, whatever the budget, so every pass of every thread's
\* loop hashes a nonce that nobody has hashed (miner.cpp:44-54).
NoNonceTriedTwice ==
  /\ \A t \in Thread : Cardinality(tried[t]) = Attempts(t)
  /\ \A t, u \in Thread : t # u => tried[t] \cap tried[u] = {}

\* What mine reports as a solution is one, whole: a nonce that some thread
\* tried and that meets the difficulty, followed by the product of the very
\* matrices this nonce expands to (miner.cpp:74-76).
SolutionIsGenuine ==
  success =>
    /\ solution.seed \in winning \cap AllTried
    /\ solution.product = solution.seed

\* mine never returns empty-handed when some thread has hashed a nonce that
\* meets the difficulty, however the claims of several threads, the racy
\* loop conditions and the end of the region interleave (miner.cpp:52-80).
NoLostSolution ==
  returned => (success <=> AllTried \cap winning # {})

\* A thread goes on for at most one more solution: having met the
\* difficulty it passes through the lock, after which the loop condition
\* cannot read a stale found_global (miner.cpp:52, 69).
AtMostOneHitPerThread ==
  \A t \in Thread : Cardinality(tried[t] \cap winning) <= 1

\* The number of hashes never exceeds the budget the caller set, and a
\* failed search has used all of it but the remainder of the division, and
\* has counted each hash once (miner.cpp:52, 82, 108).
BudgetRespected ==
  /\ Cardinality(AllTried) <= MaxIterations
  /\ (returned /\ ~success) =>
       /\ \A t \in Thread : iterations[t] = Quota
       /\ reported = NumThreads * Quota

\* The progress lines account for every whole period of thread 0, printed
\* or still to be printed, once (miner.cpp:85-101).  The counter is its own:
\* no other thread reads or writes it.
ProgressConserved ==
  pc[0] # "progress" =>
    printed + totalIterations
      = NumThreads * ProgressEvery * (iterations[0] \div ProgressEvery)

\* final_res.iterations is what main.cpp prints as "iterations" and divides
\* by the time for "hashes_per_sec" (main.cpp:82, 87-88); it would be the
\* number of hashes made.  It is not: the claim overwrites whatever was
\* tallied before with an estimate of everybody's work, to which every later
\* tally adds the same work again (miner.cpp:77, 108).
IterationsCountHashes == returned => reported = Cardinality(AllTried)

\* The first claim is final: no later claim, tally or report changes the
\* solution (miner.cpp:71).
FirstClaimWins ==
  [][found => found' /\ UNCHANGED <<success, solution>>]_vars

\* The search ends: every thread leaves its loop by its quota at the latest
\* and nobody waits for ever on the lock.
Termination == <>returned

\* Miner implements NonceSearch: a hash is a Try, the claim that records is
\* a Settle, and the return a Finish.
Search == INSTANCE NonceSearch WITH
  attempted <- AllTried,
  settled <- IF success THEN solution.seed ELSE NoNonce,
  finished <- returned

ImplementsSearch == Search!Spec
=============================================================================
