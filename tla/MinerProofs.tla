----------------------------- MODULE MinerProofs -----------------------------
(***************************************************************************)
(* Proofs about Miner, for any number of threads, any word sizes and       *)
(* budget, and any set of winning nonces.                                  *)
(*                                                                         *)
(* None of the safety properties is inductive.  The strengthening IInv     *)
(* says where each thread's nonce stands (Stretches), that local_C belongs *)
(* to it (OwnProduct), and what becomes of a thread that has met the       *)
(* difficulty: it is on its way to the lock, or has been through it and    *)
(* will not pass the loop condition again (HitsStop).                      *)
(***************************************************************************)
EXTENDS Miner, FiniteSetTheorems, TLAPS

(***************************************************************************)
(* Arithmetic of the stretches.                                            *)
(***************************************************************************)

\* The i-th nonce of thread t.
NonceOf(t, i) == [low |-> t * Stride + i, high |-> t % Word32]

\* Integer division: the facts of it used below.
LEMMA DivisionFacts ==
  ASSUME NEW a \in Nat, NEW n \in Nat \ {0}
  PROVE  /\ a \div n \in Nat
         /\ n * (a \div n) <= a
  OBVIOUS

\* Division is monotonic,
LEMMA DivisionMonotonic ==
  ASSUME NEW a \in Nat, NEW b \in Nat, a <= b, NEW n \in Nat \ {0}
  PROVE  a \div n <= b \div n
  OBVIOUS

\* and the next stretch begins where this one ends.
LEMMA ProductMonotonic ==
  ASSUME NEW s \in Nat, NEW t \in Nat, NEW u \in Nat, t < u
  PROVE  t * s + s <= u * s
  OBVIOUS

\* A thread's quota fits its stretch, and the stretches fit the word.
LEMMA StretchFits ==
  /\ Stride \in Nat
  /\ Quota \in Nat
  /\ Quota <= Stride
  /\ \A t \in Thread : t * Stride \in Nat /\ t * Stride + Stride <= Word64 - 1
<1> USE MinerAssumption
<1>1. Word64 - 1 \in Nat /\ MaxIterations \in Nat /\ MaxIterations <= Word64 - 1
  OBVIOUS
<1>2. Stride \in Nat /\ NumThreads * Stride <= Word64 - 1
  BY <1>1, DivisionFacts DEF Stride
<1>3. Quota \in Nat
  BY <1>1, DivisionFacts DEF Quota
<1>4. Quota <= Stride
  BY <1>1, DivisionMonotonic DEF Stride, Quota
<1>5. ASSUME NEW t \in Thread
      PROVE  t * Stride \in Nat /\ t * Stride + Stride <= Word64 - 1
  <2>1. t \in Nat /\ t < NumThreads
    BY DEF Thread
  <2>2. t * Stride + Stride <= NumThreads * Stride
    BY <2>1, <1>2, ProductMonotonic
  <2>3. t * Stride \in Nat /\ NumThreads * Stride \in Nat
    BY <2>1, <1>2
  <2> QED
    BY <2>2, <2>3, <1>1, <1>2
<1> QED
  BY <1>2, <1>3, <1>4, <1>5

\* Up to its quota a thread's nonces are distinct 12-byte values.
LEMMA NonceOfType ==
  ASSUME NEW t \in Thread, NEW i \in 0 .. Quota
  PROVE  NonceOf(t, i) \in Nonce
<1>1. t * Stride + i \in 0 .. Word64 - 1
  BY StretchFits, MinerAssumption
<1>2. t % Word32 \in 0 .. Word32 - 1
  BY MinerAssumption DEF Thread
<1> QED
  BY <1>1, <1>2 DEF NonceOf, Nonce

\* The first nonce, and the step to the next one: it never wraps.
LEMMA StartNonceOf ==
  ASSUME NEW t \in Thread
  PROVE  StartNonce(t) = NonceOf(t, 0)
BY StretchFits, MinerAssumption DEF StartNonce, NonceOf

\* The next nonce of a thread is that of its next pass.
LEMMA NextNonceOf ==
  ASSUME NEW t \in Thread, NEW i \in 0 .. Quota - 1
  PROVE  NextNonce(NonceOf(t, i)) = NonceOf(t, i + 1)
<1>1. /\ t * Stride + i + 1 \in 1 .. Word64 - 1
      /\ t * Stride \in Nat
  BY StretchFits, MinerAssumption
<1>2. (t * Stride + i + 1) % Word64 = t * Stride + i + 1
  BY <1>1, MinerAssumption
<1> QED
  BY <1>1, <1>2 DEF NextNonce, NonceOf

\* Different threads, or different passes of one, hash different nonces.
LEMMA NonceOfInjective ==
  ASSUME NEW t \in Thread, NEW u \in Thread,
         NEW i \in 1 .. Quota, NEW j \in 1 .. Quota,
         NonceOf(t, i) = NonceOf(u, j)
  PROVE  t = u /\ i = j
<1> USE StretchFits
<1>1. t * Stride + i = u * Stride + j
  BY DEF NonceOf
<1>2. ASSUME NEW v \in Thread, NEW w \in Thread, v < w,
             NEW k \in 1 .. Quota, NEW l \in 1 .. Quota
      PROVE  v * Stride + k < w * Stride + l
  <2>1. v * Stride + Stride <= w * Stride
    BY <1>2, ProductMonotonic DEF Thread
  <2> QED
    BY <2>1
<1>3. t \in Int /\ u \in Int
  BY DEF Thread
<1>4. ~(t < u) /\ ~(u < t)
  BY <1>1, <1>2
<1> QED
  BY <1>1, <1>3, <1>4

\* A thread within its quota: its counter, and the estimate a claim records,
\* are 64-bit values.
LEMMA CountsFit ==
  ASSUME NEW i \in 0 .. Quota
  PROVE  i \in 0 .. Word64 - 1 /\ i * NumThreads \in 0 .. Word64 - 1
<1> USE MinerAssumption, StretchFits
<1>1. 0 \in Thread /\ Word64 - 1 \in Nat
  BY DEF Thread
<1>2. i <= Word64 - 1
  <2>1. i <= Stride /\ 0 * Stride + Stride <= Word64 - 1
    BY <1>1
  <2> QED
    BY <2>1, <1>1
<1>3. NumThreads * Quota <= MaxIterations
  BY DivisionFacts DEF Quota
<1>4. i * NumThreads <= NumThreads * Quota
  <2>1. i = Quota \/ i < Quota
    OBVIOUS
  <2>2. ASSUME i < Quota PROVE i * NumThreads + NumThreads <= Quota * NumThreads
    BY <2>2, ProductMonotonic
  <2> QED
    BY <2>1, <2>2
<1>5. ASSUME NEW p \in Int, NEW q \in Int, 0 <= p, p <= q, q <= MaxIterations
      PROVE  p \in 0 .. Word64 - 1
  BY <1>5
<1>6. i * NumThreads \in Int /\ 0 <= i * NumThreads /\ NumThreads * Quota \in Int
  OBVIOUS
<1>7. i * NumThreads \in 0 .. Word64 - 1
  BY <1>3, <1>4, <1>5, <1>6
<1> QED
  BY <1>1, <1>2, <1>7

(***************************************************************************)
(* The inductive invariant.                                                *)
(***************************************************************************)

\* A thread stands at the nonce its count says, and has tried that many.
Stretches ==
  \A t \in Thread :
    /\ Attempts(t) \in 0 .. Quota
    /\ pc[t] = "try" => Attempts(t) < Quota
    /\ nonce[t] = NonceOf(t, Attempts(t))
    /\ \A n \in tried[t] : \E i \in 1 .. Attempts(t) : n = NonceOf(t, i)
    /\ IsFiniteSet(tried[t])
    /\ Cardinality(tried[t]) = Attempts(t)

OwnProduct == \A t \in Thread : pc[t] = "claim" => product[t] = nonce[t]

\* A thread on its way to claim has just met the difficulty; and one that
\* has met it does not try again: it is on its way to the lock, or has been
\* through it and knows that a solution is found.
HitsStop ==
  \A t \in Thread :
    /\ pc[t] = "claim" => nonce[t] \in tried[t] \cap winning
    /\ \A n \in tried[t] \cap winning :
         /\ n = nonce[t]
         /\ pc[t] # "try"
         /\ pc[t] = "claim" \/ (found /\ synced[t])

\* Nobody can find a solution while another thread holds the lock.
HolderSynced == \A t \in Thread : lock = t /\ found => synced[t]

\* Nothing is to be known of a lock that nobody holds.
LEMMA ReleasedSynced ==
  ASSUME lock' = Free
  PROVE  HolderSynced'
BY DEF HolderSynced, Free, Thread

IInv ==
  /\ TypeOK
  /\ HolderSynced
  /\ Stretches
  /\ OwnProduct
  /\ HitsStop
  /\ SolutionIsGenuine
  /\ found = success
  /\ returned => AllDone

\* The invariant holds at first, and each action keeps it:
LEMMA InitIInv == Init => IInv
<1> SUFFICES ASSUME Init PROVE IInv
  OBVIOUS
<1> USE MinerAssumption DEF Init
<1>1. \A t \in Thread : Attempts(t) = 0
  BY DEF Attempts
<1>2. \A t \in Thread : nonce[t] = NonceOf(t, 0) /\ NonceOf(t, 0) \in Nonce
  BY StartNonceOf, NonceOfType, StretchFits
<1>3. TypeOK
  <2>1. nonce \in [Thread -> Nonce]
    BY <1>2
  <2>2. reported \in 0 .. Word64 - 1
    OBVIOUS
  <2>3. solution \in [seed : Nonce \cup {NoNonce}, product : Nonce \cup {NoNonce}]
    OBVIOUS
  <2>4. iterations \in [Thread -> 0 .. Word64 - 1]
    OBVIOUS
  <2> QED
    BY <2>1, <2>2, <2>3, <2>4 DEF TypeOK, Places, Thread
<1>4. Stretches
  BY <1>1, <1>2, StretchFits, FS_EmptySet DEF Stretches
<1> QED
  BY <1>3, <1>4 DEF IInv, OwnProduct, HitsStop, HolderSynced, SolutionIsGenuine, Free, Thread

\* the loop condition,
LEMMA LoopTestIInv ==
  ASSUME IInv, NEW t \in Thread, LoopTest(t)
  PROVE  IInv'
<1> USE DEF LoopTest, Goto, Continue, FoundSeenBy, result, history
<1>1. TypeOK'
  BY DEF IInv, TypeOK, Places
<1>2. \A u \in Thread : Attempts(u)' = Attempts(u)
  BY DEF IInv, TypeOK, Attempts
<1>3. Stretches'
  <2>1. pc'[t] = "try" => Attempts(t) < Quota
    BY DEF IInv, TypeOK, Attempts
  <2> QED
    BY <1>2, <2>1 DEF IInv, TypeOK, Stretches
<1>4. HitsStop'
  BY DEF IInv, TypeOK, HitsStop
<1> QED
  BY <1>1, <1>3, <1>4 DEF IInv, TypeOK, OwnProduct, HolderSynced, SolutionIsGenuine, AllTried, AllDone

\* the hash,
LEMMA TryNonceIInv ==
  ASSUME IInv, NEW t \in Thread, TryNonce(t)
  PROVE  IInv'
<1> DEFINE n == NextNonce(nonce[t])
<1> USE DEF TryNonce, Goto, result
<1>1. /\ Attempts(t) \in 0 .. Quota - 1
      /\ n = NonceOf(t, Attempts(t) + 1)
  BY NextNonceOf, StretchFits DEF IInv, Stretches
<1>2. n \in Nonce
  BY <1>1, NonceOfType, StretchFits
<1>3. \A u \in Thread : Attempts(u)' = IF u = t THEN Attempts(t) + 1 ELSE Attempts(u)
  BY DEF IInv, TypeOK, Attempts
<1>4. n \notin tried[t]
  BY <1>1, NonceOfInjective, StretchFits DEF IInv, Stretches
<1>5. TypeOK'
  BY <1>2 DEF IInv, TypeOK, Places, history
<1>6. Stretches'
  <2>1. /\ IsFiniteSet(tried[t] \cup {n})
        /\ Cardinality(tried[t] \cup {n}) = Attempts(t) + 1
    BY <1>4, FS_AddElement DEF IInv, Stretches
  <2>2. \A m \in tried[t] \cup {n} : \E i \in 1 .. Attempts(t) + 1 : m = NonceOf(t, i)
    BY <1>1, StretchFits DEF IInv, Stretches
  <2> SUFFICES ASSUME NEW u \in Thread
               PROVE  /\ Attempts(u)' \in 0 .. Quota
                      /\ pc'[u] = "try" => Attempts(u)' < Quota
                      /\ nonce'[u] = NonceOf(u, Attempts(u)')
                      /\ \A m \in tried'[u] : \E i \in 1 .. Attempts(u)' : m = NonceOf(u, i)
                      /\ IsFiniteSet(tried'[u])
                      /\ Cardinality(tried'[u]) = Attempts(u)'
    BY DEF Stretches, NonceOf
  <2>3. CASE u = t
    BY <1>1, <1>3, <2>1, <2>2, <2>3, StretchFits DEF IInv, TypeOK
  <2>4. CASE u # t
    BY <1>3, <2>4 DEF IInv, TypeOK, Stretches
  <2> QED
    BY <2>3, <2>4
<1>7. OwnProduct'
  BY DEF IInv, TypeOK, OwnProduct
<1>8. HitsStop'
  BY DEF IInv, TypeOK, HitsStop
<1>9. SolutionIsGenuine'
  BY DEF IInv, TypeOK, SolutionIsGenuine, AllTried
<1> QED
  BY <1>5, <1>6, <1>7, <1>8, <1>9 DEF IInv, TypeOK, HolderSynced, AllDone

\* the entry of the critical section,
LEMMA EnterCriticalIInv ==
  ASSUME IInv, NEW t \in Thread, EnterCritical(t)
  PROVE  IInv'
<1> USE DEF EnterCritical, result, history
<1>1. TypeOK'
  BY DEF IInv, TypeOK
<1>2. Stretches'
  BY DEF IInv, Stretches, Attempts
<1>3. HitsStop'
  BY DEF IInv, TypeOK, HitsStop
<1>4. HolderSynced'
  BY DEF IInv, TypeOK, HolderSynced
<1> QED
  BY <1>1, <1>2, <1>3, <1>4 DEF IInv, OwnProduct, SolutionIsGenuine, AllTried, AllDone

\* the claim,
LEMMA ClaimIInv ==
  ASSUME IInv, NEW t \in Thread, Claim(t)
  PROVE  IInv'
<1> USE DEF Claim, Goto, LeaveCritical, Record, result, history
<1>1. \A u \in Thread : Attempts(u)' = Attempts(u)
  BY DEF IInv, TypeOK, Attempts
<1>2. TypeOK'
  <2>1. iterations[t] \in 0 .. Quota
    BY StretchFits DEF IInv, TypeOK, Stretches, Attempts
  <2>2. reported' \in 0 .. Word64 - 1
    BY <2>1, CountsFit DEF IInv, TypeOK
  <2>3. solution' \in [seed : Nonce \cup {NoNonce}, product : Nonce \cup {NoNonce}]
    BY DEF IInv, TypeOK
  <2> QED
    BY <2>2, <2>3 DEF IInv, TypeOK, Places
<1>3. Stretches'
  BY <1>1 DEF IInv, TypeOK, Stretches
<1>4. OwnProduct'
  BY DEF IInv, TypeOK, OwnProduct
<1>5. HitsStop'
  <2> SUFFICES ASSUME NEW u \in Thread
               PROVE  /\ pc'[u] = "claim" => nonce[u] \in tried[u] \cap winning
                      /\ \A n \in tried[u] \cap winning :
                           /\ n = nonce[u]
                           /\ pc'[u] # "try"
                           /\ pc'[u] = "claim" \/ (found' /\ synced'[u])
    BY DEF HitsStop
  <2>1. CASE u = t
    <3>1. found' /\ synced'[t]
      BY DEF IInv, TypeOK, HolderSynced
    <3> QED
      BY <2>1, <3>1 DEF IInv, TypeOK, HitsStop
  <2>2. CASE u # t
    BY <2>2 DEF IInv, TypeOK, HitsStop
  <2> QED
    BY <2>1, <2>2
<1>6. SolutionIsGenuine'
  <2>1. nonce[t] \in winning \cap AllTried /\ product[t] = nonce[t]
    BY DEF IInv, HitsStop, OwnProduct, AllTried
  <2>2. CASE ~found
    <3>1. /\ solution'.seed = nonce[t]
          /\ solution'.product = product[t]
      BY <2>2
    <3>2. winning' \cap AllTried' = winning \cap AllTried
      BY DEF AllTried
    <3> QED
      BY <2>1, <3>1, <3>2 DEF SolutionIsGenuine
  <2>3. CASE found
    BY <2>3 DEF IInv, SolutionIsGenuine, AllTried
  <2> QED
    BY <2>2, <2>3
<1> QED
  BY <1>2, <1>3, <1>4, <1>5, <1>6, ReleasedSynced DEF IInv, AllDone

\* the counters,
LEMMA CountIInv ==
  ASSUME IInv, NEW t \in Thread, Count(t)
  PROVE  IInv'
<1> USE DEF Count, Goto, result, history
<1>1. \A u \in Thread : Attempts(u)' = Attempts(u)
  BY DEF IInv, TypeOK, Attempts
<1>2. TypeOK'
  <2>1. iterations[t] + 1 \in 0 .. Word64 - 1
    BY CountsFit, StretchFits DEF IInv, TypeOK, Stretches, Attempts
  <2> QED
    BY <2>1 DEF IInv, TypeOK, Places
<1>3. Stretches'
  BY <1>1 DEF IInv, TypeOK, Stretches
<1>4. HitsStop'
  BY DEF IInv, TypeOK, HitsStop
<1> QED
  BY <1>2, <1>3, <1>4 DEF IInv, TypeOK, OwnProduct, HolderSynced, SolutionIsGenuine, AllTried, AllDone

\* the progress report,
LEMMA ProgressIInv ==
  ASSUME IInv, NEW t \in Thread, Progress(t)
  PROVE  IInv'
<1> USE DEF Progress, PrintAndReset, Goto, LeaveCritical, result, history
<1>1. \A u \in Thread : Attempts(u)' = Attempts(u)
  BY DEF IInv, TypeOK, Attempts
<1>2. TypeOK'
  <2>1. ProgressEvery * NumThreads \in Nat
    BY MinerAssumption
  <2> QED
    BY <2>1 DEF IInv, TypeOK, Places
<1>3. Stretches'
  BY <1>1 DEF IInv, TypeOK, Stretches
<1>4. HitsStop'
  BY DEF IInv, TypeOK, HitsStop
<1> QED
  BY <1>2, <1>3, <1>4, ReleasedSynced
  DEF IInv, TypeOK, OwnProduct, SolutionIsGenuine, AllTried, AllDone

\* the tally,
LEMMA TallyIInv ==
  ASSUME IInv, NEW t \in Thread, Tally(t)
  PROVE  IInv'
<1> USE DEF Tally, TallyOf, Goto, LeaveCritical, history
<1>1. \A u \in Thread : Attempts(u)' = Attempts(u)
  BY DEF IInv, TypeOK, Attempts
<1>2. TypeOK'
  <2>1. (reported + iterations[t]) % Word64 \in 0 .. Word64 - 1
    BY MinerAssumption DEF IInv, TypeOK
  <2> QED
    BY <2>1 DEF IInv, TypeOK, Places
<1>3. Stretches'
  BY <1>1 DEF IInv, TypeOK, Stretches
<1>4. HitsStop'
  BY DEF IInv, TypeOK, HitsStop
<1> QED
  BY <1>2, <1>3, <1>4, ReleasedSynced
  DEF IInv, TypeOK, OwnProduct, SolutionIsGenuine, AllTried, AllDone

\* the return,
LEMMA ReturnIInv ==
  ASSUME IInv, Return
  PROVE  IInv'
<1> USE DEF Return, result, history
<1>1. TypeOK'
  BY DEF IInv, TypeOK
<1>2. Stretches' /\ HitsStop'
  BY DEF IInv, Stretches, HitsStop, Attempts
<1> QED
  BY <1>1, <1>2 DEF IInv, OwnProduct, HolderSynced, SolutionIsGenuine, AllTried, AllDone

\* and a step of nothing.
LEMMA StutterIInv ==
  ASSUME IInv, UNCHANGED vars
  PROVE  IInv'
<1> USE DEF vars, result, history
<1>1. TypeOK'
  BY DEF IInv, TypeOK
<1>2. Stretches' /\ HitsStop'
  BY DEF IInv, Stretches, HitsStop, Attempts
<1> QED
  BY <1>1, <1>2 DEF IInv, OwnProduct, HolderSynced, SolutionIsGenuine, AllTried, AllDone

\* So any step does.
LEMMA NextIInv == IInv /\ [Next]_vars => IInv'
<1> SUFFICES ASSUME IInv, [Next]_vars PROVE IInv'
  OBVIOUS
<1>1. ASSUME NEW t \in Thread, ThreadStep(t) PROVE IInv'
  BY <1>1, LoopTestIInv, TryNonceIInv, EnterCriticalIInv, ClaimIInv, CountIInv,
     ProgressIInv, TallyIInv DEF ThreadStep
<1>2. CASE Return
  BY <1>2, ReturnIInv
<1>3. CASE Terminating \/ UNCHANGED vars
  BY <1>3, StutterIInv DEF Terminating
<1> QED
  BY <1>1, <1>2, <1>3 DEF Next

\* The invariant holds throughout.
THEOREM Invariance == Spec => []IInv
BY InitIInv, NextIInv, PTL DEF Spec

(***************************************************************************)
(* The safety properties.                                                  *)
(***************************************************************************)

\* Every variable keeps its type; in particular no counter overflows.
THEOREM TypeCorrectness == Spec => []TypeOK
BY Invariance, PTL DEF IInv

\* No nonce is hashed twice, whatever the number of threads and the budget.
THEOREM NoDuplicateWork == Spec => []NoNonceTriedTwice
<1>1. IInv => NoNonceTriedTwice
  <2> SUFFICES ASSUME IInv, NEW t \in Thread, NEW u \in Thread, t # u,
                      NEW n \in tried[t] \cap tried[u]
               PROVE  FALSE
    BY DEF IInv, Stretches, NoNonceTriedTwice
  <2>1. PICK i \in 1 .. Attempts(t) : n = NonceOf(t, i)
    BY DEF IInv, Stretches
  <2>2. PICK j \in 1 .. Attempts(u) : n = NonceOf(u, j)
    BY DEF IInv, Stretches
  <2>3. i \in 1 .. Quota /\ j \in 1 .. Quota
    BY StretchFits DEF IInv, Stretches
  <2> QED
    BY <2>1, <2>2, <2>3, NonceOfInjective
<1> QED
  BY <1>1, Invariance, PTL

\* A reported solution is a nonce that was tried and meets the difficulty,
\* with its own matrix product.
THEOREM GenuineSolution == Spec => []SolutionIsGenuine
BY Invariance, PTL DEF IInv

\* mine reports success exactly when some hash it made met the difficulty.
LEMMA NothingLost == IInv => NoLostSolution
<1> SUFFICES ASSUME IInv, returned
             PROVE  success <=> AllTried \cap winning # {}
  BY DEF NoLostSolution
<1>1. ASSUME success PROVE AllTried \cap winning # {}
  BY <1>1 DEF IInv, SolutionIsGenuine
<1>2. ASSUME NEW t \in Thread, NEW n \in tried[t] \cap winning
      PROVE  success
  BY DEF IInv, HitsStop, AllDone
<1> QED
  BY <1>1, <1>2 DEF AllTried

\* mine() never returns empty-handed when some thread has hashed a nonce that
\* meets the difficulty, however the threads interleave (miner.cpp:52-80).
THEOREM NoSolutionLost == Spec => []NoLostSolution
BY NothingLost, Invariance, PTL

\* A thread that has met the difficulty does not try again.
THEOREM OneHitPerThread == Spec => []AtMostOneHitPerThread
<1>1. IInv => AtMostOneHitPerThread
  <2> SUFFICES ASSUME IInv, NEW t \in Thread
               PROVE  Cardinality(tried[t] \cap winning) <= 1
    BY DEF AtMostOneHitPerThread
  <2>1. tried[t] \cap winning \subseteq {nonce[t]}
    BY DEF IInv, HitsStop
  <2>2. IsFiniteSet({nonce[t]}) /\ Cardinality({nonce[t]}) = 1
    BY FS_Singleton
  <2> QED
    BY <2>1, <2>2, FS_Subset
<1> QED
  BY <1>1, Invariance, PTL

\* A recorded solution is never replaced.
THEOREM FirstClaimFinal == Spec => FirstClaimWins
<1>1. [Next]_vars => [found => found' /\ UNCHANGED <<success, solution>>]_vars
  <2> SUFFICES ASSUME Next, found
               PROVE  found' /\ UNCHANGED <<success, solution>>
    OBVIOUS
  <2> USE DEF result
  <2>1. ASSUME NEW t \in Thread, LoopTest(t) \/ TryNonce(t) \/ EnterCritical(t)
        PROVE  found' /\ UNCHANGED <<success, solution>>
    BY <2>1 DEF LoopTest, TryNonce, EnterCritical
  <2>2. ASSUME NEW t \in Thread, Claim(t)
        PROVE  found' /\ UNCHANGED <<success, solution>>
    BY <2>2 DEF Claim
  <2>3. ASSUME NEW t \in Thread, Count(t) \/ Progress(t) \/ Tally(t)
        PROVE  found' /\ UNCHANGED <<success, solution>>
    BY <2>3 DEF Count, Progress, Tally
  <2>4. ASSUME Return \/ Terminating
        PROVE  found' /\ UNCHANGED <<success, solution>>
    BY <2>4 DEF Return, Terminating, vars
  <2> QED
    BY <2>1, <2>2, <2>3, <2>4 DEF Next, ThreadStep
<1> QED
  BY <1>1, PTL DEF Spec, FirstClaimWins

(***************************************************************************)
(* Miner implements NonceSearch.                                           *)
(***************************************************************************)

\* A hash is a Try,
LEMMA TryNonceIsTry ==
  ASSUME IInv, NEW t \in Thread, TryNonce(t)
  PROVE  \E n \in Nonce : Search!Try(n)
<1> DEFINE n == NextNonce(nonce[t])
<1>1. /\ Attempts(t) \in 0 .. Quota - 1
      /\ n = NonceOf(t, Attempts(t) + 1)
  BY NextNonceOf, StretchFits DEF IInv, Stretches, TryNonce
<1>2. n \in Nonce
  BY <1>1, NonceOfType, StretchFits
<1>3. ASSUME NEW u \in Thread PROVE n \notin tried[u]
  BY <1>1, NonceOfInjective, StretchFits DEF IInv, Stretches
<1>4. AllTried' = AllTried \cup {n}
  BY DEF TryNonce, IInv, TypeOK, AllTried
<1>5. ~returned
  BY DEF IInv, AllDone, TryNonce
<1> QED
  BY <1>2, <1>3, <1>4, <1>5 DEF Search!Try, TryNonce, AllTried, result

\* and a claim a Settle, or nothing if something was found before.
LEMMA ClaimIsSettle ==
  ASSUME IInv, NEW t \in Thread, Claim(t)
  PROVE  (\E n \in Nonce : Search!Settle(n)) \/ UNCHANGED Search!vars
<1>1. /\ nonce[t] \in AllTried \cap winning
      /\ nonce[t] \in Nonce
      /\ ~returned
  BY DEF IInv, TypeOK, HitsStop, AllDone, AllTried, Claim
<1>2. AllTried' = AllTried /\ UNCHANGED <<winning, returned>>
  BY DEF Claim, AllTried, history
<1>3. CASE found
  BY <1>2, <1>3 DEF Claim, Search!vars, result
<1>4. CASE ~found
  <2>1. success' = TRUE /\ solution'.seed = nonce[t]
    BY <1>4 DEF Claim, Record
  <2>2. ~success
    BY <1>4 DEF IInv
  <2> QED
    BY <1>1, <1>2, <2>1, <2>2 DEF Search!Settle
<1> QED
  BY <1>3, <1>4

\* Every behaviour of Miner is one of the abstract search.
THEOREM MinerImplementsSearch == Spec => ImplementsSearch
<1>1. Init => Search!Init
  BY DEF Init, Search!Init, AllTried
<1>2. ASSUME IInv, [Next]_vars PROVE [Search!Next]_(Search!vars)
  <2>1. ASSUME NEW t \in Thread, TryNonce(t) PROVE Search!Next
    BY <1>2, <2>1, TryNonceIsTry DEF Search!Next
  <2>2. ASSUME NEW t \in Thread, Claim(t) PROVE Search!Next \/ UNCHANGED Search!vars
    BY <1>2, <2>2, ClaimIsSettle DEF Search!Next
  <2>3. ASSUME NEW t \in Thread,
               LoopTest(t) \/ EnterCritical(t) \/ Count(t) \/ Progress(t) \/ Tally(t)
        PROVE  UNCHANGED Search!vars
    BY <2>3 DEF LoopTest, EnterCritical, Count, Progress, Tally, Search!vars,
                AllTried, result, history
  <2>4. ASSUME Return PROVE Search!Next
    <3>1. Search!Finish
      <4>1. ~success => AllTried \cap winning = {}
        BY <1>2, <2>4 DEF IInv, HitsStop, AllDone, AllTried, Return
      <4>2. success => solution.seed # NoNonce
        BY <1>2, MinerAssumption DEF IInv, TypeOK, SolutionIsGenuine
      <4>3. /\ ~returned /\ returned'
            /\ AllTried' = AllTried
            /\ UNCHANGED <<winning, success, solution>>
        BY <2>4 DEF Return, AllTried, result, history
      <4> QED
        BY <4>1, <4>2, <4>3, <2>4 DEF Search!Finish, Return
    <3> QED
      BY <3>1 DEF Search!Next
  <2>5. ASSUME Terminating \/ UNCHANGED vars PROVE UNCHANGED Search!vars
    BY <2>5 DEF Terminating, vars, Search!vars, AllTried, result, history
  <2> QED
    BY <1>2, <2>1, <2>2, <2>3, <2>4, <2>5 DEF Next, ThreadStep
<1> QED
  BY <1>1, <1>2, Invariance, PTL DEF Spec, ImplementsSearch, Search!Spec

(***************************************************************************)
(* The progress report.                                                    *)
(***************************************************************************)

\* Only thread 0 reports; and while it is at it, one period is still to be
\* added to the total.
ProgressInv ==
  /\ \A t \in Thread : pc[t] = "progress" => t = 0
  /\ printed + totalIterations + (IF pc[0] = "progress" THEN NumThreads * ProgressEvery ELSE 0)
       = NumThreads * ProgressEvery * (iterations[0] \div ProgressEvery)

\* A counter crosses a multiple of the period exactly when it reaches one.
LEMMA NextPeriod ==
  ASSUME NEW i \in Nat, NEW p \in Nat \ {0}
  PROVE  (i + 1) \div p = (i \div p) + IF (i + 1) % p = 0 THEN 1 ELSE 0
OBVIOUS

\* Counting keeps what the progress reports say.
LEMMA CountProgressInv ==
  ASSUME TypeOK, TypeOK', ProgressInv, NEW t \in Thread, Count(t)
  PROVE  ProgressInv'
<1> DEFINE i == iterations[0]
           step == NumThreads * ProgressEvery
<1> USE MinerAssumption DEF Count, Goto, history
<1>1. 0 \in Thread /\ i \in Nat /\ step \in Nat
  BY DEF Thread, TypeOK
<1>2. UNCHANGED <<printed, totalIterations>>
  OBVIOUS
<1>3. \A u \in Thread : pc'[u] = "progress" => u = 0
  BY DEF TypeOK, ProgressInv
<1>4. CASE t = 0
  <2>1. pc[0] = "count" /\ i' = i + 1
    BY <1>1, <1>4 DEF TypeOK
  <2>2. pc'[0] = "progress" <=> (i + 1) % ProgressEvery = 0
    BY <1>1, <1>4 DEF TypeOK
  <2>3. (i + 1) \div ProgressEvery
          = (i \div ProgressEvery) + IF (i + 1) % ProgressEvery = 0 THEN 1 ELSE 0
    BY <1>1, NextPeriod
  <2>4. i \div ProgressEvery \in Nat
    BY <1>1, DivisionFacts
  <2>5. step * ((i \div ProgressEvery) + 1) = step * (i \div ProgressEvery) + step
    BY <1>1, <2>4
  <2>6. step * ((i \div ProgressEvery) + 0) = step * (i \div ProgressEvery)
    BY <1>1, <2>4
  <2>7. printed + totalIterations = step * (i \div ProgressEvery)
    BY <2>1 DEF ProgressInv, TypeOK
  <2> HIDE DEF step
  <2>8. printed + totalIterations + (IF pc'[0] = "progress" THEN step ELSE 0)
          = step * (i' \div ProgressEvery)
    BY <2>1, <2>2, <2>3, <2>5, <2>6, <2>7, <1>1, <2>4 DEF TypeOK
  <2> QED
    BY <1>2, <1>3, <2>8 DEF ProgressInv, step
<1>5. CASE t # 0
  BY <1>1, <1>2, <1>3, <1>5 DEF TypeOK, ProgressInv
<1> QED
  BY <1>4, <1>5

\* The printed totals and the standing one account for each period once.
THEOREM ProgressIsConserved == Spec => []ProgressConserved
<1> USE MinerAssumption
<1>1. Init => ProgressInv
  BY DEF Init, ProgressInv, Thread
<1>2. ASSUME TypeOK, TypeOK', ProgressInv, [Next]_vars PROVE ProgressInv'
  <2> USE <1>2
  <2>1. 0 \in Thread
    BY DEF Thread
  <2>2. ASSUME NEW t \in Thread,
               LoopTest(t) \/ TryNonce(t) \/ EnterCritical(t) \/ Claim(t) \/ Tally(t)
        PROVE  ProgressInv'
    <3>1. /\ UNCHANGED <<iterations, totalIterations, printed>>
          /\ \A u \in Thread : pc'[u] = "progress" <=> pc[u] = "progress"
      BY <2>2 DEF LoopTest, TryNonce, EnterCritical, Claim, Tally, Goto, TypeOK, history
    <3> QED
      BY <3>1, <2>1 DEF ProgressInv
  <2>3. ASSUME NEW t \in Thread, Count(t) PROVE ProgressInv'
    BY <2>3, CountProgressInv
  <2>4. ASSUME NEW t \in Thread, Progress(t) PROVE ProgressInv'
    <3>1. t = 0 /\ pc[0] = "progress" /\ iterations' = iterations
      BY <2>4 DEF Progress, ProgressInv
    <3>2. \A u \in Thread : pc'[u] # "progress"
      <4>1. pc' = [pc EXCEPT ![0] = "test"]
        BY <2>4, <3>1 DEF Progress, Goto
      <4> QED
        BY <4>1 DEF ProgressInv, TypeOK
    <3>3. printed' + totalIterations' = printed + totalIterations + NumThreads * ProgressEvery
      <4>1. ProgressEvery * NumThreads = NumThreads * ProgressEvery
        OBVIOUS
      <4>2. NumThreads * ProgressEvery \in Nat /\ printed \in Nat /\ totalIterations \in Nat
        BY DEF TypeOK
      <4> HIDE MinerAssumption
      <4> QED
        BY <2>4, <4>1, <4>2 DEF Progress, PrintAndReset
    <3>4. printed' + totalIterations' + 0 = printed' + totalIterations'
      BY DEF TypeOK
    <3> HIDE MinerAssumption
    <3> QED
      BY <2>1, <3>1, <3>2, <3>3, <3>4 DEF ProgressInv
  <2>5. ASSUME Return \/ Terminating \/ UNCHANGED vars PROVE ProgressInv'
    BY <2>5 DEF Return, Terminating, vars, history, ProgressInv
  <2> QED
    BY <2>2, <2>3, <2>4, <2>5 DEF Next, ThreadStep
<1>3. TypeOK /\ ProgressInv => ProgressConserved
  BY DEF TypeOK, ProgressInv, ProgressConserved
<1> QED
  BY <1>1, <1>2, <1>3, TypeCorrectness, PTL DEF Spec

(***************************************************************************)
(* The budget.                                                             *)
(***************************************************************************)

Finished == {t \in Thread : pc[t] = "done"}

\* While nothing has been found, a thread leaves the loop with its quota used
\* up, and each one that has finished has added its quota to the result.
BudgetInv ==
  ~found =>
    /\ \A t \in Thread : pc[t] \in {"tally", "done"} => iterations[t] = Quota
    /\ reported = Quota * Cardinality(Finished)

\* Any set of threads is finite, and no larger than all of them.
LEMMA FinishedThreads ==
  ASSUME NEW S \in SUBSET Thread
  PROVE  /\ IsFiniteSet(S) /\ Cardinality(S) \in 0 .. NumThreads
         /\ IsFiniteSet(Thread) /\ Cardinality(Thread) = NumThreads
<1>1. IsFiniteSet(Thread) /\ Cardinality(Thread) = NumThreads
  BY MinerAssumption, FS_Interval DEF Thread
<1>2. IsFiniteSet(S) /\ Cardinality(S) <= NumThreads
  BY <1>1, FS_Subset
<1> QED
  BY <1>1, <1>2, FS_CardinalityType, MinerAssumption

\* The quotas of all threads stay within the budget.
LEMMA QuotasFit ==
  ASSUME NEW n \in 0 .. NumThreads
  PROVE  Quota * n \in 0 .. MaxIterations
<1> USE MinerAssumption, StretchFits
<1>1. NumThreads * Quota <= MaxIterations
  BY DivisionFacts DEF Quota
<1>2. n * Quota <= NumThreads * Quota
  <2>1. ASSUME n < NumThreads PROVE n * Quota + Quota <= NumThreads * Quota
    BY <2>1, ProductMonotonic
  <2> QED
    BY <2>1
<1>3. n * Quota = Quota * n /\ n * Quota \in Nat
  OBVIOUS
<1> QED
  BY <1>1, <1>2, <1>3

\* All the nonces that the threads try can be numbered by thread and pass.
LEMMA WithinBudget == IInv => Cardinality(AllTried) <= MaxIterations
<1> SUFFICES ASSUME IInv PROVE Cardinality(AllTried) <= MaxIterations
  OBVIOUS
<1> DEFINE Passes == Thread \X (1 .. Quota)
           hashed == [p \in Passes |-> NonceOf(p[1], p[2])]
           Reach == {hashed[p] : p \in Passes}
<1>1. IsFiniteSet(Passes) /\ Cardinality(Passes) = NumThreads * Quota
  <2>1. IsFiniteSet(1 .. Quota) /\ Cardinality(1 .. Quota) = Quota
    BY StretchFits, FS_Interval
  <2> QED
    BY <2>1, FinishedThreads, FS_Product
<1>2. hashed \in Surjection(Passes, Reach)
  BY DEF Surjection
<1>3. IsFiniteSet(Reach) /\ Cardinality(Reach) <= NumThreads * Quota
  BY <1>1, <1>2, FS_Surjection
<1>4. AllTried \subseteq Reach
  <2> SUFFICES ASSUME NEW t \in Thread, NEW n \in tried[t]
               PROVE  n \in Reach
    BY DEF AllTried
  <2>1. PICK i \in 1 .. Attempts(t) : n = NonceOf(t, i)
    BY DEF IInv, Stretches
  <2>2. <<t, i>> \in Passes
    BY <2>1, StretchFits DEF IInv, Stretches
  <2> QED
    BY <2>1, <2>2
<1>5. Cardinality(AllTried) <= NumThreads * Quota
  <2>1. Cardinality(AllTried) <= Cardinality(Reach) /\ IsFiniteSet(AllTried)
    BY <1>3, <1>4, FS_Subset
  <2>2. Cardinality(AllTried) \in Nat /\ Cardinality(Reach) \in Nat
    BY <1>3, <2>1, FS_CardinalityType
  <2> QED
    BY <1>3, <2>1, <2>2, StretchFits, MinerAssumption
<1>6. NumThreads * Quota <= MaxIterations
  BY MinerAssumption, DivisionFacts DEF Quota
<1>7. Cardinality(AllTried) \in Nat
  BY <1>3, <1>4, FS_Subset, FS_CardinalityType
<1> QED
  BY <1>5, <1>6, <1>7, StretchFits, MinerAssumption

\* A tally before anything is found adds the quota of its thread.
LEMMA TallyBudgetInv ==
  ASSUME IInv, BudgetInv, ~found, NEW t \in Thread, Tally(t)
  PROVE  BudgetInv'
<1> USE DEF Tally, Goto
<1>1. /\ Finished' = Finished \cup {t}
      /\ t \notin Finished
  BY DEF Finished, IInv, TypeOK
<1>2. Cardinality(Finished') = Cardinality(Finished) + 1
  BY <1>1, FinishedThreads, FS_AddElement DEF Finished
<1>3. Cardinality(Finished) \in Nat /\ Cardinality(Finished') \in 0 .. NumThreads
  BY <1>1, FinishedThreads DEF Finished
<1>4. reported + iterations[t] = Quota * Cardinality(Finished')
  <2>1. reported + iterations[t] = Quota * Cardinality(Finished) + Quota
    BY DEF BudgetInv
  <2> QED
    BY <2>1, <1>2, <1>3, StretchFits
<1>5. Quota * Cardinality(Finished') \in 0 .. Word64 - 1
  BY <1>3, QuotasFit, MinerAssumption
<1>6. reported' = Quota * Cardinality(Finished')
  BY <1>4, <1>5, MinerAssumption DEF TallyOf
<1> QED
  BY <1>6 DEF BudgetInv, IInv, TypeOK

\* Any step keeps the budget.
LEMMA NextBudgetInv == IInv /\ BudgetInv /\ [Next]_vars => BudgetInv'
<1> SUFFICES ASSUME IInv, BudgetInv, [Next]_vars, ~found'
             PROVE  BudgetInv'
  BY DEF BudgetInv
<1> USE DEF result, history, Finished
<1>1. ASSUME NEW t \in Thread, LoopTest(t) PROVE BudgetInv'
  <2> USE <1>1 DEF LoopTest, Goto, FoundSeenBy, Continue
  <2>1. pc'[t] = "tally" => iterations[t] = Quota
    BY StretchFits DEF IInv, TypeOK, Stretches, Attempts
  <2>2. Finished' = Finished
    BY DEF IInv, TypeOK
  <2> QED
    BY <2>1, <2>2 DEF BudgetInv, IInv, TypeOK
<1>2. ASSUME NEW t \in Thread, TryNonce(t) \/ EnterCritical(t) \/ Claim(t) \/ Progress(t)
      PROVE  BudgetInv'
  <2>1. \A u \in Thread : pc'[u] \in {"tally", "done"} => pc'[u] = pc[u]
    BY <1>2 DEF TryNonce, EnterCritical, Claim, Progress, Goto, IInv, TypeOK
  <2>2. ~found /\ UNCHANGED <<iterations, reported>>
    BY <1>2 DEF TryNonce, EnterCritical, Claim, Record, Progress
  <2>3. Finished' = Finished
    BY <1>2 DEF TryNonce, EnterCritical, Claim, Progress, Goto, IInv, TypeOK
  <2> QED
    BY <2>1, <2>2, <2>3 DEF BudgetInv
<1>3. ASSUME NEW t \in Thread, Count(t) PROVE BudgetInv'
  <2> USE <1>3 DEF Count, Goto
  <2>1. Finished' = Finished
    BY DEF IInv, TypeOK
  <2> QED
    BY <2>1 DEF BudgetInv, IInv, TypeOK
<1>4. ASSUME NEW t \in Thread, Tally(t) PROVE BudgetInv'
  BY <1>4, TallyBudgetInv DEF Tally
<1>5. CASE Return \/ Terminating \/ UNCHANGED vars
  <2>1. UNCHANGED <<pc, found, iterations, reported>>
    BY <1>5 DEF Return, Terminating, vars
  <2> QED
    BY <2>1 DEF BudgetInv
<1> QED
  BY <1>1, <1>2, <1>3, <1>4, <1>5 DEF Next, ThreadStep

\* The budget is never exceeded, and a search that fails has used it up but
\* for the remainder of the division, and reports exactly that.
THEOREM BudgetIsRespected == Spec => []BudgetRespected
<1>1. Init => BudgetInv
  <2> SUFFICES ASSUME Init PROVE BudgetInv
    OBVIOUS
  <2>1. Finished = {}
    BY DEF Init, Finished
  <2> QED
    BY <2>1, FS_EmptySet, StretchFits DEF Init, BudgetInv
<1>2. IInv /\ BudgetInv => BudgetRespected
  <2> SUFFICES ASSUME IInv, BudgetInv, returned, ~success
               PROVE  /\ \A t \in Thread : iterations[t] = Quota
                      /\ reported = NumThreads * Quota
    BY WithinBudget DEF BudgetRespected
  <2>1. ~found /\ AllDone
    BY DEF IInv
  <2>2. Finished = Thread
    BY <2>1 DEF AllDone, Finished
  <2>3. Cardinality(Finished) = NumThreads
    BY <2>2, FinishedThreads
  <2> QED
    BY <2>1, <2>3, StretchFits, MinerAssumption DEF BudgetInv, AllDone
<1> QED
  BY <1>1, <1>2, NextBudgetInv, Invariance, PTL DEF Spec
=============================================================================
