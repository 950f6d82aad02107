---------------------------- MODULE NumericsProofs ----------------------------
(***************************************************************************)
(* Proofs about the arithmetic of MCNumerics: Ntt for vectors of any power *)
(* of two, Solution for any K, bytes and word that fit each other.         *)
(*                                                                         *)
(* Ntt.  The parallel loop has no race: the blocks of a level start at     *)
(* multiples of len and their butterflies stay within len elements, so no  *)
(* two blocks touch the same element and the last one ends within the      *)
(* vector.  The latter needs len to divide N on every level, which         *)
(* doubling it keeps true.  And every element stays in the field, since    *)
(* the reversed counter stays within the vector, twiddle factors are       *)
(* reduced, and the sum of two reduced elements fits the word.             *)
(*                                                                         *)
(* Solution.  The accumulator is the exact sum: modulo the word always,    *)
(* and as a signed number because every partial sum is within the bounds   *)
(* of the assumption.  The byte-wise check counts leading zero bits: a     *)
(* byte's high bits vanish if and only if it is small enough, and the      *)
(* check goes from byte to byte only past zero bytes.                      *)
(*                                                                         *)
(* Base58.  Adding a byte keeps what the digits below a place and the      *)
(* carry out of it are worth together; the digits have no zero on top, so  *)
(* their value bounds their number, and eleven digits hold eight bytes.    *)
(*                                                                         *)
(* What a recursive function or a fold computes is proved by induction     *)
(* over the set of the numbers it is right for (module Arithmetic).        *)
(***************************************************************************)
EXTENDS MCNumerics, Arithmetic, SequenceTheorems

BlockOK(start) ==
  /\ DOMAIN block[start] = {"j", "w", "pair"}
  /\ block[start].j \in 0 .. len \div 2
  /\ block[start].pair # <<>> => block[start].j < len \div 2

LevelOK ==
  /\ len \in 1 .. N /\ len % 2 = 0 /\ N % len = 0
  /\ DOMAIN block = Blocks(len)
  /\ \A start \in Blocks(len) : BlockOK(start)

TypeOK ==
  /\ phase \in {"reverse", "levels", "done"}
  /\ DOMAIN a = Index
  /\ phase = "reverse" => len = 2
  /\ phase = "levels" => LevelOK

IInv == TypeOK /\ ReadsStayCurrent

-----------------------------------------------------------------------------
(***************************************************************************)
(* Blocks.                                                                 *)
(***************************************************************************)

\* Two multiples of l that are not the same are at least l apart.
LEMMA Multiples ==
  ASSUME NEW l \in Nat \ {0}, NEW s \in Nat, NEW t \in Nat, s % l = 0, t % l = 0, s < t
  PROVE  s + l <= t
<1> DEFINE p == s \div l
           q == t \div l
<1>1. s = l * p /\ t = l * q /\ p \in Nat /\ q \in Nat
  BY SMT
<1> HIDE DEF p, q
<1>2. p < q
  <2> SUFFICES ASSUME q <= p PROVE FALSE
    BY <1>1
  <2>1. l * q <= l * p
    BY <1>1, SMT
  <2> QED
    BY <1>1, <2>1
<1>3. l * (p + 1) <= l * q /\ l * (p + 1) = l * p + l
  BY <1>1, <1>2, SMT
<1> QED
  BY <1>1, <1>3

Elements(start) == start .. start + len - 1

\* Two blocks of a level share no element,
LEMMA BlocksDisjoint ==
  ASSUME NttAssumption, LevelOK, NEW s \in Blocks(len), NEW t \in Blocks(len), s # t
  PROVE  Elements(s) \cap Elements(t) = {}
<1>1. /\ s \in Nat /\ t \in Nat /\ s % len = 0 /\ t % len = 0 /\ len \in Nat \ {0}
  BY DEF Blocks, Index, LevelOK, NttAssumption
<1>2. s + len <= t \/ t + len <= s
  BY <1>1, Multiples
<1> QED
  BY <1>1, <1>2 DEF Elements

\* and none reaches beyond the vector.
LEMMA BlockInside ==
  ASSUME NttAssumption, LevelOK, NEW s \in Blocks(len)
  PROVE  Elements(s) \subseteq Index
<1>1. s \in Nat /\ s < N /\ s % len = 0 /\ len \in Nat \ {0} /\ N \in Nat /\ N % len = 0
  BY DEF Blocks, Index, LevelOK, NttAssumption
<1>2. s + len <= N
  BY <1>1, Multiples
<1> QED
  BY <1>1, <1>2 DEF Elements, Index

\* The two elements of a butterfly are of its own block.
LEMMA ButterflyInBlock ==
  ASSUME NttAssumption, LevelOK, NEW s \in Blocks(len), NEW q \in 0 .. len \div 2, q < len \div 2
  PROVE  s + q \in Elements(s) /\ Partner(s, q) \in Elements(s)
BY DEF Blocks, Index, LevelOK, NttAssumption, Elements, Partner

\* A level starts with nothing read.
LEMMA LevelStarts ==
  ASSUME NttAssumption, NEW l \in 1 .. N, l % 2 = 0, N % l = 0,
         len' = l, block' = StartLevel(l)
  PROVE  LevelOK' /\ \A start \in Blocks(l) : block'[start].pair = <<>>
<1>1. DOMAIN block' = Blocks(l)
      /\ \A start \in Blocks(l) : block'[start] = [j |-> 0, w |-> 1, pair |-> <<>>]
  BY DEF StartLevel, FirstButterfly
<1>2. 0 \in 0 .. l \div 2
  BY DEF NttAssumption
<1>3. \A start \in Blocks(l) : BlockOK(start)'
  BY <1>1, <1>2 DEF BlockOK
<1> QED
  BY <1>1, <1>3 DEF LevelOK

-----------------------------------------------------------------------------
(***************************************************************************)
(* The steps.                                                              *)
(***************************************************************************)
LEMMA Reversing ==
  ASSUME NttAssumption, IInv, ReverseStep \/ ReverseDone
  PROVE  IInv'
<1>1. CASE ReverseStep
  BY <1>1 DEF ReverseStep, Swap, IInv, TypeOK, ReadsStayCurrent
<1>2. CASE ReverseDone
  <2>1. len = 2 /\ len' = 2 /\ a' = a /\ phase' = "levels" /\ block' = StartLevel(2)
    BY <1>2 DEF ReverseDone, IInv, TypeOK
  <2>2. 2 \in 1 .. N /\ N % 2 = 0
    <3>1. N % 1 = 0 /\ 1 \in 1 .. N /\ 2 * 1 <= N
      BY DEF NttAssumption
    <3> QED
      BY <3>1 DEF NttAssumption
  <2>3. LevelOK' /\ \A start \in Blocks(2) : block'[start].pair = <<>>
    BY <2>1, <2>2, LevelStarts
  <2> QED
    BY <2>1, <2>3 DEF IInv, TypeOK, ReadsStayCurrent
<1> QED
  BY <1>1, <1>2

\* Reading a pair keeps the invariant,
LEMMA Reading ==
  ASSUME NttAssumption, IInv, phase = "levels", NEW s \in Blocks(len), ReadPair(s)
  PROVE  IInv'
<1>1. /\ block[s].j < len \div 2 /\ a' = a /\ len' = len /\ phase' = phase
      /\ block' = [block EXCEPT ![s].pair = <<a[s + block[s].j], a[Partner(s, block[s].j)]>>]
  BY DEF ReadPair
<1>2. LevelOK
  BY DEF IInv, TypeOK
<1>3. /\ DOMAIN block' = Blocks(len)
      /\ block'[s] = [block[s] EXCEPT !.pair = <<a[s + block[s].j], a[Partner(s, block[s].j)]>>]
      /\ \A t \in Blocks(len) \ {s} : block'[t] = block[t]
  BY <1>1, <1>2 DEF LevelOK
<1>4. /\ DOMAIN block'[s] = {"j", "w", "pair"}
      /\ block'[s].j = block[s].j
      /\ block'[s].pair = <<a[s + block[s].j], a[Partner(s, block[s].j)]>>
  BY <1>2, <1>3 DEF LevelOK, BlockOK
<1>5. \A t \in Blocks(len) : BlockOK(t)'
  BY <1>1, <1>2, <1>3, <1>4 DEF LevelOK, BlockOK
<1>6. LevelOK'
  BY <1>1, <1>2, <1>3, <1>5 DEF LevelOK
<1>7. ReadsStayCurrent'
  BY <1>1, <1>3, <1>4 DEF IInv, ReadsStayCurrent, Partner
<1> QED
  BY <1>1, <1>6, <1>7 DEF IInv, TypeOK

\* so does writing it,
LEMMA Writing ==
  ASSUME NttAssumption, IInv, phase = "levels", NEW s \in Blocks(len), WritePair(s)
  PROVE  IInv'
<1> DEFINE q == block[s].j
<1>1. LevelOK
  BY DEF IInv, TypeOK
<1>2. q \in 0 .. len \div 2 /\ q < len \div 2 /\ q + 1 \in 0 .. len \div 2
  BY <1>1 DEF WritePair, LevelOK, BlockOK, NttAssumption
<1>3. PICK x, y, w : /\ a' = [a EXCEPT ![s + q] = x, ![Partner(s, q)] = y]
                     /\ block' = [block EXCEPT ![s] = [j |-> q + 1, w |-> w, pair |-> <<>>]]
                     /\ len' = len /\ phase' = phase
  BY DEF WritePair
<1>4. /\ DOMAIN block' = Blocks(len)
      /\ block'[s] = [j |-> q + 1, w |-> w, pair |-> <<>>]
      /\ \A t \in Blocks(len) \ {s} : block'[t] = block[t]
  BY <1>1, <1>3 DEF LevelOK
<1>5. \A t \in Blocks(len) : BlockOK(t)'
  <2> HIDE DEF q
  <2> QED
    BY <1>1, <1>2, <1>3, <1>4 DEF LevelOK, BlockOK
<1>6. LevelOK'
  BY <1>1, <1>3, <1>4, <1>5 DEF LevelOK
<1>7. DOMAIN a' = Index
  BY <1>3 DEF IInv, TypeOK
<1>8. ReadsStayCurrent'
  <2> SUFFICES ASSUME NEW t \in Blocks(len), block'[t].pair # <<>>
               PROVE  block'[t].pair = <<a'[t + block'[t].j], a'[Partner(t, block'[t].j)]>>
    BY <1>3 DEF ReadsStayCurrent, Partner
  <2>1. t # s /\ block'[t] = block[t]
    BY <1>4
  <2>2. block[t].j \in 0 .. len \div 2 /\ block[t].j < len \div 2
    BY <1>1, <2>1 DEF LevelOK, BlockOK
  <2>3. {t + block[t].j, Partner(t, block[t].j)} \subseteq Index \ {s + q, Partner(s, q)}
    <3>1. {t + block[t].j, Partner(t, block[t].j)} \subseteq Elements(t)
      BY <1>1, <2>2, ButterflyInBlock
    <3>2. {s + q, Partner(s, q)} \subseteq Elements(s)
      BY <1>1, <1>2, ButterflyInBlock
    <3>3. Elements(s) \cap Elements(t) = {} /\ Elements(t) \subseteq Index
      BY <1>1, <2>1, BlocksDisjoint, BlockInside
    <3> QED
      BY <3>1, <3>2, <3>3
  <2>4. \A e \in Index \ {s + q, Partner(s, q)} : a'[e] = a[e]
    BY <1>3 DEF IInv, TypeOK
  <2>5. block[t].pair = <<a[t + block[t].j], a[Partner(t, block[t].j)]>>
    BY <2>1 DEF IInv, ReadsStayCurrent
  <2> QED
    BY <2>1, <2>3, <2>4, <2>5
<1> QED
  BY <1>3, <1>6, <1>7, <1>8 DEF IInv, TypeOK

\* and the end of a level.
LEMMA LevelEnds ==
  ASSUME NttAssumption, IInv, LevelDone
  PROVE  IInv'
<1>1. phase = "levels" /\ a' = a
  BY DEF LevelDone
<1>2. CASE 2 * len <= N /\ len' = 2 * len /\ block' = StartLevel(2 * len) /\ phase' = phase
  <2>1. len \in 1 .. N /\ N % len = 0
    BY <1>1 DEF IInv, TypeOK, LevelOK
  <2>2. 2 * len \in 1 .. N /\ (2 * len) % 2 = 0 /\ N % (2 * len) = 0
    <3>1. N \in Nat /\ (N % len = 0 /\ 2 * len <= N => N % (2 * len) = 0)
      BY <2>1 DEF NttAssumption
    <3>2. 2 * len \in 1 .. N /\ (2 * len) % 2 = 0
      BY <1>2, <2>1, <3>1
    <3> QED
      BY <1>2, <2>1, <3>1, <3>2
  <2>3. LevelOK' /\ \A start \in Blocks(2 * len) : block'[start].pair = <<>>
    BY <1>2, <2>2, LevelStarts
  <2> QED
    BY <1>1, <1>2, <2>3 DEF IInv, TypeOK, ReadsStayCurrent
<1>3. CASE phase' = "done"
  BY <1>1, <1>3 DEF IInv, TypeOK, ReadsStayCurrent
<1> QED
  BY <1>2, <1>3 DEF LevelDone

\* The invariant of the transform holds throughout.
LEMMA Invariance == NttAssumption => (Spec => []IInv)
<1> SUFFICES ASSUME NttAssumption PROVE Spec => []IInv
  OBVIOUS
<1>1. Init => IInv
  BY DEF Init, Vector, IInv, TypeOK, ReadsStayCurrent
<1>2. IInv /\ [Next]_vars => IInv'
  <2> SUFFICES ASSUME IInv, [Next]_vars PROVE IInv'
    OBVIOUS
  <2>1. CASE UNCHANGED vars
    BY <2>1 DEF vars, IInv, TypeOK, LevelOK, BlockOK, ReadsStayCurrent, Partner
  <2> QED
    BY <2>1, Reversing, Reading, Writing, LevelEnds DEF Next, Terminating
<1> QED
  BY <1>1, <1>2, PTL DEF Spec

\* The parallel loop over the blocks has no race: what a butterfly has read is
\* still in the vector when it writes, for vectors of any power of two and any
\* schedule of the blocks.
THEOREM NoRace == NttAssumption => (Spec => []ReadsStayCurrent)
<1> SUFFICES ASSUME NttAssumption PROVE Spec => []ReadsStayCurrent
  OBVIOUS
<1>1. IInv => ReadsStayCurrent
  BY DEF IInv
<1> QED
  BY <1>1, Invariance, PTL

-----------------------------------------------------------------------------
(***************************************************************************)
(* The product: a fold, term by term.                                      *)
(***************************************************************************)
\* The greatest of some numbers up to n is one of them.
LEMMA MaxIsThere ==
  ASSUME NEW n \in Nat, NEW s \in SUBSET (0 .. n), s # {}
  PROVE  Max(s) \in s /\ \A y \in s : Max(s) >= y
<1> DEFINE Gaps == {n - y : y \in s}
<1>1. Gaps \in SUBSET Nat /\ Gaps # {}
  <2>1. \A y \in s : n - y \in Nat
    OBVIOUS
  <2> QED
    BY <2>1
<1>2. PICK d \in Gaps : \A e \in Gaps : d <= e
  <2> HIDE DEF Gaps
  <2> QED
    BY <1>1, LeastNat
<1>3. PICK x \in s : d = n - x
  OBVIOUS
<1>4. \A y \in s : x >= y
  BY <1>2, <1>3
<1> QED
  BY <1>4 DEF Max

\* The greatest of 1 .. n + 1.
LEMMA MaxOfRange ==
  ASSUME NEW n \in Nat
  PROVE  Max(1 .. n + 1) = n + 1
<1>1. /\ Max(1 .. n + 1) \in 1 .. n + 1
      /\ \A y \in 1 .. n + 1 : Max(1 .. n + 1) >= y
  <2>1. 1 .. n + 1 \in SUBSET (0 .. n + 1) /\ 1 .. n + 1 # {} /\ n + 1 \in Nat
    OBVIOUS
  <2> QED
    BY <2>1, MaxIsThere
<1> QED
  BY <1>1

\* What FoldLeft sums by: the terms of a set of places, the last one last.
Sums(f, n, g) ==
  [s \in SUBSET (1 .. n) |-> IF s = {} THEN 0 ELSE g[s \ {Max(s)}] + f[Max(s)]]

SumsOf(f, n) == CHOOSE g : g = Sums(f, n, g)

\* There is a function of the partial sums,
LEMMA SumsExist ==
  ASSUME NEW f, NEW n \in Nat
  PROVE  SumsOf(f, n) = Sums(f, n, SumsOf(f, n))
<1> DEFINE S == {m \in Nat : \E g : g = Sums(f, m, g)}
<1>1. 0 \in S
  <2> DEFINE g == [s \in SUBSET (1 .. 0) |-> 0]
  <2>1. g = Sums(f, 0, g)
    <3>1. \A s \in SUBSET (1 .. 0) : s = {}
      OBVIOUS
    <3> QED
      BY <3>1 DEF Sums
  <2> QED
    BY <2>1
<1>2. ASSUME NEW m \in Nat, m \in S PROVE m + 1 \in S
  <2>1. PICK g : g = Sums(f, m, g)
    BY <1>2
  <2> DEFINE x == m + 1
             h == [s \in SUBSET (1 .. x) |-> IF x \in s THEN g[s \ {x}] + f[x] ELSE g[s]]
  <2>2. ASSUME NEW s \in SUBSET (1 .. x) PROVE h[s] = Sums(f, x, h)[s]
    <3>1. CASE x \in s
      <4>1. Max(s) = x
        <5>1. Max(s) \in s /\ \A y \in s : Max(s) >= y
          <6>1. s \in SUBSET (0 .. x) /\ s # {} /\ x \in Nat
            BY <3>1
          <6> QED
            BY <6>1, MaxIsThere
        <5>2. Max(s) \in 1 .. x /\ Max(s) >= x
          BY <3>1, <5>1
        <5> QED
          BY <5>2
      <4>2. h[s] = g[s \ {x}] + f[x] /\ h[s \ {x}] = g[s \ {x}]
        BY <3>1
      <4> QED
        BY <3>1, <4>1, <4>2 DEF Sums
    <3>2. CASE x \notin s
      <4>1. s \in SUBSET (1 .. m)
        BY <3>2
      <4>2. g[s] = IF s = {} THEN 0 ELSE g[s \ {Max(s)}] + f[Max(s)]
        BY <2>1, <4>1 DEF Sums
      <4>3. h[s] = g[s] /\ h[s \ {Max(s)}] = g[s \ {Max(s)}]
        BY <3>2
      <4> QED
        BY <4>2, <4>3 DEF Sums
    <3> QED
      BY <3>1, <3>2
  <2>3. h = Sums(f, x, h)
    <3>1. DOMAIN Sums(f, x, h) = SUBSET (1 .. x) /\ Sums(f, x, h) = [s \in SUBSET (1 .. x) |-> Sums(f, x, h)[s]]
      BY DEF Sums
    <3>2. h = [s \in SUBSET (1 .. x) |-> h[s]]
      OBVIOUS
    <3> HIDE DEF h, x
    <3> QED
      BY <2>2, <3>1, <3>2
  <2> QED
    BY <2>3
<1>3. n \in S
  <2> HIDE DEF S
  <2> QED
    BY <1>1, <1>2, Induction
<1> QED
  BY <1>3 DEF SumsOf

\* and it adds a term at a time.
LEMMA SumsUpTo ==
  ASSUME NEW f, NEW n \in Nat, NEW m \in 0 .. n
  PROVE  SumsOf(f, n)[1 .. m] =
           IF m = 0 THEN 0 ELSE SumsOf(f, n)[1 .. m - 1] + f[m]
<1>1. 1 .. m \in SUBSET (1 .. n)
  OBVIOUS
<1>2. SumsOf(f, n)[1 .. m] = Sums(f, n, SumsOf(f, n))[1 .. m]
  BY SumsExist
<1>3. m # 0 => Max(1 .. m) = m /\ 1 .. m # {} /\ (1 .. m) \ {m} = 1 .. m - 1
  <2> SUFFICES ASSUME m # 0 PROVE Max(1 .. m) = m /\ 1 .. m # {} /\ (1 .. m) \ {m} = 1 .. m - 1
    OBVIOUS
  <2>1. m - 1 \in Nat /\ m - 1 + 1 = m
    OBVIOUS
  <2>2. Max(1 .. m) = m
    BY <2>1, MaxOfRange
  <2> QED
    BY <2>2
<1>4. m = 0 => 1 .. m = {}
  OBVIOUS
<1> QED
  BY <1>1, <1>2, <1>3, <1>4 DEF Sums

\* Folds over two sequences that agree so far agree so far.
LEMMA SumsAgree ==
  ASSUME NEW f, NEW g, NEW n \in Nat, NEW p \in Nat, NEW h \in 0 .. n, h <= p,
         \A m \in 1 .. h : f[m] = g[m]
  PROVE  SumsOf(f, n)[1 .. h] = SumsOf(g, p)[1 .. h]
<1> DEFINE S == {m \in Nat : m <= h => SumsOf(f, n)[1 .. m] = SumsOf(g, p)[1 .. m]}
<1>1. 0 \in S
  BY SumsUpTo
<1>2. ASSUME NEW m \in Nat, m \in S PROVE m + 1 \in S
  <2> SUFFICES ASSUME m + 1 <= h
               PROVE  SumsOf(f, n)[1 .. m + 1] = SumsOf(g, p)[1 .. m + 1]
    OBVIOUS
  <2>1. m + 1 \in 0 .. n /\ m + 1 \in 0 .. p /\ m + 1 # 0 /\ m + 1 - 1 = m /\ m + 1 \in 1 .. h
    OBVIOUS
  <2>2. SumsOf(f, n)[1 .. m] = SumsOf(g, p)[1 .. m]
    BY <1>2, <2>1
  <2>3. /\ SumsOf(f, n)[1 .. m + 1] = SumsOf(f, n)[1 .. m] + f[m + 1]
        /\ SumsOf(g, p)[1 .. m + 1] = SumsOf(g, p)[1 .. m] + g[m + 1]
    BY <2>1, SumsUpTo
  <2> QED
    BY <2>1, <2>2, <2>3
<1>3. h \in S
  <2> HIDE DEF S
  <2> QED
    BY <1>1, <1>2, Induction
<1> QED
  BY <1>3

\* The sum of the first n products
Products(x, y, n) == [l \in 1 .. n |-> x[l] * y[l]]

Total(x, y, n) == SumsOf(Products(x, y, n), n)[1 .. n]

\* So does the sum of products,
LEMMA TotalGrows ==
  ASSUME NEW x, NEW y, NEW n \in Nat
  PROVE  /\ Total(x, y, 0) = 0
         /\ Total(x, y, n + 1) = Total(x, y, n) + x[n + 1] * y[n + 1]
<1> DEFINE f(m) == Products(x, y, m)
<1>1. SumsOf(f(0), 0)[1 .. 0] = 0
  <2> HIDE DEF f
  <2> QED
    BY SumsUpTo
<1>2. SumsOf(f(n + 1), n + 1)[1 .. n + 1] = SumsOf(f(n + 1), n + 1)[1 .. n] + f(n + 1)[n + 1]
  <2>1. n + 1 \in 0 .. n + 1 /\ n + 1 # 0 /\ n + 1 - 1 = n
    OBVIOUS
  <2> HIDE DEF f
  <2> QED
    BY <2>1, SumsUpTo
<1>3. SumsOf(f(n + 1), n + 1)[1 .. n] = SumsOf(f(n), n)[1 .. n]
  <2> DEFINE long == f(n + 1)
             short == f(n)
             size == n + 1
  <2>1. /\ size \in Nat /\ n \in 0 .. size /\ n <= n
        /\ \A m \in 1 .. n : long[m] = short[m]
    BY DEF Products
  <2> HIDE DEF f, long, short, size
  <2>2. SumsOf(long, size)[1 .. n] = SumsOf(short, n)[1 .. n]
    BY <2>1, SumsAgree
  <2> QED
    BY <2>2 DEF long, short, size
<1>4. f(n + 1)[n + 1] = x[n + 1] * y[n + 1]
  BY DEF Products
<1> QED
  BY <1>1, <1>2, <1>3, <1>4 DEF Total

\* which is the one the model folds.
LEMMA ExactSumIsTotal ==
  ASSUME NEW n \in Nat
  PROVE  Solver!ExactSum(n) = Total(A, B, n)
BY DEF Solver!ExactSum, Solver!FoldLeft, Solver!MapThenFoldSet, Solver!Max, Max, Total,
   Products, SumsOf, Sums

\* A word has two halves of the same size, below and above zero.
LEMMA WordIsEven ==
  ASSUME Solver!SolutionAssumption
  PROVE  Solver!Word \in Nat \ {0} /\ Solver!Word % 2 = 0
<1>1. 8 * WordBytes - 1 \in Nat /\ (8 * WordBytes - 1) + 1 = 8 * WordBytes
  BY DEF Solver!SolutionAssumption
<1>2. /\ 2 ^ (8 * WordBytes) = 2 * 2 ^ (8 * WordBytes - 1)
      /\ 2 ^ (8 * WordBytes - 1) \in Nat \ {0}
  BY <1>1, PowerDoubles
<1> QED
  BY <1>2 DEF Solver!Word

\* A number that fits in the word is kept as it is.
LEMMA SignedIsExact ==
  ASSUME Solver!SolutionAssumption, NEW n \in Int,
         -(Solver!Word \div 2) <= n, n < Solver!Word \div 2
  PROVE  Solver!Signed(n) = n
<1> DEFINE w == Solver!Word
<1>1. w \in Nat \ {0} /\ w % 2 = 0
  BY WordIsEven
<1> HIDE DEF w
<1>2. CASE n >= 0
  <2>1. n % w = n
    BY <1>1, <1>2 DEF w
  <2> QED
    BY <2>1 DEF Solver!Signed, w
<1>3. CASE n < 0
  <2>1. n % w = n + w /\ n + w >= w \div 2
    BY <1>1, <1>3 DEF w
  <2> QED
    BY <1>1, <1>3, <2>1 DEF Solver!Signed, w
<1> QED
  BY <1>2, <1>3

\* An unsigned byte times a signed one
LEMMA TermBounds ==
  ASSUME NEW x \in 0 .. 255, NEW y \in -128 .. 127
  PROVE  x * y \in Int /\ -(255 * 128) <= x * y /\ x * y <= 255 * 128
<1>1. x * y \in Int
  OBVIOUS
<1>2. x * (-128) <= x * y /\ x * y <= x * 127
  OBVIOUS
<1> QED
  BY <1>1, <1>2

-----------------------------------------------------------------------------
(***************************************************************************)
(* The check, byte by byte and bit by bit.                                 *)
(***************************************************************************)
\* The first `bits` bits of a sequence are zero.
ZeroBits(s, bits) == \A n \in 1 .. bits : s[n] = 0

\* There are at least so many leading zeros if the first so many bits are zero.
LEMMA LeadingZerosMean ==
  ASSUME NEW s, Len(s) \in Nat, NEW bits \in 0 .. Len(s)
  PROVE  Solver!LeadingZeros(s) >= bits <=> ZeroBits(s, bits)
<1> DEFINE Zeros == {m \in 0 .. Len(s) : \A n \in 1 .. m : s[n] = 0}
<1>1. Zeros \in SUBSET (0 .. Len(s)) /\ 0 \in Zeros
  OBVIOUS
<1>2. Max(Zeros) \in Zeros /\ \A y \in Zeros : Max(Zeros) >= y
  <2> HIDE DEF Zeros
  <2> QED
    BY <1>1, MaxIsThere
<1>3. Solver!LeadingZeros(s) = Max(Zeros)
  BY DEF Solver!LeadingZeros, Solver!Max, Max
<1>4. ASSUME ZeroBits(s, bits) PROVE Max(Zeros) >= bits
  <2>1. bits \in Zeros
    BY <1>4 DEF ZeroBits
  <2> QED
    BY <1>2, <2>1
<1>5. ASSUME Max(Zeros) >= bits PROVE ZeroBits(s, bits)
  <2>1. Max(Zeros) \in 0 .. Len(s) /\ \A n \in 1 .. Max(Zeros) : s[n] = 0
    BY <1>2
  <2> HIDE DEF Zeros
  <2> QED
    BY <1>5, <2>1 DEF ZeroBits
<1> QED
  BY <1>3, <1>4, <1>5

\* A sequence has a number of leading zeros.
LEMMA LeadingZerosNumber ==
  ASSUME NEW s, Len(s) \in Nat
  PROVE  Solver!LeadingZeros(s) \in Nat
<1> DEFINE Zeros == {m \in 0 .. Len(s) : \A n \in 1 .. m : s[n] = 0}
<1>1. Zeros \in SUBSET (0 .. Len(s)) /\ 0 \in Zeros
  OBVIOUS
<1>2. Max(Zeros) \in Zeros
  <2> HIDE DEF Zeros
  <2> QED
    BY <1>1, MaxIsThere
<1>3. Solver!LeadingZeros(s) = Max(Zeros)
  BY DEF Solver!LeadingZeros, Solver!Max, Max
<1>4. \A m \in Zeros : m \in Nat
  OBVIOUS
<1> HIDE DEF Zeros
<1> QED
  BY <1>2, <1>3, <1>4

\* Bit r of a byte, from the top
BitOf(byte, r) == (byte \div 2 ^ (7 - r)) % 2

\* A byte's high bits are zero when they are, one by one.
LEMMA HighBitsMean ==
  ASSUME NEW b \in 0 .. 255, NEW n \in 0 .. 8
  PROVE  (\A r \in 0 .. n - 1 : BitOf(b, r) = 0) <=> b < 2 ^ (8 - n)
<1> DEFINE S == {m \in 0 .. 8 : (\A r \in 0 .. m - 1 : BitOf(b, r) = 0) <=> b < 2 ^ (8 - m)}
<1>1. 0 \in S
  <2>1. 2 ^ (8 - 0) = 256
    OBVIOUS
  <2> QED
    BY <2>1
<1>2. ASSUME NEW m \in 0 .. 7, m \in S PROVE m + 1 \in S
  <2> DEFINE p == 2 ^ (7 - m)
  <2>1. 7 - m \in Nat /\ (7 - m) + 1 = 8 - m
    OBVIOUS
  <2>2. 2 ^ (8 - m) = 2 * p /\ p \in Nat \ {0} /\ 8 - (m + 1) = 7 - m
    BY <2>1, PowerDoubles
  <2>3. (\A r \in 0 .. m - 1 : BitOf(b, r) = 0) <=> b < 2 * p
    BY <1>2, <2>2
  <2>4. (\A r \in 0 .. m : BitOf(b, r) = 0)
        <=> (\A r \in 0 .. m - 1 : BitOf(b, r) = 0) /\ BitOf(b, m) = 0
    <3>1. \A r : r \in 0 .. m <=> r \in 0 .. m - 1 \/ r = m
      OBVIOUS
    <3> QED
      BY <3>1
  <2>5. BitOf(b, m) = (b \div p) % 2
    BY DEF BitOf
  <2> HIDE DEF p
  <2>6. b < p <=> b < 2 * p /\ (b \div p) % 2 = 0
    <3>1. CASE b < p
      <4>1. b \div p = 0
        BY <2>2, <3>1
      <4> QED
        BY <2>2, <3>1, <4>1
    <3>2. CASE p <= b /\ b < 2 * p
      <4>1. b \div p = 1
        BY <2>2, <3>2
      <4> QED
        BY <2>2, <3>2, <4>1
    <3> QED
      BY <2>2, <3>1, <3>2
  <2>7. (\A r \in 0 .. m : BitOf(b, r) = 0) <=> b < p
    BY <2>3, <2>4, <2>5, <2>6
  <2> USE DEF p
  <2>8. m + 1 \in 0 .. 8 /\ m + 1 - 1 = m
    OBVIOUS
  <2> QED
    BY <2>2, <2>7, <2>8
<1>3. n \in S
  <2> HIDE DEF S
  <2> QED
    BY <1>1, <1>2, InductionTo
<1> QED
  BY <1>3

\* A byte is zero if its bits are, and so are its upper bits.
LEMMA ByteMeans ==
  ASSUME NEW b \in 0 .. 255, NEW n \in 0 .. 7
  PROVE  /\ b = 0 <=> \A t \in 0 .. 7 : BitOf(b, t) = 0
         /\ Solver!HighBits(b, n) = 0 <=> \A t \in 0 .. n - 1 : BitOf(b, t) = 0
<1>1. b = 0 <=> \A t \in 0 .. 7 : BitOf(b, t) = 0
  <2>1. PICK all \in 0 .. 8 : all = 8
    OBVIOUS
  <2>2. (\A t \in 0 .. all - 1 : BitOf(b, t) = 0) <=> b < 2 ^ (8 - all)
    BY HighBitsMean
  <2>3. all - 1 = 7 /\ 2 ^ (8 - all) = 1
    BY <2>1
  <2> QED
    BY <2>2, <2>3
<1>2. Solver!HighBits(b, n) = 0 <=> \A t \in 0 .. n - 1 : BitOf(b, t) = 0
  <2> DEFINE p == 2 ^ (8 - n)
  <2>1. p \in Nat \ {0}
    <3>1. 8 - n \in Nat
      OBVIOUS
    <3> QED
      BY <3>1, PowerIsCount
  <2>2. (\A t \in 0 .. n - 1 : BitOf(b, t) = 0) <=> b < p
    <3>1. n \in 0 .. 8
      OBVIOUS
    <3> QED
      BY <3>1, HighBitsMean
  <2>3. Solver!HighBits(b, n) = b - (b % p)
    BY DEF Solver!HighBits
  <2> HIDE DEF p
  <2>4. b \in Nat
    OBVIOUS
  <2>5. b % p < p
    BY <2>1, <2>4, SmallRemainder
  <2>6. b < p => b % p = b
    BY <2>1, <2>4, SmallRemainder
  <2>7. b - (b % p) = 0 <=> b < p
    BY <2>1, <2>4, <2>5, <2>6
  <2> QED
    BY <2>2, <2>3, <2>7
<1> QED
  BY <1>1, <1>2

\* check_diff_fast looks at whole bytes and then at the high bits of one
\* more: together, at the first `bits` bits.
LEMMA CheckMeans ==
  ASSUME NEW n \in Nat, NEW h \in [1 .. n -> 0 .. 255], NEW bits \in 0 .. 8 * n
  PROVE  Solver!check_diff_fast(h, bits) <=> ZeroBits(Solver!Bits(h), bits)
<1> DEFINE q == bits \div 8
           r == bits % 8
<1>1. q \in Nat /\ r \in 0 .. 7 /\ bits = 8 * q + r /\ (r > 0 => q + 1 \in 1 .. n) /\ q <= n
  OBVIOUS
<1>2. Len(h) = n
  <2>1. h \in Seq(0 .. 255)
    OBVIOUS
  <2> QED
    BY <2>1
<1>3. ASSUME NEW p \in 1 .. n, NEW t \in 0 .. 7
      PROVE  /\ 8 * (p - 1) + t + 1 \in 1 .. 8 * n
             /\ Solver!Bits(h)[8 * (p - 1) + t + 1] = BitOf(h[p], t)
  <2> DEFINE m == 8 * (p - 1) + t + 1
  <2>1. m \in 1 .. 8 * n /\ (m - 1) \div 8 + 1 = p /\ (m - 1) % 8 = t
    OBVIOUS
  <2>2. m \in 1 .. 8 * Len(h)
    BY <1>2, <2>1
  <2>3. Solver!Bits(h)[m] = (h[(m - 1) \div 8 + 1] \div 2 ^ (7 - ((m - 1) % 8))) % 2
    <3> HIDE DEF m
    <3> QED
      BY <2>2 DEF Solver!Bits
  <2> QED
    BY <2>1, <2>3 DEF BitOf
<1>4. ASSUME NEW p \in 1 .. n
      PROVE  /\ h[p] = 0 <=> \A t \in 0 .. 7 : BitOf(h[p], t) = 0
             /\ r > 0 => (Solver!HighBits(h[p], r) = 0
                            <=> \A t \in 0 .. r - 1 : BitOf(h[p], t) = 0)
  BY <1>1, ByteMeans
<1> HIDE DEF q, r
<1>5. ASSUME Solver!check_diff_fast(h, bits), NEW m \in 1 .. bits
      PROVE  Solver!Bits(h)[m] = 0
  <2> DEFINE p == (m - 1) \div 8 + 1
             t == (m - 1) % 8
  <2>1. p \in 1 .. n /\ t \in 0 .. 7 /\ m = 8 * (p - 1) + t + 1
        /\ (p <= q \/ (p = q + 1 /\ t < r))
    BY <1>1
  <2> HIDE DEF p, t
  <2>2. BitOf(h[p], t) = 0
    <3>1. CASE p <= q
      <4>1. h[p] = 0
        BY <1>5, <2>1, <3>1 DEF Solver!check_diff_fast, q
      <4> QED
        BY <1>4, <2>1, <4>1
    <3>2. CASE p = q + 1 /\ t < r
      <4>1. Solver!HighBits(h[p], r) = 0 /\ r > 0
        BY <1>1, <1>5, <2>1, <3>2 DEF Solver!check_diff_fast, q, r
      <4> QED
        BY <1>1, <1>4, <2>1, <3>2, <4>1
    <3> QED
      BY <2>1, <3>1, <3>2
  <2> QED
    BY <1>3, <2>1, <2>2
<1>6. ASSUME ZeroBits(Solver!Bits(h), bits) PROVE Solver!check_diff_fast(h, bits)
  <2>1. ASSUME NEW m \in 1 .. q PROVE h[m] = 0
    <3>1. m \in 1 .. n
      BY <1>1
    <3>2. ASSUME NEW t \in 0 .. 7 PROVE BitOf(h[m], t) = 0
      <4>1. 8 * (m - 1) + t + 1 \in 1 .. bits
        BY <1>1
      <4>2. Solver!Bits(h)[8 * (m - 1) + t + 1] = BitOf(h[m], t)
        BY <1>3, <3>1
      <4> QED
        BY <1>6, <4>1, <4>2 DEF ZeroBits
    <3> QED
      BY <1>4, <3>1, <3>2
  <2>2. ASSUME r > 0 PROVE Solver!HighBits(h[q + 1], r) = 0
    <3>1. q + 1 \in 1 .. n /\ q \in Nat /\ r \in 1 .. 7
      BY <1>1, <2>2
    <3>2. ASSUME NEW t \in 0 .. r - 1 PROVE BitOf(h[q + 1], t) = 0
      <4>1. 8 * ((q + 1) - 1) + t + 1 \in 1 .. bits /\ t \in 0 .. 7
        BY <1>1, <3>1
      <4>2. Solver!Bits(h)[8 * ((q + 1) - 1) + t + 1] = BitOf(h[q + 1], t)
        BY <1>3, <3>1, <4>1
      <4> QED
        BY <1>6, <4>1, <4>2 DEF ZeroBits
    <3> QED
      BY <1>4, <2>2, <3>1, <3>2
  <2> QED
    BY <2>1, <2>2 DEF Solver!check_diff_fast, q, r
<1> QED
  BY <1>5, <1>6 DEF ZeroBits

-----------------------------------------------------------------------------
(***************************************************************************)
(* Base 58: the value of a sequence of digits.                             *)
(***************************************************************************)
\* What FoldLeft folds by: the elements of a set of places, the last one last.
Folded(next, n, g) ==
  [s \in SUBSET (1 .. n) |-> IF s = {} THEN 0 ELSE next[Max(s)][g[s \ {Max(s)}]]]

CanFold(next, n) == \E g \in [SUBSET (1 .. n) -> Int] : g = Folded(next, n, g)

\* A fold over the places of a sequence has a value for every set of places.
LEMMA FoldExists ==
  ASSUME NEW n \in Nat, NEW next \in [1 .. n -> [Int -> Int]]
  PROVE  CanFold(next, n)
<1> DEFINE S == {m \in Nat : m <= n => CanFold(next, m)}
<1>1. 0 \in S
  <2> DEFINE g == [s \in SUBSET (1 .. 0) |-> 0]
  <2>1. g = Folded(next, 0, g)
    <3>1. \A s \in SUBSET (1 .. 0) : s = {}
      OBVIOUS
    <3> QED
      BY <3>1 DEF Folded
  <2>2. g \in [SUBSET (1 .. 0) -> Int]
    OBVIOUS
  <2> HIDE DEF g
  <2>3. CanFold(next, 0)
    BY <2>1, <2>2 DEF CanFold
  <2> QED
    BY <2>3
<1>2. ASSUME NEW m \in Nat, m \in S PROVE m + 1 \in S
  <2> SUFFICES ASSUME m + 1 <= n PROVE CanFold(next, m + 1)
    OBVIOUS
  <2>0. CanFold(next, m)
    BY <1>2
  <2>1. PICK g \in [SUBSET (1 .. m) -> Int] : g = Folded(next, m, g)
    BY <2>0 DEF CanFold
  <2> DEFINE x == m + 1
             h == [s \in SUBSET (1 .. x) |-> IF x \in s THEN next[x][g[s \ {x}]] ELSE g[s]]
  <2>2. \A s \in SUBSET (1 .. x) : /\ s \ {x} \in SUBSET (1 .. m)
                                   /\ x \notin s => s \in SUBSET (1 .. m)
    OBVIOUS
  <2>3. h \in [SUBSET (1 .. x) -> Int]
    <3>1. next[x] \in [Int -> Int]
      OBVIOUS
    <3> HIDE DEF x
    <3> QED
      BY <2>2, <3>1
  <2>4. ASSUME NEW s \in SUBSET (1 .. x) PROVE h[s] = Folded(next, x, h)[s]
    <3>1. CASE x \in s
      <4>1. Max(s) = x
        <5>1. Max(s) \in s /\ \A y \in s : Max(s) >= y
          <6>1. s \in SUBSET (0 .. x) /\ s # {} /\ x \in Nat
            BY <3>1
          <6> QED
            BY <6>1, MaxIsThere
        <5>2. Max(s) \in 1 .. x /\ Max(s) >= x
          BY <3>1, <5>1
        <5> QED
          BY <5>2
      <4>2. h[s] = next[x][g[s \ {x}]] /\ h[s \ {x}] = g[s \ {x}]
        BY <3>1
      <4> QED
        BY <3>1, <4>1, <4>2 DEF Folded
    <3>2. CASE x \notin s
      <4>1. s \in SUBSET (1 .. m)
        BY <2>2, <3>2
      <4>2. g[s] = IF s = {} THEN 0 ELSE next[Max(s)][g[s \ {Max(s)}]]
        BY <2>1, <4>1 DEF Folded
      <4>3. h[s] = g[s] /\ h[s \ {Max(s)}] = g[s \ {Max(s)}]
        BY <3>2
      <4> QED
        BY <4>2, <4>3 DEF Folded
    <3> QED
      BY <3>1, <3>2
  <2>5. h = Folded(next, x, h)
    <3>1. /\ DOMAIN Folded(next, x, h) = SUBSET (1 .. x)
          /\ Folded(next, x, h) = [s \in SUBSET (1 .. x) |-> Folded(next, x, h)[s]]
      BY DEF Folded
    <3>2. h = [s \in SUBSET (1 .. x) |-> h[s]]
      OBVIOUS
    <3> HIDE DEF h, x
    <3> QED
      BY <2>4, <3>1, <3>2
  <2> QED
    BY <2>3, <2>5 DEF CanFold
<1>3. n \in S
  <2> HIDE DEF S
  <2> QED
    BY <1>1, <1>2, Induction
<1> QED
  BY <1>3

\* The first m places are the first m - 1 and a last one, m.
LEMMA FoldGrows ==
  ASSUME NEW n \in Nat, NEW m \in 0 .. n
  PROVE  /\ 1 .. m \in SUBSET (1 .. n)
         /\ m = 0 => 1 .. m = {}
         /\ m # 0 => Max(1 .. m) = m /\ 1 .. m # {} /\ (1 .. m) \ {m} = 1 .. m - 1
<1>1. 1 .. m \in SUBSET (1 .. n)
  OBVIOUS
<1>2. m = 0 => 1 .. m = {}
  OBVIOUS
<1>3. ASSUME m # 0 PROVE Max(1 .. m) = m /\ 1 .. m # {} /\ (1 .. m) \ {m} = 1 .. m - 1
  <2>1. m - 1 \in Nat /\ m - 1 + 1 = m
    BY <1>3
  <2>2. Max(1 .. m) = m
    BY <2>1, MaxOfRange
  <2> QED
    BY <1>3, <2>2
<1> QED
  BY <1>1, <1>2, <1>3

\* A fold of digits, place by place
Places(s, n, base, g) ==
  [t \in SUBSET (1 .. n) |-> IF t = {} THEN 0 ELSE g[t \ {Max(t)}] * base + s[Max(t)]]

PlacesOf(s, n, base) == CHOOSE g : g = Places(s, n, base, g)

\* The values of the first digits, one more at a time
Rises(s, base, v) ==
  /\ v \in [0 .. Len(s) -> Int]
  /\ v[0] = 0
  /\ \A m \in 1 .. Len(s) : v[m] = v[m - 1] * base + s[m]

\* The value of digits is reached digit by digit: times the base, plus the digit.
LEMMA ValueRises ==
  ASSUME NEW s \in Seq(Int), NEW base \in Int
  PROVE  \E v : Rises(s, base, v) /\ Solver!Value(s, base) = v[Len(s)]
<1> DEFINE n == Len(s)
           t == [i_1 \in 1 .. n |-> s[i_1]]
           g == PlacesOf(t, n, base)
<1>1. n \in Nat /\ s = t
  OBVIOUS
<1>2. Solver!Value(t, base) = g[1 .. n]
  <2> HIDE DEF n
  <2> QED
    BY DEF Solver!Value, Solver!FoldLeft, Solver!MapThenFoldSet, Solver!Max, Max, PlacesOf,
       Places
<1>3. \A i_1 \in 1 .. n : t[i_1] \in Int
  OBVIOUS
<1> HIDE DEF n, t
<1>4. \E f \in [SUBSET (1 .. n) -> Int] : f = Places(t, n, base, f)
  <2> DEFINE next == [m \in 1 .. n |-> [x \in Int |-> x * base + t[m]]]
  <2>1. next \in [1 .. n -> [Int -> Int]]
    BY <1>3
  <2>2. PICK f \in [SUBSET (1 .. n) -> Int] : f = Folded(next, n, f)
    <3> HIDE DEF next
    <3> QED
      BY <1>1, <2>1, FoldExists DEF CanFold
  <2>3. ASSUME NEW r \in SUBSET (1 .. n), r # {}
        PROVE  next[Max(r)][f[r \ {Max(r)}]] = f[r \ {Max(r)}] * base + t[Max(r)]
    <3>1. Max(r) \in 1 .. n
      <4>1. r \in SUBSET (0 .. n)
        BY <1>1
      <4> QED
        BY <1>1, <2>3, <4>1, MaxIsThere
    <3> QED
      BY <3>1
  <2>4. \A r \in SUBSET (1 .. n) :
          f[r] = IF r = {} THEN 0 ELSE f[r \ {Max(r)}] * base + t[Max(r)]
    <3> HIDE DEF next
    <3> QED
      BY <2>2, <2>3 DEF Folded
  <2>5. f = [r \in SUBSET (1 .. n) |-> f[r]]
    OBVIOUS
  <2> QED
    BY <2>4, <2>5 DEF Places
<1>5. g = Places(t, n, base, g)
  BY <1>4 DEF PlacesOf
<1> HIDE DEF g
<1> DEFINE v == [m \in 0 .. n |-> g[1 .. m]]
<1>6. ASSUME NEW m \in 0 .. n
      PROVE  g[1 .. m] = IF m = 0 THEN 0 ELSE g[1 .. m - 1] * base + t[m]
  <2>1. 1 .. m \in SUBSET (1 .. n)
    BY <1>1, FoldGrows
  <2>2. g[1 .. m] = Places(t, n, base, g)[1 .. m]
    BY <1>5
  <2>3. g[1 .. m] = IF 1 .. m = {} THEN 0
                    ELSE g[(1 .. m) \ {Max(1 .. m)}] * base + t[Max(1 .. m)]
    BY <2>1, <2>2 DEF Places
  <2>4. m = 0 => 1 .. m = {}
    BY <1>1, FoldGrows
  <2>5. m # 0 => Max(1 .. m) = m /\ 1 .. m # {} /\ (1 .. m) \ {m} = 1 .. m - 1
    BY <1>1, FoldGrows
  <2> QED
    BY <2>3, <2>4, <2>5
<1>7. \A m \in 0 .. n : g[1 .. m] \in Int
  <2> DEFINE S == {m \in Nat : m <= n => g[1 .. m] \in Int}
  <2>1. 0 \in S
    BY <1>1, <1>6
  <2>2. ASSUME NEW m \in Nat, m \in S PROVE m + 1 \in S
    <3> SUFFICES ASSUME m + 1 <= n PROVE g[1 .. m + 1] \in Int
      OBVIOUS
    <3>1. m + 1 \in 0 .. n /\ m + 1 # 0 /\ m + 1 - 1 = m /\ m + 1 \in 1 .. n /\ g[1 .. m] \in Int
      BY <1>1, <2>2
    <3>2. g[1 .. m + 1] = g[1 .. m] * base + t[m + 1]
      BY <1>6, <3>1
    <3> QED
      BY <1>3, <3>1, <3>2
  <2>3. \A m \in Nat : m \in S
    <3> HIDE DEF S
    <3> QED
      BY <2>1, <2>2, Induction
  <2> QED
    BY <2>3
<1>8. /\ v \in [0 .. n -> Int] /\ v[0] = 0 /\ v[n] = g[1 .. n]
      /\ \A m \in 1 .. n : v[m] = v[m - 1] * base + t[m]
  <2>1. v \in [0 .. n -> Int]
    BY <1>7
  <2>2. \A m \in 0 .. n : v[m] = g[1 .. m]
    OBVIOUS
  <2>3. v[0] = 0 /\ v[n] = g[1 .. n]
    <3>1. 0 \in 0 .. n /\ n \in 0 .. n
      BY <1>1
    <3>2. g[1 .. 0] = 0
      BY <1>6, <3>1
    <3> QED
      BY <2>2, <3>1, <3>2
  <2>4. ASSUME NEW m \in 1 .. n PROVE v[m] = v[m - 1] * base + t[m]
    <3>1. m \in 0 .. n /\ m - 1 \in 0 .. n /\ m # 0
      BY <1>1
    <3> HIDE DEF v
    <3> QED
      BY <1>6, <2>2, <3>1
  <2> QED
    BY <2>1, <2>3, <2>4
<1> HIDE DEF v
<1>9. Rises(s, base, v)
  BY <1>1, <1>8 DEF Rises, n
<1>10. Solver!Value(s, base) = v[n]
  BY <1>1, <1>2, <1>8
<1> QED
  BY <1>9, <1>10 DEF n

\* The values of the first digits depend on these alone.
LEMMA RisesAgree ==
  ASSUME NEW s \in Seq(Int), NEW t \in Seq(Int), NEW base \in Int,
         NEW v, NEW w, Rises(s, base, v), Rises(t, base, w),
         NEW h \in Nat, h <= Len(s), h <= Len(t), \A m \in 1 .. h : s[m] = t[m]
  PROVE  v[h] = w[h]
<1> DEFINE S == {m \in Nat : m <= h => v[m] = w[m]}
<1>1. 0 \in S
  BY DEF Rises
<1>2. ASSUME NEW m \in Nat, m \in S PROVE m + 1 \in S
  <2> SUFFICES ASSUME m + 1 <= h PROVE v[m + 1] = w[m + 1]
    OBVIOUS
  <2>1. m + 1 \in 1 .. Len(s) /\ m + 1 \in 1 .. Len(t) /\ m + 1 \in 1 .. h /\ m + 1 - 1 = m
    OBVIOUS
  <2>2. v[m + 1] = v[m] * base + s[m + 1] /\ w[m + 1] = w[m] * base + t[m + 1]
    BY <2>1 DEF Rises
  <2> QED
    BY <1>2, <2>1, <2>2
<1>3. h \in S
  <2> HIDE DEF S
  <2> QED
    BY <1>1, <1>2, Induction
<1> QED
  BY <1>3

\* The first m digits of a sequence of them
Firsts(s, m) == SubSeq(s, 1, m)

\* The first m elements of a sequence.
LEMMA FirstsAre ==
  ASSUME NEW D, NEW s \in Seq(D), NEW m \in 0 .. Len(s)
  PROVE  /\ Firsts(s, m) \in Seq(D) /\ Len(Firsts(s, m)) = m
         /\ \A i_1 \in 1 .. m : Firsts(s, m)[i_1] = s[i_1]
         /\ m = Len(s) => Firsts(s, m) = s
BY DEF Firsts

\* The value of more and more of the digits
LEMMA ValueGrows ==
  ASSUME NEW s \in Seq(Int), NEW base \in Int
  PROVE  /\ \A m \in 0 .. Len(s) : Solver!Value(Firsts(s, m), base) \in Int
         /\ Solver!Value(Firsts(s, 0), base) = 0
         /\ \A m \in 0 .. Len(s) - 1 :
              Solver!Value(Firsts(s, m + 1), base) = Solver!Value(Firsts(s, m), base) * base + s[m + 1]
         /\ Firsts(s, Len(s)) = s
<1>1. PICK v : Rises(s, base, v)
  BY ValueRises
<1>2. ASSUME NEW m \in 0 .. Len(s)
      PROVE  Solver!Value(Firsts(s, m), base) = v[m]
  <2> DEFINE t == Firsts(s, m)
  <2>1. t \in Seq(Int) /\ Len(t) = m /\ \A i_1 \in 1 .. m : t[i_1] = s[i_1]
    BY FirstsAre
  <2> HIDE DEF t
  <2>2. PICK w : Rises(t, base, w) /\ Solver!Value(t, base) = w[m]
    BY <2>1, ValueRises
  <2>3. m \in Nat /\ m <= Len(s) /\ m <= Len(t)
    BY <2>1
  <2>4. w[m] = v[m]
    BY <1>1, <2>1, <2>2, <2>3, RisesAgree
  <2> QED
    BY <2>2, <2>4 DEF t
<1>3. Len(s) \in Nat /\ Firsts(s, Len(s)) = s
  BY FirstsAre
<1>4. ASSUME NEW m \in 0 .. Len(s) - 1
      PROVE  Solver!Value(Firsts(s, m + 1), base) = Solver!Value(Firsts(s, m), base) * base + s[m + 1]
  <2>1. m \in 0 .. Len(s) /\ m + 1 \in 0 .. Len(s) /\ m + 1 \in 1 .. Len(s) /\ m + 1 - 1 = m
    BY <1>3
  <2>2. v[m + 1] = v[m] * base + s[m + 1]
    BY <1>1, <2>1 DEF Rises
  <2>3. Solver!Value(Firsts(s, m + 1), base) = v[m + 1] /\ Solver!Value(Firsts(s, m), base) = v[m]
    BY <1>2, <2>1
  <2> QED
    BY <2>2, <2>3
<1>5. ASSUME NEW m \in 0 .. Len(s) PROVE Solver!Value(Firsts(s, m), base) \in Int
  BY <1>1, <1>2 DEF Rises
<1>6. Solver!Value(Firsts(s, 0), base) = 0
  BY <1>1, <1>2, <1>3 DEF Rises
<1> QED
  BY <1>3, <1>4, <1>5, <1>6

\* The digits of a number from the top: the value of the first m of them
High(s, m) == Solver!Value(Firsts(Solver!Reverse(s), m), 58)

\* A sequence from its other end.
LEMMA ReverseMeans ==
  ASSUME NEW D, NEW s \in Seq(D)
  PROVE  /\ Solver!Reverse(s) \in Seq(D) /\ Len(Solver!Reverse(s)) = Len(s)
         /\ \A m \in 1 .. Len(s) : Solver!Reverse(s)[m] = s[Len(s) + 1 - m]
<1>1. \A m \in 1 .. Len(s) : (Len(s) - m) + 1 = Len(s) + 1 - m /\ Len(s) + 1 - m \in 1 .. Len(s)
  OBVIOUS
<1> QED
  BY <1>1 DEF Solver!Reverse

\* The value from the top grows by the next digit below.
LEMMA HighGrows ==
  ASSUME NEW s \in Seq(Int)
  PROVE  /\ \A m \in 0 .. Len(s) : High(s, m) \in Int
         /\ High(s, 0) = 0
         /\ \A m \in 0 .. Len(s) - 1 : High(s, m + 1) = High(s, m) * 58 + s[Len(s) - m]
         /\ Solver!Value(Solver!Reverse(s), 58) = High(s, Len(s))
<1> DEFINE t == Solver!Reverse(s)
<1>1. t \in Seq(Int) /\ Len(t) = Len(s) /\ \A m \in 1 .. Len(s) : t[m] = s[Len(s) + 1 - m]
  BY ReverseMeans
<1> HIDE DEF t
<1>2. /\ \A m \in 0 .. Len(t) : Solver!Value(Firsts(t, m), 58) \in Int
      /\ Solver!Value(Firsts(t, 0), 58) = 0
      /\ \A m \in 0 .. Len(t) - 1 :
           Solver!Value(Firsts(t, m + 1), 58) = Solver!Value(Firsts(t, m), 58) * 58 + t[m + 1]
      /\ Firsts(t, Len(t)) = t
  <2>1. 58 \in Int
    OBVIOUS
  <2> QED
    BY <1>1, <2>1, ValueGrows
<1>3. \A m : High(s, m) = Solver!Value(Firsts(t, m), 58)
  BY DEF High, t
<1>4. ASSUME NEW m \in 0 .. Len(s) - 1 PROVE t[m + 1] = s[Len(s) - m]
  <2>1. m + 1 \in 1 .. Len(s) /\ Len(s) + 1 - (m + 1) = Len(s) - m
    OBVIOUS
  <2> QED
    BY <1>1, <2>1
<1> QED
  BY <1>1, <1>2, <1>3, <1>4 DEF t

\* The value of the top digits depends on these alone.
LEMMA HighAgrees ==
  ASSUME NEW s \in Seq(Int), NEW t \in Seq(Int), NEW h \in Nat, h <= Len(s), h <= Len(t),
         \A m \in 0 .. h - 1 : s[Len(s) - m] = t[Len(t) - m]
  PROVE  High(s, h) = High(t, h)
<1> DEFINE S == {m \in Nat : m <= h => High(s, m) = High(t, m)}
<1>1. 0 \in S
  BY HighGrows
<1>2. ASSUME NEW m \in Nat, m \in S PROVE m + 1 \in S
  <2> SUFFICES ASSUME m + 1 <= h PROVE High(s, m + 1) = High(t, m + 1)
    OBVIOUS
  <2>1. m \in 0 .. Len(s) - 1 /\ m \in 0 .. Len(t) - 1 /\ m \in 0 .. h - 1
    OBVIOUS
  <2>2. /\ High(s, m + 1) = High(s, m) * 58 + s[Len(s) - m]
        /\ High(t, m + 1) = High(t, m) * 58 + t[Len(t) - m]
    BY <2>1, HighGrows
  <2> QED
    BY <1>2, <2>1, <2>2
<1>3. h \in S
  <2> HIDE DEF S
  <2> QED
    BY <1>1, <1>2, Induction
<1> QED
  BY <1>3

Digit == 0 .. 57

\* Digits, the lowest first, without a zero on top
Proper(s) == s \in Seq(Digit) /\ (s # <<>> => s[Len(s)] # 0)

\* Digits are numbers below 58.
LEMMA DigitsAreNumbers ==
  ASSUME NEW s \in Seq(Digit)
  PROVE  /\ s \in Seq(Int) /\ Len(s) \in Nat
         /\ \A m \in 1 .. Len(s) : s[m] \in Nat /\ s[m] <= 57
<1> DEFINE n == Len(s)
<1>1. n \in Nat /\ s \in [1 .. n -> Digit]
  BY LenProperties
<1> HIDE DEF n
<1>2. \A m \in 1 .. n : s[m] \in Nat /\ s[m] <= 57
  <2>1. \A d \in Digit : d \in Nat /\ d <= 57
    BY DEF Digit
  <2> QED
    BY <1>1, <2>1, Zenon
<1>3. s \in [1 .. n -> Int]
  <2>1. \A m \in 1 .. n : s[m] \in Int
    BY <1>2
  <2>2. DOMAIN s = 1 .. n /\ s = [m \in DOMAIN s |-> s[m]]
    BY <1>1
  <2> QED
    BY <2>1, <2>2
<1>4. s \in Seq(Int)
  BY <1>1, <1>3
<1> QED
  BY <1>1, <1>2, <1>4 DEF n

\* A new lowest digit
LEMMA DigitBelow ==
  ASSUME NEW d \in Digit, NEW s, Proper(s), d # 0 \/ s # <<>>
  PROVE  LET t == <<d>> \o s
         IN  /\ Proper(t) /\ t # <<>>
             /\ Solver!Value(Solver!Reverse(t), 58) = Solver!Value(Solver!Reverse(s), 58) * 58 + d
<1> DEFINE t == <<d>> \o s
           n == Len(s)
<1>1. s \in Seq(Digit) /\ s \in Seq(Int) /\ n \in Nat
  BY DigitsAreNumbers DEF Proper
<1>2. /\ t \in Seq(Digit) /\ t \in Seq(Int) /\ Len(t) = n + 1 /\ t[1] = d /\ t # <<>>
      /\ \A m \in 1 .. n : t[m + 1] = s[m]
  BY <1>1 DEF Digit
<1> HIDE DEF t
<1>3. Proper(t)
  <2>1. CASE n = 0
    <3>1. t[Len(t)] = d /\ s = <<>>
      BY <1>1, <1>2, <2>1
    <3> QED
      BY <1>2, <3>1 DEF Proper
  <2>2. CASE n # 0
    <3>1. n \in 1 .. n /\ t[n + 1] = s[n] /\ s # <<>>
      BY <1>1, <1>2, <2>2
    <3> QED
      BY <1>2, <3>1 DEF Proper
  <2> QED
    BY <2>1, <2>2
<1>4. High(t, n) = High(s, n)
  <2>1. ASSUME NEW m \in 0 .. n - 1 PROVE t[Len(t) - m] = s[n - m]
    <3>1. n - m \in 1 .. n /\ Len(t) - m = (n - m) + 1
      BY <1>1, <1>2
    <3> QED
      BY <1>2, <3>1
  <2>2. n <= Len(s) /\ n <= Len(t)
    BY <1>1, <1>2
  <2> QED
    BY <1>1, <1>2, <2>1, <2>2, HighAgrees
<1>5. High(t, n + 1) = High(t, n) * 58 + t[1]
  <2>1. n \in 0 .. Len(t) - 1 /\ Len(t) - n = 1
    BY <1>1, <1>2
  <2>2. High(t, n + 1) = High(t, n) * 58 + t[Len(t) - n]
    BY <1>2, <2>1, HighGrows
  <2> QED
    BY <2>1, <2>2
<1>6. /\ Solver!Value(Solver!Reverse(t), 58) = High(t, n + 1)
      /\ Solver!Value(Solver!Reverse(s), 58) = High(s, n)
  BY <1>1, <1>2, HighGrows
<1>7. Solver!Value(Solver!Reverse(t), 58) = Solver!Value(Solver!Reverse(s), 58) * 58 + d
  BY <1>2, <1>4, <1>5, <1>6
<1> QED
  BY <1>2, <1>3, <1>7 DEF t

\* No digits are worth nothing.
LEMMA NoDigits ==
  Proper(<<>>) /\ Solver!Value(Solver!Reverse(<<>>), 58) = 0
<1>1. <<>> \in Seq(Int) /\ Len(<<>>) = 0 /\ Proper(<<>>)
  BY DEF Proper
<1>2. Solver!Value(Solver!Reverse(<<>>), 58) = High(<<>>, 0) /\ High(<<>>, 0) = 0
  BY <1>1, HighGrows
<1> QED
  BY <1>1, <1>2

\* Division by 58 until nothing is left
Divided(n, g) == [m \in 0 .. n |-> IF m = 0 THEN <<>> ELSE <<m % 58>> \o g[m \div 58]]

\* Dividing by 58 until nothing is left comes to an end.
LEMMA DividedExists ==
  ASSUME NEW n \in Nat
  PROVE  \E g : g = Divided(n, g)
<1> DEFINE D == Seq(Int)
           base == [m \in Nat |-> <<>>]
           half == [m \in Nat |-> m \div 58]
           step == [m \in Nat |-> [x \in D |-> <<m % 58>> \o x]]
<1>1. CanHalve(D, {0}, base, half, step)
  <2>1. \A m \in Nat : m \in {0} => base[m] \in D
    OBVIOUS
  <2>2. \A m \in Nat : m \notin {0} => half[m] \in Nat /\ half[m] < m
    OBVIOUS
  <2>3. \A m \in Nat : m \notin {0} => \A x \in D : step[m][x] \in D
    OBVIOUS
  <2> HIDE DEF base, half, step
  <2> QED
    BY <2>1, <2>2, <2>3 DEF CanHalve
<1> HIDE DEF D, base, half, step
<1>2. PICK f : Halved(D, {0}, base, half, step, f)
  BY <1>1, HalvesExist
<1>3. /\ f \in [Nat -> D]
      /\ \A m \in Nat : f[m] = IF m \in {0} THEN base[m] ELSE step[m][f[half[m]]]
  BY <1>2 DEF Halved
<1>4. ASSUME NEW m \in Nat PROVE f[m] = IF m = 0 THEN <<>> ELSE <<m % 58>> \o f[m \div 58]
  <2>1. m \div 58 \in Nat /\ f[m \div 58] \in D
    BY <1>3
  <2>2. f[m] = IF m = 0 THEN base[m] ELSE step[m][f[half[m]]]
    BY <1>3
  <2>3. base[m] = <<>> /\ half[m] = m \div 58
    BY DEF base, half
  <2>4. step[m][f[m \div 58]] = <<m % 58>> \o f[m \div 58]
    BY <2>1 DEF step
  <2> QED
    BY <2>2, <2>3, <2>4
<1> DEFINE g == [m \in 0 .. n |-> f[m]]
<1>5. \A m \in 0 .. n : m \div 58 \in 0 .. n /\ m \in Nat
  OBVIOUS
<1>6. \A m \in 0 .. n : g[m] = IF m = 0 THEN <<>> ELSE <<m % 58>> \o g[m \div 58]
  BY <1>4, <1>5
<1>7. g = [m \in 0 .. n |-> g[m]]
  OBVIOUS
<1> HIDE DEF g
<1>8. g = Divided(n, g)
  BY <1>6, <1>7 DEF Divided
<1> QED
  BY <1>8

\* What is left of a carry becomes digits of its value, without a zero on top.
LEMMA DigitsMean ==
  ASSUME NEW n \in Nat
  PROVE  /\ Proper(Solver!DigitsOf(n))
         /\ Solver!Value(Solver!Reverse(Solver!DigitsOf(n)), 58) = n
         /\ n # 0 => Solver!DigitsOf(n) # <<>>
         /\ n = 0 => Solver!DigitsOf(n) = <<>>
<1> DEFINE g == CHOOSE f : f = Divided(n, f)
<1>1. g = Divided(n, g)
  BY DividedExists
<1>2. Solver!DigitsOf(n) = g[n]
  BY DEF Solver!DigitsOf, Divided
<1> HIDE DEF g
<1>3. \A m \in 0 .. n : g[m] = IF m = 0 THEN <<>> ELSE <<m % 58>> \o g[m \div 58]
  <2>1. \A m \in 0 .. n : g[m] = Divided(n, g)[m]
    BY <1>1
  <2> QED
    BY <2>1 DEF Divided
<1> DEFINE Right(m) ==
             /\ Proper(g[m]) /\ Solver!Value(Solver!Reverse(g[m]), 58) = m
             /\ m # 0 => g[m] # <<>>
           S == {h \in Nat : \A m \in 0 .. h : m <= n => Right(m)}
<1>4. g[0] = <<>> /\ Right(0)
  <2>1. 0 \in 0 .. n
    OBVIOUS
  <2>2. g[0] = <<>>
    BY <1>3, <2>1
  <2> QED
    BY <2>2, NoDigits
<1>5. 0 \in S
  <2>1. \A m \in 0 .. 0 : m = 0
    OBVIOUS
  <2> HIDE DEF Right
  <2> QED
    BY <1>4, <2>1
<1>6. ASSUME NEW h \in Nat, h \in S PROVE h + 1 \in S
  <2> SUFFICES ASSUME h + 1 <= n PROVE Right(h + 1)
    <3>1. \A m \in 0 .. h + 1 : m \in 0 .. h \/ m = h + 1
      OBVIOUS
    <3> HIDE DEF Right
    <3> QED
      BY <1>6, <3>1
  <2> DEFINE m == h + 1
             d == m % 58
             q == m \div 58
  <2>1. m = 58 * q + d /\ d \in Digit /\ q \in 0 .. h /\ q <= n /\ m \in 0 .. n /\ m # 0
    BY DEF Digit
  <2>2. Right(q)
    <3> HIDE DEF Right, q
    <3> QED
      BY <1>6, <2>1
  <2>3. g[m] = <<d>> \o g[q]
    BY <1>3, <2>1
  <2> HIDE DEF m, d, q
  <2>4. d # 0 \/ g[q] # <<>>
    BY <2>1, <2>2
  <2>5. /\ Proper(g[m]) /\ g[m] # <<>>
        /\ Solver!Value(Solver!Reverse(g[m]), 58) = Solver!Value(Solver!Reverse(g[q]), 58) * 58 + d
    BY <2>1, <2>2, <2>3, <2>4, DigitBelow
  <2>6. Solver!Value(Solver!Reverse(g[m]), 58) = m
    BY <2>1, <2>2, <2>5
  <2> QED
    BY <2>5, <2>6 DEF m
<1>7. n \in S
  <2> HIDE DEF S
  <2> QED
    BY <1>5, <1>6, Induction
<1>8. Right(n)
  <2> HIDE DEF Right
  <2> QED
    BY <1>7
<1> QED
  BY <1>2, <1>4, <1>8

-----------------------------------------------------------------------------
(***************************************************************************)
(* One byte more.                                                          *)
(***************************************************************************)
\* One sequence after another
LEMMA SeqsJoined ==
  ASSUME NEW D, NEW s \in Seq(D), NEW t \in Seq(D)
  PROVE  /\ s \o t \in Seq(D) /\ Len(s \o t) = Len(s) + Len(t)
         /\ \A m \in 1 .. Len(s) : (s \o t)[m] = s[m]
         /\ \A m \in 1 .. Len(t) : (s \o t)[Len(s) + m] = t[m]
<1>1. /\ s \o t \in Seq(D) /\ Len(s \o t) = Len(s) + Len(t)
      /\ \A m \in 1 .. Len(s) + Len(t) :
           (s \o t)[m] = IF m <= Len(s) THEN s[m] ELSE t[m - Len(s)]
  BY ConcatProperties
<1>2. Len(s) \in Nat /\ Len(t) \in Nat
  OBVIOUS
<1>3. \A m \in 1 .. Len(s) : m \in 1 .. Len(s) + Len(t) /\ m <= Len(s)
  BY <1>2
<1>4. \A m \in 1 .. Len(t) : /\ Len(s) + m \in 1 .. Len(s) + Len(t)
                             /\ ~(Len(s) + m <= Len(s)) /\ (Len(s) + m) - Len(s) = m
  BY <1>2
<1>5. ASSUME NEW m \in 1 .. Len(s) PROVE (s \o t)[m] = s[m]
  BY <1>1, <1>3, Zenon
<1>6. ASSUME NEW m \in 1 .. Len(t) PROVE (s \o t)[Len(s) + m] = t[m]
  BY <1>1, <1>4, Zenon
<1> QED
  BY <1>1, <1>5, <1>6, Zenon

\* What is carried into each digit
Carried(s, byte, g) ==
  [m \in 1 .. Len(s) + 1 |-> IF m = 1 THEN byte ELSE (g[m - 1] + 256 * s[m - 1]) \div 58]

\* The carries out of the places follow from the byte, place by place.
LEMMA CarriedExists ==
  ASSUME NEW s \in Seq(Digit), NEW byte \in 0 .. 255
  PROVE  \E g : g = Carried(s, byte, g)
<1> DEFINE n == Len(s)
           at == [m \in Nat |-> IF m \in 1 .. n THEN s[m] ELSE 0]
           base == [m \in Nat |-> byte]
           half == [m \in Nat |-> m - 1]
           step == [m \in Nat |-> [x \in Nat |-> (x + 256 * at[m]) \div 58]]
<1>1. n \in Nat /\ \A m \in 1 .. n : s[m] \in Nat
  BY DigitsAreNumbers
<1> HIDE DEF n
<1>2. \A m \in Nat : at[m] \in Nat /\ (m \in 1 .. n => at[m] = s[m])
  <2>1. \A m \in Nat : at[m] = IF m \in 1 .. n THEN s[m] ELSE 0
    OBVIOUS
  <2> HIDE DEF at
  <2> QED
    BY <1>1, <2>1
<1> HIDE DEF at
<1>3. CanHalve(Nat, {0}, base, half, step)
  <2>1. \A m \in Nat : m \in {0} => base[m] \in Nat
    OBVIOUS
  <2>2. \A m \in Nat : m \notin {0} => half[m] \in Nat /\ half[m] < m
    OBVIOUS
  <2>3. \A m \in Nat : m \notin {0} => \A x \in Nat : step[m][x] \in Nat
    <3> SUFFICES ASSUME NEW m \in Nat, NEW x \in Nat PROVE (x + 256 * at[m]) \div 58 \in Nat
      OBVIOUS
    <3> QED
      BY <1>2
  <2> HIDE DEF base, half, step
  <2> QED
    BY <2>1, <2>2, <2>3 DEF CanHalve
<1> HIDE DEF base, half, step
<1>4. PICK f : Halved(Nat, {0}, base, half, step, f)
  BY <1>3, HalvesExist
<1>5. /\ f \in [Nat -> Nat]
      /\ \A m \in Nat : f[m] = IF m \in {0} THEN base[m] ELSE step[m][f[half[m]]]
  BY <1>4 DEF Halved
<1>6. f[0] = byte
  BY <1>5 DEF base
<1>7. ASSUME NEW m \in 1 .. n PROVE f[m] = (f[m - 1] + 256 * s[m]) \div 58
  <2>1. m \in Nat /\ m - 1 \in Nat /\ m # 0
    BY <1>1
  <2>0. f[m - 1] \in Nat
    BY <1>5, <2>1
  <2>2. f[m] = step[m][f[half[m]]] /\ half[m] = m - 1
    BY <1>5, <2>1 DEF half
  <2>3. step[m][f[m - 1]] = (f[m - 1] + 256 * at[m]) \div 58
    BY <2>0, <2>1 DEF step
  <2> QED
    BY <1>2, <2>1, <2>2, <2>3
<1> DEFINE g == [m \in 1 .. n + 1 |-> f[m - 1]]
<1>8. ASSUME NEW m \in 1 .. n + 1
      PROVE  g[m] = IF m = 1 THEN byte ELSE (g[m - 1] + 256 * s[m - 1]) \div 58
  <2>1. CASE m = 1
    BY <1>6, <2>1
  <2>2. CASE m # 1
    <3>1. m - 1 \in 1 .. n /\ m - 1 \in 1 .. n + 1
      BY <1>1, <2>2
    <3>2. g[m] = f[m - 1] /\ g[m - 1] = f[m - 1 - 1]
      BY <3>1
    <3>3. f[m - 1] = (f[m - 1 - 1] + 256 * s[m - 1]) \div 58
      BY <1>7, <3>1
    <3> QED
      BY <2>2, <3>2, <3>3
  <2> QED
    BY <2>1, <2>2
<1>9. g = [m \in 1 .. n + 1 |-> g[m]]
  OBVIOUS
<1> HIDE DEF g
<1>10. g = Carried(s, byte, g)
  BY <1>8, <1>9 DEF Carried, n
<1> QED
  BY <1>10

\* One place of it
LEMMA PlaceAdded ==
  ASSUME NEW y \in Nat, NEW d \in Nat, NEW h \in Int, NEW q, NEW r,
         q = (y + 256 * d) \div 58, r = (y + 256 * d) % 58
  PROVE  /\ q \in Nat /\ r \in 0 .. 57 /\ (d # 0 => q # 0)
         /\ (q + 256 * h) * 58 + r = y + 256 * (h * 58 + d)
<1> DEFINE x == y + 256 * d
<1>1. x \in Nat /\ (d # 0 => x >= 256)
  OBVIOUS
<1> HIDE DEF x
<1>2. q = x \div 58 /\ r = x % 58
  BY DEF x
<1>3. q \in Nat /\ r \in 0 .. 57 /\ x = 58 * q + r
  BY <1>1, <1>2
<1>4. d # 0 => q # 0
  BY <1>1, <1>3
<1>5. (q + 256 * h) * 58 + r = x + 14848 * h
  BY <1>1, <1>3
<1>6. x + 14848 * h = y + 256 * (h * 58 + d)
  BY DEF x
<1> QED
  BY <1>3, <1>4, <1>5, <1>6

\* Long multiplication: what is carried out of the digits below, with them,
\* is the byte and 256 times these.
LEMMA ByteAdded ==
  ASSUME NEW s \in Seq(Digit), s # <<>>, Len(s) > 1 => s[Len(s)] # 0, NEW byte \in 0 .. 255
  PROVE  LET t == Solver!AddByte(s, byte)
         IN  /\ t \in Seq(Digit) /\ t # <<>> /\ (Len(t) > 1 => t[Len(t)] # 0)
             /\ Solver!Value(Solver!Reverse(t), 58)
                  = Solver!Value(Solver!Reverse(s), 58) * 256 + byte
<1> DEFINE n == Len(s)
           g == CHOOSE f : f = Carried(s, byte, f)
           kept == [m \in 1 .. n |-> (g[m] + 256 * s[m]) % 58]
           more == Solver!DigitsOf(g[n + 1])
           e == Len(more)
           t == kept \o more
<1>1. g = Carried(s, byte, g)
  BY CarriedExists
<1>2. Solver!AddByte(s, byte) = t
  BY DEF Solver!AddByte, Carried
<1> HIDE DEF g
<1>3. n \in Nat /\ n >= 1 /\ s \in Seq(Int) /\ \A m \in 1 .. n : s[m] \in Nat
  <2>1. n # 0
    OBVIOUS
  <2> QED
    BY <2>1, DigitsAreNumbers
<1>4. g[1] = byte /\ \A m \in 1 .. n : g[m + 1] = (g[m] + 256 * s[m]) \div 58
  <2>1. \A m \in 1 .. n + 1 :
          g[m] = IF m = 1 THEN byte ELSE (g[m - 1] + 256 * s[m - 1]) \div 58
    <3>1. \A m \in 1 .. n + 1 : g[m] = Carried(s, byte, g)[m]
      BY <1>1
    <3> QED
      BY <3>1 DEF Carried
  <2>2. 1 \in 1 .. n + 1 /\ \A m \in 1 .. n : m + 1 \in 1 .. n + 1 /\ m + 1 # 1 /\ m + 1 - 1 = m
    BY <1>3
  <2> HIDE DEF n
  <2> QED
    BY <2>1, <2>2
<1> HIDE DEF n
<1>5. \A m \in 1 .. n + 1 : g[m] \in Nat
  <2> DEFINE S == {m \in Nat : m <= n => g[m + 1] \in Nat}
  <2>1. 0 \in S
    BY <1>4
  <2>2. ASSUME NEW m \in Nat, m \in S PROVE m + 1 \in S
    <3> SUFFICES ASSUME m + 1 <= n PROVE g[m + 1 + 1] \in Nat
      OBVIOUS
    <3>1. m + 1 \in 1 .. n /\ g[m + 1] \in Nat
      BY <1>3, <2>2
    <3>2. g[m + 1 + 1] = (g[m + 1] + 256 * s[m + 1]) \div 58
      BY <1>4, <3>1
    <3>3. s[m + 1] \in Nat
      BY <1>3, <3>1
    <3> DEFINE y == g[m + 1]
               d == s[m + 1]
    <3>4. y \in Nat /\ d \in Nat
      BY <3>1, <3>3
    <3> HIDE DEF y, d
    <3>5. (y + 256 * d) \div 58 \in Nat
      BY <3>4
    <3> QED
      BY <3>2, <3>5 DEF y, d
  <2>3. \A m \in Nat : m \in S
    <3> HIDE DEF S
    <3> QED
      BY <2>1, <2>2, Induction
  <2>4. ASSUME NEW m \in 1 .. n + 1 PROVE g[m] \in Nat
    <3>1. m - 1 \in Nat /\ m - 1 <= n /\ m - 1 + 1 = m
      BY <1>3
    <3> QED
      BY <2>3, <3>1
  <2> QED
    BY <2>4
<1>6. n + 1 \in 1 .. n + 1 /\ n \in 1 .. n
  BY <1>3
<1>7. /\ Proper(more) /\ Solver!Value(Solver!Reverse(more), 58) = g[n + 1]
      /\ g[n + 1] # 0 => more # <<>>
      /\ g[n + 1] = 0 => more = <<>>
  BY <1>5, <1>6, DigitsMean
<1> HIDE DEF more
<1>8. more \in Seq(Digit) /\ more \in Seq(Int) /\ e \in Nat
  BY <1>7, DigitsAreNumbers DEF Proper
<1>9. kept \in Seq(Digit) /\ Len(kept) = n /\ \A m \in 1 .. n : kept[m] = (g[m] + 256 * s[m]) % 58
  <2>1. \A m \in 1 .. n : (g[m] + 256 * s[m]) % 58 \in Digit
    <3> SUFFICES ASSUME NEW m \in 1 .. n PROVE (g[m] + 256 * s[m]) % 58 \in 0 .. 57
      BY DEF Digit
    <3>1. m \in 1 .. n + 1
      BY <1>3
    <3>2. g[m] \in Nat /\ s[m] \in Nat
      BY <1>3, <1>5, <3>1
    <3> DEFINE x == g[m] + 256 * s[m]
    <3>3. x \in Nat
      BY <3>2
    <3> HIDE DEF x
    <3>4. x % 58 \in 0 .. 57
      BY <3>3
    <3> QED
      BY <3>4 DEF x
  <2>2. kept \in [1 .. n -> Digit]
    BY <2>1
  <2> QED
    BY <1>3, <2>2
<1> HIDE DEF kept
<1>10. /\ t \in Seq(Digit) /\ Len(t) = n + e /\ t # <<>>
       /\ \A m \in 1 .. n : t[m] = kept[m]
       /\ \A m \in 1 .. e : t[n + m] = more[m]
  <2>1. /\ t \in Seq(Digit) /\ Len(t) = Len(kept) + Len(more)
        /\ \A m \in 1 .. Len(kept) : t[m] = kept[m]
        /\ \A m \in 1 .. Len(more) : t[Len(kept) + m] = more[m]
    <3>1. kept \in Seq(Digit) /\ more \in Seq(Digit)
      BY <1>8, <1>9
    <3> HIDE DEF e, t
    <3>2. LET u == kept \o more
          IN  /\ u \in Seq(Digit) /\ Len(u) = Len(kept) + Len(more)
              /\ \A m \in 1 .. Len(kept) : u[m] = kept[m]
              /\ \A m \in 1 .. Len(more) : u[Len(kept) + m] = more[m]
      BY <3>1, SeqsJoined
    <3> QED
      BY <3>2 DEF t
  <2> HIDE DEF t
  <2>2. t # <<>>
    <3>1. Len(t) # 0
      BY <1>3, <1>8, <1>9, <2>1
    <3> QED
      BY <3>1
  <2> QED
    BY <1>9, <2>1, <2>2
<1> HIDE DEF t
<1>11. Len(t) > 1 => t[Len(t)] # 0
  <2>1. CASE more # <<>>
    <3>1. e \in 1 .. e /\ more[e] # 0
      BY <1>7, <1>8, <2>1 DEF Proper
    <3> QED
      BY <1>10, <3>1
  <2>2. CASE more = <<>>
    <3>1. e = 0
      BY <2>2
    <3> SUFFICES ASSUME n > 1 PROVE FALSE
      BY <1>3, <1>10, <3>1
    <3>2. g[n + 1] = 0 /\ g[n + 1] = (g[n] + 256 * s[n]) \div 58
      BY <1>4, <1>6, <1>7, <2>2
    <3>3. g[n] \in Nat /\ s[n] \in Nat /\ s[n] # 0
      <4>1. n \in 1 .. n + 1
        BY <1>3
      <4> QED
        BY <1>3, <1>5, <1>6, <4>1 DEF n
    <3> DEFINE y == g[n]
               d == s[n]
    <3>4. y \in Nat /\ d \in Nat /\ d # 0 /\ (y + 256 * d) \div 58 = 0
      BY <3>2, <3>3
    <3> HIDE DEF y, d
    <3> QED
      BY <3>4
  <2> QED
    BY <2>1, <2>2
<1>12. t \in Seq(Int)
  BY <1>10, DigitsAreNumbers
<1> DEFINE S == {m \in Nat : m <= n => High(t, e + m) = g[n + 1 - m] + 256 * High(s, m)}
<1>13. 0 \in S
  <2>1. High(t, e) = High(more, e)
    <3>1. ASSUME NEW m \in 0 .. e - 1 PROVE t[Len(t) - m] = more[Len(more) - m]
      <4>1. e - m \in 1 .. e /\ Len(t) - m = n + (e - m) /\ Len(more) - m = e - m
        BY <1>3, <1>8, <1>10
      <4> QED
        BY <1>10, <4>1
    <3>2. e <= Len(t) /\ e <= Len(more)
      BY <1>3, <1>8, <1>10
    <3> HIDE DEF e
    <3> QED
      BY <1>8, <1>12, <3>1, <3>2, HighAgrees
  <2>2. High(more, e) = g[n + 1]
    BY <1>7, <1>8, HighGrows
  <2>3. High(s, 0) = 0
    BY <1>3, HighGrows
  <2>4. e + 0 = e /\ n + 1 - 0 = n + 1 /\ g[n + 1] \in Nat
    BY <1>3, <1>5, <1>6, <1>8
  <2> HIDE DEF e
  <2> QED
    BY <2>1, <2>2, <2>3, <2>4
<1>14. ASSUME NEW m \in Nat, m \in S PROVE m + 1 \in S
  <2> SUFFICES ASSUME m + 1 <= n
               PROVE  High(t, e + (m + 1)) = g[n + 1 - (m + 1)] + 256 * High(s, m + 1)
    OBVIOUS
  <2> DEFINE p == n - m
  <2>1. /\ p \in 1 .. n /\ n + 1 - m = p + 1 /\ n + 1 - (m + 1) = p /\ e + (m + 1) = e + m + 1
        /\ e + m \in 0 .. Len(t) - 1 /\ Len(t) - (e + m) = p
        /\ m \in 0 .. Len(s) - 1 /\ Len(s) - m = p
    BY <1>3, <1>8, <1>10 DEF n
  <2>2. High(t, e + m) = g[p + 1] + 256 * High(s, m)
    <3>1. High(t, e + m) = g[n + 1 - m] + 256 * High(s, m)
      <4>1. m <= n
        BY <1>3
      <4> QED
        BY <1>14, <4>1
    <3> HIDE DEF p
    <3> QED
      BY <2>1, <3>1
  <2>3. High(t, e + m + 1) = High(t, e + m) * 58 + t[p]
    BY <1>12, <2>1, HighGrows
  <2>4. High(s, m + 1) = High(s, m) * 58 + s[p]
    BY <1>3, <2>1, HighGrows
  <2>5. High(s, m) \in Int
    <3>1. m \in 0 .. Len(s)
      BY <2>1
    <3> QED
      BY <1>3, <3>1, HighGrows
  <2>6. t[p] = (g[p] + 256 * s[p]) % 58 /\ g[p + 1] = (g[p] + 256 * s[p]) \div 58
    <3> HIDE DEF p, e
    <3> QED
      BY <1>4, <1>9, <1>10, <2>1
  <2>7. g[p] \in Nat /\ s[p] \in Nat
    <3>1. p \in 1 .. n + 1
      BY <1>3, <2>1
    <3> QED
      BY <1>3, <1>5, <2>1, <3>1
  <2>8. (g[p + 1] + 256 * High(s, m)) * 58 + t[p] = g[p] + 256 * (High(s, m) * 58 + s[p])
    <3> DEFINE y == g[p]
               d == s[p]
               q == g[p + 1]
               r == t[p]
               h == High(s, m)
    <3>1. /\ y \in Nat /\ d \in Nat /\ h \in Int
          /\ q = (y + 256 * d) \div 58 /\ r = (y + 256 * d) % 58
      BY <2>5, <2>6, <2>7
    <3> HIDE DEF y, d, q, r, h
    <3>2. (q + 256 * h) * 58 + r = y + 256 * (h * 58 + d)
      BY <3>1, PlaceAdded
    <3> QED
      BY <3>2 DEF y, d, q, r, h
  <2> HIDE DEF p
  <2> QED
    BY <2>1, <2>2, <2>3, <2>4, <2>8
<1>15. n \in S
  <2> HIDE DEF S
  <2> QED
    BY <1>3, <1>13, <1>14, Induction
<1>16. High(t, Len(t)) = byte + 256 * High(s, Len(s))
  <2>1. e + n = Len(t) /\ n + 1 - n = 1
    BY <1>3, <1>8, <1>10
  <2> QED
    <3>1. High(t, e + n) = g[n + 1 - n] + 256 * High(s, n)
      BY <1>3, <1>15
    <3> QED
      BY <1>4, <2>1, <3>1 DEF n
<1>17. /\ Solver!Value(Solver!Reverse(t), 58) = High(t, Len(t))
       /\ Solver!Value(Solver!Reverse(s), 58) = High(s, Len(s))
       /\ High(s, Len(s)) \in Int
  <2>1. Len(s) \in 0 .. Len(s)
    BY <1>3
  <2> QED
    BY <1>3, <1>12, <2>1, HighGrows
<1> QED
  BY <1>2, <1>10, <1>11, <1>16, <1>17

-----------------------------------------------------------------------------
(***************************************************************************)
(* How many digits some bytes need.                                        *)
(***************************************************************************)
\* The powers of a base
PowersOf(base, f) ==
  /\ f \in [Nat -> Nat]
  /\ f[0] = 1
  /\ \A n \in Nat : f[n + 1] = base * f[n]

\* A base has its powers.
LEMMA PowersExist ==
  ASSUME NEW base \in Nat
  PROVE  \E f : PowersOf(base, f)
<1> DEFINE first == [n \in Nat |-> 1]
           half == [n \in Nat |-> n - 1]
           step == [n \in Nat |-> [x \in Nat |-> base * x]]
<1>1. CanHalve(Nat, {0}, first, half, step)
  <2>1. \A n \in Nat : n \in {0} => first[n] \in Nat
    OBVIOUS
  <2>2. \A n \in Nat : n \notin {0} => half[n] \in Nat /\ half[n] < n
    OBVIOUS
  <2>3. \A n \in Nat : n \notin {0} => \A x \in Nat : step[n][x] \in Nat
    OBVIOUS
  <2> HIDE DEF first, half, step
  <2> QED
    BY <2>1, <2>2, <2>3 DEF CanHalve
<1> HIDE DEF first, half, step
<1>2. PICK f : Halved(Nat, {0}, first, half, step, f)
  BY <1>1, HalvesExist
<1>3. /\ f \in [Nat -> Nat]
      /\ \A n \in Nat : f[n] = IF n \in {0} THEN first[n] ELSE step[n][f[half[n]]]
  BY <1>2 DEF Halved
<1>4. f[0] = 1
  BY <1>3 DEF first
<1>5. ASSUME NEW n \in Nat PROVE f[n + 1] = base * f[n]
  <2>1. n + 1 \in Nat /\ n + 1 # 0 /\ f[n] \in Nat
    BY <1>3
  <2>2. f[n + 1] = step[n + 1][f[half[n + 1]]] /\ half[n + 1] = n
    BY <1>3, <2>1 DEF half
  <2>3. step[n + 1][f[n]] = base * f[n]
    BY <2>1 DEF step
  <2> QED
    BY <2>2, <2>3
<1> QED
  BY <1>3, <1>4, <1>5 DEF PowersOf

\* Powers do not get smaller.
LEMMA PowersRise ==
  ASSUME NEW base \in Nat \ {0}, NEW f, PowersOf(base, f), NEW m \in Nat, NEW n \in Nat, m <= n
  PROVE  1 <= f[m] /\ f[m] <= f[n]
<1>1. \A h \in Nat : f[h] \in Nat /\ f[h + 1] = base * f[h]
  BY DEF PowersOf
<1>2. ASSUME NEW x \in Nat PROVE x <= base * x
  OBVIOUS
<1>3. ASSUME NEW h \in Nat PROVE f[h + 1] \in Nat /\ f[h] <= f[h + 1]
  <2>1. h + 1 \in Nat
    OBVIOUS
  <2>2. f[h] \in Nat /\ f[h + 1] \in Nat /\ f[h + 1] = base * f[h]
    BY <1>1, <2>1
  <2> QED
    BY <1>2, <2>2
<1> DEFINE S == {h \in Nat : 1 <= f[h]}
           T == {h \in Nat : f[m] <= f[m + h]}
<1>4. m \in S
  <2>1. 0 \in S
    BY DEF PowersOf
  <2>2. ASSUME NEW h \in Nat, h \in S PROVE h + 1 \in S
    BY <1>1, <1>3, <2>2
  <2> HIDE DEF S
  <2> QED
    BY <2>1, <2>2, Induction
<1>5. n - m \in T
  <2>1. 0 \in T
    BY <1>1
  <2>2. ASSUME NEW h \in Nat, h \in T PROVE h + 1 \in T
    <3>1. f[m] <= f[m + h] /\ m + h \in Nat /\ (m + h) + 1 = m + (h + 1)
      BY <2>2
    <3>2. f[m + h] <= f[(m + h) + 1] /\ f[(m + h) + 1] \in Nat /\ f[m + h] \in Nat /\ f[m] \in Nat
      BY <1>1, <1>3, <3>1
    <3>3. f[m] <= f[m + (h + 1)]
      BY <3>1, <3>2
    <3> QED
      BY <3>3
  <2>3. n - m \in Nat
    OBVIOUS
  <2> HIDE DEF T
  <2> QED
    BY <2>1, <2>2, <2>3, Induction
<1>6. m + (n - m) = n
  OBVIOUS
<1> QED
  BY <1>4, <1>5, <1>6

\* The digits that x bytes take, x < 8: eleven for every eight of them
DigitsFor(x) == (11 * x + 7) \div 8

\* Eleven digits hold eight bytes.
LEMMA ElevenHoldEight ==
  ASSUME NEW f, PowersOf(256, f), NEW g, PowersOf(58, g), NEW m \in Nat, NEW n \in Nat,
         f[m] <= g[n]
  PROVE  f[m + 8] <= g[n + 11]
<1>1. ASSUME NEW h \in Nat PROVE f[h] \in Nat /\ f[h + 1] = 256 * f[h]
  BY DEF PowersOf
<1>2. ASSUME NEW h \in Nat PROVE g[h] \in Nat /\ g[h + 1] = 58 * g[h]
  BY DEF PowersOf
<1>3. ASSUME NEW h \in Nat PROVE f[h + 4] = 4294967296 * f[h] /\ f[h + 4] \in Nat
  <2>1. h + 1 \in Nat /\ h + 2 = h + 1 + 1 /\ h + 2 \in Nat /\ h + 3 = h + 2 + 1 /\ h + 3 \in Nat
        /\ h + 4 = h + 3 + 1 /\ h + 4 \in Nat
    OBVIOUS
  <2>2. f[h] \in Nat /\ f[h + 1] = 256 * f[h] /\ f[h + 2] = 256 * f[h + 1]
        /\ f[h + 3] = 256 * f[h + 2] /\ f[h + 4] = 256 * f[h + 3]
    BY <1>1, <2>1
  <2> QED
    BY <2>2
<1>4. ASSUME NEW h \in Nat PROVE g[h + 3] = 195112 * g[h] /\ g[h + 3] \in Nat
  <2>1. h + 1 \in Nat /\ h + 2 = h + 1 + 1 /\ h + 2 \in Nat /\ h + 3 = h + 2 + 1
    OBVIOUS
  <2>2. g[h] \in Nat /\ g[h + 1] = 58 * g[h] /\ g[h + 2] = 58 * g[h + 1]
        /\ g[h + 3] = 58 * g[h + 2]
    BY <1>2, <2>1
  <2> QED
    BY <2>2
<1>5. f[m + 4] = 4294967296 * f[m] /\ f[m + 8] = 4294967296 * f[m + 4] /\ f[m] \in Nat
  <2>1. m + 4 \in Nat /\ m + 8 = m + 4 + 4
    OBVIOUS
  <2> QED
    BY <1>1, <1>3, <2>1
<1>6. /\ g[n] \in Nat /\ g[n + 3] = 195112 * g[n] /\ g[n + 6] = 195112 * g[n + 3]
      /\ g[n + 9] = 195112 * g[n + 6] /\ g[n + 10] = 58 * g[n + 9] /\ g[n + 11] = 58 * g[n + 10]
  <2>1. n + 3 \in Nat /\ n + 6 = n + 3 + 3 /\ n + 6 \in Nat /\ n + 9 = n + 6 + 3 /\ n + 9 \in Nat
        /\ n + 10 = n + 9 + 1 /\ n + 10 \in Nat /\ n + 11 = n + 10 + 1
    OBVIOUS
  <2> QED
    BY <1>2, <1>4, <2>1
<1> DEFINE x == f[m]
           y == g[n]
<1>7. x \in Nat /\ y \in Nat /\ x <= y
  BY <1>5, <1>6
<1>8. f[m + 8] = 4294967296 * (4294967296 * x)
  BY <1>5
<1>9. g[n + 11] = 58 * (58 * (195112 * (195112 * (195112 * y))))
  BY <1>6
<1> HIDE DEF x, y
<1>10. 4294967296 * (4294967296 * x) <= 58 * (58 * (195112 * (195112 * (195112 * y))))
  BY <1>7
<1> QED
  BY <1>8, <1>9, <1>10

\* Up to seven bytes fit the digits DigitsFor allows them.
LEMMA FewBytesFit ==
  ASSUME NEW f, PowersOf(256, f), NEW g, PowersOf(58, g), NEW x \in 0 .. 7
  PROVE  f[x] <= g[DigitsFor(x)]
<1>1. f[0] = 1 /\ \A h \in Nat : f[h] \in Nat /\ f[h + 1] = 256 * f[h]
  BY DEF PowersOf
<1>2. g[0] = 1 /\ \A h \in Nat : g[h] \in Nat /\ g[h + 1] = 58 * g[h]
  BY DEF PowersOf
<1>3. /\ f[1] = 256 * f[0] /\ f[2] = 256 * f[1] /\ f[3] = 256 * f[2] /\ f[4] = 256 * f[3]
      /\ f[5] = 256 * f[4] /\ f[6] = 256 * f[5] /\ f[7] = 256 * f[6]
  <2>1. f[0 + 1] = 256 * f[0] /\ f[1 + 1] = 256 * f[1] /\ f[2 + 1] = 256 * f[2]
        /\ f[3 + 1] = 256 * f[3] /\ f[4 + 1] = 256 * f[4] /\ f[5 + 1] = 256 * f[5]
        /\ f[6 + 1] = 256 * f[6]
    BY <1>1
  <2> QED
    BY <2>1
<1>4. /\ g[1] = 58 * g[0] /\ g[2] = 58 * g[1] /\ g[3] = 58 * g[2] /\ g[4] = 58 * g[3]
      /\ g[5] = 58 * g[4] /\ g[6] = 58 * g[5] /\ g[7] = 58 * g[6] /\ g[8] = 58 * g[7]
      /\ g[9] = 58 * g[8] /\ g[10] = 58 * g[9]
  <2>1. g[0 + 1] = 58 * g[0] /\ g[1 + 1] = 58 * g[1] /\ g[2 + 1] = 58 * g[2]
        /\ g[3 + 1] = 58 * g[3] /\ g[4 + 1] = 58 * g[4] /\ g[5 + 1] = 58 * g[5]
        /\ g[6 + 1] = 58 * g[6] /\ g[7 + 1] = 58 * g[7] /\ g[8 + 1] = 58 * g[8]
        /\ g[9 + 1] = 58 * g[9]
    BY <1>2
  <2> QED
    BY <2>1
<1>5. /\ f[0] <= g[0] /\ f[1] <= g[2] /\ f[2] <= g[3] /\ f[3] <= g[5] /\ f[4] <= g[6]
      /\ f[5] <= g[7] /\ f[6] <= g[9] /\ f[7] <= g[10]
  BY <1>1, <1>2, <1>3, <1>4
<1>6. x = 0 \/ x = 1 \/ x = 2 \/ x = 3 \/ x = 4 \/ x = 5 \/ x = 6 \/ x = 7
  OBVIOUS
<1>7. /\ DigitsFor(0) = 0 /\ DigitsFor(1) = 2 /\ DigitsFor(2) = 3 /\ DigitsFor(3) = 5
      /\ DigitsFor(4) = 6 /\ DigitsFor(5) = 7 /\ DigitsFor(6) = 9 /\ DigitsFor(7) = 10
  BY DEF DigitsFor
<1> QED
  BY <1>5, <1>6, <1>7

\* Digits that are 11/8 of the bytes hold them.
LEMMA BytesFit ==
  ASSUME NEW f, PowersOf(256, f), NEW g, PowersOf(58, g), NEW m \in Nat, NEW n \in Nat,
         11 * m <= 8 * n
  PROVE  f[m] <= g[n]
<1> DEFINE S == {t \in Nat : \A x \in 0 .. 7 : f[8 * t + x] <= g[11 * t + DigitsFor(x)]}
<1>1. \A x \in 0 .. 7 : DigitsFor(x) \in Nat
  BY DEF DigitsFor
<1>2. 0 \in S
  <2> SUFFICES ASSUME NEW x \in 0 .. 7 PROVE f[8 * 0 + x] <= g[11 * 0 + DigitsFor(x)]
    OBVIOUS
  <2>1. 8 * 0 + x = x /\ 11 * 0 + DigitsFor(x) = DigitsFor(x)
    BY <1>1
  <2> QED
    BY <2>1, FewBytesFit
<1>3. ASSUME NEW t \in Nat, t \in S PROVE t + 1 \in S
  <2> SUFFICES ASSUME NEW x \in 0 .. 7
               PROVE  f[8 * (t + 1) + x] <= g[11 * (t + 1) + DigitsFor(x)]
    OBVIOUS
  <2> DEFINE p == 8 * t + x
             q == 11 * t + DigitsFor(x)
  <2>1. /\ p \in Nat /\ q \in Nat /\ 8 * (t + 1) + x = p + 8
        /\ 11 * (t + 1) + DigitsFor(x) = q + 11
    BY <1>1
  <2>2. f[p] <= g[q]
    BY <1>3
  <2> HIDE DEF p, q
  <2>3. f[p + 8] <= g[q + 11]
    BY <2>1, <2>2, ElevenHoldEight
  <2> QED
    BY <2>1, <2>3
<1>4. \A t \in Nat : t \in S
  <2> HIDE DEF S
  <2> QED
    BY <1>2, <1>3, Induction
<1> DEFINE t == m \div 8
           x == m % 8
           q == 11 * t + DigitsFor(x)
<1>5. t \in Nat /\ x \in 0 .. 7 /\ m = 8 * t + x
  OBVIOUS
<1>6. f[m] <= g[q]
  <2> HIDE DEF t, x
  <2> QED
    BY <1>4, <1>5
<1>7. q \in Nat /\ q <= n
  <2> HIDE DEF t, x
  <2> QED
    BY <1>5 DEF DigitsFor
<1>8. g[q] <= g[n]
  <2> HIDE DEF q
  <2>1. 58 \in Nat \ {0}
    OBVIOUS
  <2> QED
    BY <1>7, <2>1, PowersRise
<1>9. f[m] \in Nat /\ g[q] \in Nat /\ g[n] \in Nat
  BY <1>7 DEF PowersOf
<1> QED
  BY <1>6, <1>8, <1>9

\* Bytes are numbers below 256.
LEMMA BytesAreNumbers ==
  ASSUME NEW s \in Seq(0 .. 255)
  PROVE  /\ s \in Seq(Int) /\ Len(s) \in Nat
         /\ \A m \in 1 .. Len(s) : s[m] \in Nat /\ s[m] <= 255
<1> DEFINE n == Len(s)
<1>1. n \in Nat /\ s \in [1 .. n -> 0 .. 255]
  BY LenProperties
<1> HIDE DEF n
<1>2. \A m \in 1 .. n : s[m] \in Nat /\ s[m] <= 255
  <2>1. \A d \in 0 .. 255 : d \in Nat /\ d <= 255
    OBVIOUS
  <2> QED
    BY <1>1, <2>1, Zenon
<1>3. s \in [1 .. n -> Int]
  <2>1. \A m \in 1 .. n : s[m] \in Int
    BY <1>2
  <2>2. DOMAIN s = 1 .. n /\ s = [m \in DOMAIN s |-> s[m]]
    BY <1>1
  <2> QED
    BY <2>1, <2>2
<1>4. s \in Seq(Int)
  BY <1>1, <1>3
<1> QED
  BY <1>1, <1>2, <1>4 DEF n

\* The value of some bytes
ByteValue(s, m) == Solver!Value(Firsts(s, m), 256)

\* The value of the bytes grows by the next byte.
LEMMA ByteValueGrows ==
  ASSUME NEW s \in Seq(0 .. 255)
  PROVE  /\ \A m \in 0 .. Len(s) : ByteValue(s, m) \in Nat
         /\ ByteValue(s, 0) = 0
         /\ \A m \in 0 .. Len(s) - 1 : ByteValue(s, m + 1) = ByteValue(s, m) * 256 + s[m + 1]
         /\ Solver!Value(s, 256) = ByteValue(s, Len(s))
<1>1. /\ s \in Seq(Int) /\ Len(s) \in Nat
      /\ \A m \in 1 .. Len(s) : s[m] \in Nat /\ s[m] <= 255
  BY BytesAreNumbers
<1>2. /\ \A m \in 0 .. Len(s) : ByteValue(s, m) \in Int
      /\ ByteValue(s, 0) = 0
      /\ \A m \in 0 .. Len(s) - 1 : ByteValue(s, m + 1) = ByteValue(s, m) * 256 + s[m + 1]
      /\ Firsts(s, Len(s)) = s
  <2>1. 256 \in Int
    OBVIOUS
  <2> QED
    BY <1>1, <2>1, ValueGrows DEF ByteValue
<1> DEFINE S == {m \in Nat : m <= Len(s) => ByteValue(s, m) \in Nat}
<1>3. 0 \in S
  BY <1>2
<1>4. ASSUME NEW m \in Nat, m \in S PROVE m + 1 \in S
  <2> SUFFICES ASSUME m + 1 <= Len(s) PROVE ByteValue(s, m + 1) \in Nat
    OBVIOUS
  <2>1. m \in 0 .. Len(s) - 1 /\ m + 1 \in 1 .. Len(s) /\ ByteValue(s, m) \in Nat
    BY <1>1, <1>4
  <2>2. ByteValue(s, m + 1) = ByteValue(s, m) * 256 + s[m + 1] /\ s[m + 1] \in Nat
    BY <1>1, <1>2, <2>1
  <2> QED
    BY <2>1, <2>2
<1>5. \A m \in Nat : m \in S
  <2> HIDE DEF S
  <2> QED
    BY <1>3, <1>4, Induction
<1>6. \A m \in 0 .. Len(s) : ByteValue(s, m) \in Nat
  BY <1>1, <1>5
<1> QED
  BY <1>2, <1>6 DEF ByteValue

\* Bytes have less than the value of one digit more.
LEMMA ByteValueBelow ==
  ASSUME NEW s \in Seq(0 .. 255), NEW f, PowersOf(256, f)
  PROVE  Solver!Value(s, 256) < f[Len(s)]
<1>1. /\ Len(s) \in Nat
      /\ \A m \in 1 .. Len(s) : s[m] \in Nat /\ s[m] <= 255
  BY BytesAreNumbers
<1> DEFINE S == {m \in Nat : m <= Len(s) => ByteValue(s, m) < f[m]}
<1>2. 0 \in S
  BY ByteValueGrows DEF PowersOf
<1>3. ASSUME NEW m \in Nat, m \in S PROVE m + 1 \in S
  <2> SUFFICES ASSUME m + 1 <= Len(s) PROVE ByteValue(s, m + 1) < f[m + 1]
    OBVIOUS
  <2>1. m \in 0 .. Len(s) - 1 /\ m \in 0 .. Len(s) /\ m + 1 \in 1 .. Len(s)
    BY <1>1
  <2>2. /\ ByteValue(s, m) \in Nat /\ ByteValue(s, m) < f[m]
        /\ ByteValue(s, m + 1) = ByteValue(s, m) * 256 + s[m + 1]
        /\ s[m + 1] \in Nat /\ s[m + 1] <= 255
    BY <1>1, <1>3, <2>1, ByteValueGrows
  <2>3. f[m] \in Nat /\ f[m + 1] = 256 * f[m]
    BY DEF PowersOf
  <2> QED
    BY <2>2, <2>3
<1>4. Len(s) \in S
  <2> HIDE DEF S
  <2> QED
    BY <1>1, <1>2, <1>3, Induction
<1> QED
  BY <1>4, ByteValueGrows

\* A byte that is not zero makes the value so.
LEMMA ByteValueAbove ==
  ASSUME NEW s \in Seq(0 .. 255), \E m \in DOMAIN s : s[m] # 0
  PROVE  Solver!Value(s, 256) # 0
<1>1. /\ Len(s) \in Nat /\ DOMAIN s = 1 .. Len(s)
      /\ \A m \in 1 .. Len(s) : s[m] \in Nat
  BY BytesAreNumbers
<1>2. PICK p \in 1 .. Len(s) : s[p] # 0
  BY <1>1
<1> DEFINE S == {m \in Nat : p + m <= Len(s) => ByteValue(s, p + m) >= 1}
<1>3. 0 \in S
  <2>1. p - 1 \in 0 .. Len(s) - 1 /\ p - 1 \in 0 .. Len(s) /\ p - 1 + 1 = p /\ p + 0 = p
    BY <1>1
  <2>2. ByteValue(s, p) = ByteValue(s, p - 1) * 256 + s[p] /\ ByteValue(s, p - 1) \in Nat
    BY <2>1, ByteValueGrows
  <2>3. s[p] \in Nat /\ s[p] >= 1
    BY <1>1, <1>2
  <2>4. ByteValue(s, p) >= 1
    BY <2>2, <2>3
  <2> QED
    BY <2>1, <2>4
<1>4. ASSUME NEW m \in Nat, m \in S PROVE m + 1 \in S
  <2> SUFFICES ASSUME p + (m + 1) <= Len(s) PROVE ByteValue(s, p + (m + 1)) >= 1
    OBVIOUS
  <2>1. /\ p + m \in 0 .. Len(s) - 1 /\ p + m + 1 \in 1 .. Len(s) /\ p + (m + 1) = p + m + 1
        /\ p + m \in 0 .. Len(s)
    BY <1>1
  <2>2. /\ ByteValue(s, p + m + 1) = ByteValue(s, p + m) * 256 + s[p + m + 1]
        /\ ByteValue(s, p + m) \in Nat
    BY <2>1, ByteValueGrows
  <2>3. ByteValue(s, p + m) >= 1 /\ s[p + m + 1] \in Nat
    BY <1>1, <1>4, <2>1
  <2> QED
    BY <2>1, <2>2, <2>3
<1>5. Len(s) - p \in S
  <2>1. Len(s) - p \in Nat
    BY <1>1
  <2> HIDE DEF S
  <2> QED
    BY <1>3, <1>4, <2>1, Induction
<1>6. ByteValue(s, Len(s)) >= 1
  <2>1. p + (Len(s) - p) = Len(s)
    BY <1>1
  <2> QED
    BY <1>1, <1>5, <2>1
<1> QED
  BY <1>6, ByteValueGrows

\* Digits without a zero on top have at least the value of a one there.
LEMMA HighAbove ==
  ASSUME NEW s \in Seq(Digit), s # <<>>, s[Len(s)] # 0, NEW g, PowersOf(58, g)
  PROVE  Solver!Value(Solver!Reverse(s), 58) >= g[Len(s) - 1]
<1> DEFINE n == Len(s)
<1>1. /\ s \in Seq(Int) /\ n \in Nat /\ n >= 1
      /\ \A m \in 1 .. n : s[m] \in Nat
  <2>1. n # 0
    OBVIOUS
  <2> QED
    BY <2>1, DigitsAreNumbers
<1> HIDE DEF n
<1>2. /\ \A m \in 0 .. n : High(s, m) \in Int
      /\ High(s, 0) = 0
      /\ \A m \in 0 .. n - 1 : High(s, m + 1) = High(s, m) * 58 + s[n - m]
      /\ Solver!Value(Solver!Reverse(s), 58) = High(s, n)
  BY <1>1, HighGrows DEF n
<1> DEFINE S == {m \in Nat : m + 1 <= n => High(s, m + 1) >= g[m]}
<1>3. 0 \in S
  <2>1. 0 \in 0 .. n - 1 /\ n - 0 = n /\ n \in 1 .. n
    BY <1>1
  <2>2. High(s, 0 + 1) = 0 * 58 + s[n]
    BY <1>2, <2>1
  <2>3. s[n] \in Nat /\ s[n] # 0
    BY <1>1, <2>1 DEF n
  <2>4. g[0] = 1
    BY DEF PowersOf
  <2> QED
    BY <2>2, <2>3, <2>4
<1>4. ASSUME NEW m \in Nat, m \in S PROVE m + 1 \in S
  <2> SUFFICES ASSUME m + 1 + 1 <= n PROVE High(s, m + 1 + 1) >= g[m + 1]
    OBVIOUS
  <2>1. m + 1 \in 0 .. n - 1 /\ m + 1 \in 0 .. n /\ n - (m + 1) \in 1 .. n /\ m + 1 <= n
    BY <1>1
  <2>2. High(s, m + 1 + 1) = High(s, m + 1) * 58 + s[n - (m + 1)] /\ High(s, m + 1) \in Int
    BY <1>2, <2>1
  <2>3. High(s, m + 1) >= g[m] /\ s[n - (m + 1)] \in Nat
    BY <1>1, <1>4, <2>1
  <2>4. g[m] \in Nat /\ g[m + 1] = 58 * g[m]
    BY DEF PowersOf
  <2> QED
    BY <2>2, <2>3, <2>4
<1>5. n - 1 \in S
  <2>1. n - 1 \in Nat
    BY <1>1
  <2> HIDE DEF S
  <2> QED
    BY <1>3, <1>4, <2>1, Induction
<1>6. High(s, n) >= g[n - 1]
  <2>1. n - 1 + 1 = n /\ n - 1 + 1 <= n
    BY <1>1
  <2> QED
    BY <1>5, <2>1
<1> QED
  BY <1>2, <1>6 DEF n

\* The buffer of 138/100 of the length and one more has room for the digits.
LEMMA DigitsFitBuffer ==
  ASSUME NEW s \in Seq(Digit), s # <<>>, Len(s) > 1 => s[Len(s)] # 0,
         NEW bytes \in Seq(0 .. 255),
         Solver!Value(Solver!Reverse(s), 58) = Solver!Value(bytes, 256),
         NEW n \in Nat, Len(bytes) <= n
  PROVE  Len(s) <= (n * 138) \div 100 + 1
<1> DEFINE l == Len(s)
           m == Len(bytes)
<1>1. l \in Nat /\ m \in Nat /\ m <= n
  BY DigitsAreNumbers, BytesAreNumbers
<1>2. PICK f : PowersOf(256, f)
  <2>1. 256 \in Nat
    OBVIOUS
  <2> QED
    BY <2>1, PowersExist
<1>3. PICK g : PowersOf(58, g)
  <2>1. 58 \in Nat
    OBVIOUS
  <2> QED
    BY <2>1, PowersExist
<1> SUFFICES ASSUME l > (n * 138) \div 100 + 1 PROVE FALSE
  BY <1>1
<1>4. l > 1 /\ l - 1 \in Nat /\ 11 * m <= 8 * (l - 1)
  <2> HIDE DEF l, m
  <2>1. 100 * (l - 1) > n * 138
    BY <1>1
  <2> QED
    BY <1>1, <2>1
<1>5. Solver!Value(Solver!Reverse(s), 58) >= g[l - 1]
  BY <1>3, <1>4, HighAbove
<1>6. Solver!Value(bytes, 256) < f[m]
  BY <1>2, ByteValueBelow
<1>7. f[m] <= g[l - 1]
  <2> HIDE DEF l, m
  <2> QED
    BY <1>1, <1>2, <1>3, <1>4, BytesFit
<1>8. f[m] \in Nat /\ g[l - 1] \in Nat /\ Solver!Value(bytes, 256) \in Nat
  <2>1. m \in 0 .. m
    BY <1>1
  <2>2. Solver!Value(bytes, 256) \in Nat
    BY <2>1, ByteValueGrows
  <2> HIDE DEF l, m
  <2> QED
    BY <1>1, <1>2, <1>3, <1>4, <2>2 DEF PowersOf
<1> HIDE DEF l, m
<1> QED
  BY <1>5, <1>6, <1>7, <1>8

-----------------------------------------------------------------------------
(***************************************************************************)
(* The text.                                                               *)
(***************************************************************************)
\* Zeros in front change no value, and are the leading ones if what follows
\* does not start with a zero.
LEMMA ZerosInFront ==
  ASSUME NEW s \in Seq(Int), NEW n \in Nat, s # <<>>, s[1] # 0
  PROVE  LET t == [m \in 1 .. n |-> 0] \o s
         IN  Solver!Value(t, 58) = Solver!Value(s, 58) /\ Solver!LeadingZeros(t) = n
<1> DEFINE z == [m \in 1 .. n |-> 0]
           t == z \o s
<1>1. z \in Seq(Int) /\ Len(z) = n /\ \A m \in 1 .. n : z[m] = 0
  <2>1. z \in [1 .. n -> Int]
    OBVIOUS
  <2> QED
    BY <2>1
<1> HIDE DEF z
<1>2. /\ t \in Seq(Int) /\ Len(t) = n + Len(s)
      /\ \A m \in 1 .. n : t[m] = 0
      /\ \A m \in 1 .. Len(s) : t[n + m] = s[m]
  <2>1. /\ z \o s \in Seq(Int) /\ Len(z \o s) = Len(z) + Len(s)
        /\ \A m \in 1 .. Len(z) : (z \o s)[m] = z[m]
        /\ \A m \in 1 .. Len(s) : (z \o s)[Len(z) + m] = s[m]
    <3>1. z \in Seq(Int) /\ s \in Seq(Int)
      BY <1>1
    <3> HIDE DEF t
    <3> QED
      BY <3>1, SeqsJoined
  <2> QED
    BY <1>1, <2>1
<1> HIDE DEF t
<1>3. Len(s) \in Nat /\ Len(s) >= 1
  <2>1. Len(s) # 0
    OBVIOUS
  <2> QED
    BY <2>1
<1> DEFINE l == Len(s)
           V(m) == Solver!Value(Firsts(t, m), 58)
           W(m) == Solver!Value(Firsts(s, m), 58)
<1>4. /\ V(0) = 0 /\ V(n + l) = Solver!Value(t, 58)
      /\ \A m \in 0 .. n + l - 1 : V(m + 1) = V(m) * 58 + t[m + 1]
  <2>1. 58 \in Int
    OBVIOUS
  <2>2. /\ Solver!Value(Firsts(t, 0), 58) = 0
        /\ \A m \in 0 .. Len(t) - 1 :
             Solver!Value(Firsts(t, m + 1), 58) = Solver!Value(Firsts(t, m), 58) * 58 + t[m + 1]
        /\ Firsts(t, Len(t)) = t
    BY <1>2, <2>1, ValueGrows
  <2> QED
    BY <1>2, <2>2
<1>5. /\ W(0) = 0 /\ W(l) = Solver!Value(s, 58)
      /\ \A m \in 0 .. l - 1 : W(m + 1) = W(m) * 58 + s[m + 1]
  <2>1. 58 \in Int
    OBVIOUS
  <2>2. /\ Solver!Value(Firsts(s, 0), 58) = 0
        /\ \A m \in 0 .. Len(s) - 1 :
             Solver!Value(Firsts(s, m + 1), 58) = Solver!Value(Firsts(s, m), 58) * 58 + s[m + 1]
        /\ Firsts(s, Len(s)) = s
    BY <2>1, ValueGrows
  <2> QED
    BY <2>2
<1> HIDE DEF V, W, l
<1>6. V(n) = 0
  <2> DEFINE S == {m \in Nat : m <= n => V(m) = 0}
  <2>1. 0 \in S
    BY <1>4
  <2>2. ASSUME NEW m \in Nat, m \in S PROVE m + 1 \in S
    <3> SUFFICES ASSUME m + 1 <= n PROVE V(m + 1) = 0
      OBVIOUS
    <3>1. m \in 0 .. n + l - 1 /\ m + 1 \in 1 .. n
      BY <1>3 DEF l
    <3>2. V(m + 1) = V(m) * 58 + t[m + 1] /\ V(m) = 0 /\ t[m + 1] = 0
      BY <1>2, <1>4, <2>2, <3>1
    <3> QED
      BY <3>2
  <2> HIDE DEF S
  <2>3. n \in S
    BY <2>1, <2>2, Induction
  <2> QED
    BY <2>3 DEF S
<1>7. V(n + l) = W(l)
  <2> DEFINE S == {m \in Nat : m <= l => V(n + m) = W(m)}
  <2>1. 0 \in S
    <3>1. n + 0 = n
      OBVIOUS
    <3> QED
      BY <1>5, <1>6, <3>1
  <2>2. ASSUME NEW m \in Nat, m \in S PROVE m + 1 \in S
    <3> SUFFICES ASSUME m + 1 <= l PROVE V(n + (m + 1)) = W(m + 1)
      OBVIOUS
    <3>1. /\ n + m \in 0 .. n + l - 1 /\ m \in 0 .. l - 1 /\ m + 1 \in 1 .. Len(s) /\ m <= l
          /\ n + (m + 1) = n + m + 1
      BY <1>3 DEF l
    <3>2. V(n + m + 1) = V(n + m) * 58 + t[n + m + 1]
      BY <1>4, <3>1
    <3>3. t[n + (m + 1)] = s[m + 1] /\ V(n + m) = W(m)
      BY <1>2, <2>2, <3>1
    <3>4. W(m + 1) = W(m) * 58 + s[m + 1]
      BY <1>5, <3>1
    <3> QED
      BY <3>1, <3>2, <3>3, <3>4
  <2> HIDE DEF S
  <2>3. l \in S
    BY <1>3, <2>1, <2>2, Induction DEF l
  <2> QED
    BY <2>3 DEF S
<1>8. Solver!LeadingZeros(t) = n
  <2>1. Len(t) \in Nat /\ n \in 0 .. Len(t) /\ n + 1 \in 0 .. Len(t) /\ Solver!LeadingZeros(t) \in Nat
    <3>1. Len(t) \in Nat /\ n + 1 <= Len(t)
      BY <1>2, <1>3
    <3> QED
      BY <3>1, LeadingZerosNumber
  <2>2. ZeroBits(t, n)
    BY <1>2 DEF ZeroBits
  <2>3. ~ZeroBits(t, n + 1)
    <3>1. t[n + 1] # 0
      BY <1>2, <1>3
    <3> QED
      BY <3>1 DEF ZeroBits
  <2>4. Solver!LeadingZeros(t) >= n /\ ~(Solver!LeadingZeros(t) >= n + 1)
    BY <2>1, <2>2, <2>3, LeadingZerosMean
  <2> QED
    BY <2>1, <2>4
<1> QED
  BY <1>4, <1>5, <1>7, <1>8 DEF t, z

\* The characters have the digits' value, and as many ones in front as the bytes
\* have zeros.
LEMMA TextMeans ==
  ASSUME NEW bytes \in Seq(0 .. 255), \E m \in DOMAIN bytes : bytes[m] # 0,
         NEW s \in Seq(Digit), s # <<>>, Len(s) > 1 => s[Len(s)] # 0,
         Solver!Value(Solver!Reverse(s), 58) = Solver!Value(bytes, 256)
  PROVE  /\ Solver!Value(Solver!Characters(bytes, s), 58) = Solver!Value(bytes, 256)
         /\ Solver!LeadingZeros(Solver!Characters(bytes, s)) = Solver!LeadingZeros(bytes)
<1> DEFINE t == Solver!Reverse(s)
           n == Solver!LeadingZeros(bytes)
<1>1. s \in Seq(Int) /\ Len(s) \in Nat /\ Len(s) >= 1
  <2>1. Len(s) # 0
    OBVIOUS
  <2> QED
    BY <2>1, DigitsAreNumbers
<1>2. s[Len(s)] # 0
  <2> SUFFICES ASSUME s[Len(s)] = 0 PROVE FALSE
    OBVIOUS
  <2>1. ~(Len(s) > 1)
    OBVIOUS
  <2>2. Len(s) = 1
    <3> DEFINE l == Len(s)
    <3>1. l \in Nat /\ l >= 1 /\ ~(l > 1)
      BY <1>1, <2>1
    <3> HIDE DEF l
    <3>2. l = 1
      BY <3>1
    <3> QED
      BY <3>2 DEF l
  <2>3. 0 \in 0 .. Len(s) - 1 /\ Len(s) - 0 = 1
    BY <2>2
  <2>4. High(s, 0 + 1) = High(s, 0) * 58 + s[Len(s) - 0] /\ High(s, 0) = 0
    BY <1>1, <2>3, HighGrows
  <2>5. Solver!Value(Solver!Reverse(s), 58) = High(s, 1)
    BY <1>1, <2>2, HighGrows
  <2>6. Solver!Value(bytes, 256) = 0
    BY <2>2, <2>3, <2>4, <2>5
  <2> QED
    BY <2>6, ByteValueAbove
<1>3. t \in Seq(Int) /\ Len(t) = Len(s) /\ \A m \in 1 .. Len(s) : t[m] = s[Len(s) + 1 - m]
  BY <1>1, ReverseMeans
<1> HIDE DEF t
<1>4. t # <<>> /\ t[1] # 0
  <2>1. 1 \in 1 .. Len(s) /\ Len(s) + 1 - 1 = Len(s)
    BY <1>1
  <2> QED
    BY <1>1, <1>2, <1>3, <2>1
<1>5. n \in Nat
  BY BytesAreNumbers, LeadingZerosNumber
<1> HIDE DEF n
<1>6. LET u == [m \in 1 .. n |-> 0] \o t
      IN  Solver!Value(u, 58) = Solver!Value(t, 58) /\ Solver!LeadingZeros(u) = n
  BY <1>3, <1>4, <1>5, ZerosInFront
<1> QED
  BY <1>6 DEF Solver!Characters, t, n

-----------------------------------------------------------------------------
(***************************************************************************)
(* The two programs of a run.                                              *)
(***************************************************************************)
ProgramVars == <<program, data, nttVars, solutionVars>>

\* A run is one of the two programs, to its end.
LEMMA ProgramStays == ProgramSpec => [](program \in {"hardhack_prover", "hardhack_miner"})
<1>1. ProgramInit => program \in {"hardhack_prover", "hardhack_miner"}
  BY DEF ProgramInit
<1>2. program \in {"hardhack_prover", "hardhack_miner"} /\ [ProgramNext]_ProgramVars
      => (program \in {"hardhack_prover", "hardhack_miner"})'
  BY DEF ProgramNext, ProgramVars
<1> QED
  BY <1>1, <1>2, PTL DEF ProgramSpec, ProgramVars

\* What hardhack_miner keeps true: after k terms c is their exact sum, and
\* no larger than k terms can be; what is encoded has passed the check.
SolutionInv ==
  /\ A \in [1 .. K -> ABytes] /\ B \in [1 .. K -> BBytes]
  /\ k \in 0 .. K
  /\ c = Total(A, B, k)
  /\ c \in Int /\ -(k * (255 * 128)) <= c /\ c <= k * (255 * 128)
  /\ stage # "multiply" =>
       hash \in [1 .. HashLength -> HashBytes] /\ difficulty \in 0 .. 8 * HashLength
  /\ stage \in {"encode", "done"} => (success <=> Solver!check_diff_fast(hash, difficulty))

\* A multiplication keeps what is known of the sum,
LEMMA TermAdded ==
  ASSUME Solver!SolutionAssumption, SolutionInv, Solver!MultiplyAdd
  PROVE  SolutionInv'
<1> DEFINE t == A[k + 1] * B[k + 1]
<1>1. /\ k < K /\ k \in 0 .. K /\ K \in Nat /\ k + 1 \in 1 .. K
      /\ c' = Solver!Signed(c + t) /\ k' = k + 1
      /\ UNCHANGED <<stage, A, B, hash, difficulty, success>>
  BY DEF Solver!MultiplyAdd, Solver!Term, Solver!check, SolutionInv, Solver!SolutionAssumption
<1>2. t \in Int /\ -(255 * 128) <= t /\ t <= 255 * 128
  <2>1. A[k + 1] \in ABytes /\ B[k + 1] \in BBytes
    BY <1>1 DEF SolutionInv
  <2>2. ABytes \subseteq 0 .. 255 /\ BBytes \subseteq -128 .. 127
    BY DEF Solver!SolutionAssumption, Solver!Byte
  <2>3. A[k + 1] \in 0 .. 255
    BY <2>1, <2>2
  <2>4. B[k + 1] \in -128 .. 127
    BY <2>1, <2>2
  <2> QED
    BY <2>3, <2>4, TermBounds
<1> HIDE DEF t
<1>3. /\ c \in Int /\ -(k * (255 * 128)) <= c /\ c <= k * (255 * 128)
      /\ c = Total(A, B, k)
  BY DEF SolutionInv
<1>4. /\ c + t \in Int /\ -((k + 1) * (255 * 128)) <= c + t
      /\ c + t <= (k + 1) * (255 * 128)
  BY <1>1, <1>2, <1>3
<1>5. -(Solver!Word \div 2) <= c + t /\ c + t < Solver!Word \div 2
  <2>1. K * 255 * 128 < Solver!Word \div 2 /\ Solver!Word \div 2 \in Int
    BY WordIsEven DEF Solver!SolutionAssumption
  <2>2. (k + 1) * (255 * 128) <= K * 255 * 128
    BY <1>1
  <2> QED
    BY <1>1, <1>4, <2>1, <2>2
<1>6. c' = c + t
  BY <1>1, <1>4, <1>5, SignedIsExact
<1>7. Total(A, B, k + 1) = c + t
  BY <1>1, <1>3, TotalGrows DEF t
<1> QED
  BY <1>1, <1>4, <1>6, <1>7 DEF SolutionInv

\* and so does every step of the miner.
LEMMA SolutionKept ==
  ASSUME Solver!SolutionAssumption, SolutionInv, [Solver!Next]_solutionVars
  PROVE  SolutionInv'
<1>1. CASE UNCHANGED solutionVars
  BY <1>1 DEF solutionVars, SolutionInv
<1>2. CASE Solver!MultiplyAdd
  BY <1>2, TermAdded
<1>3. CASE Solver!MakeSolution
  <2>1. /\ stage = "multiply" /\ stage' = "check" /\ UNCHANGED <<A, B, k, c>>
        /\ hash' \in [1 .. HashLength -> HashBytes] /\ difficulty' \in 0 .. 8 * HashLength
    BY <1>3 DEF Solver!MakeSolution, Solver!product
  <2> QED
    BY <2>1 DEF SolutionInv
<1>4. CASE Solver!CheckDifficulty
  <2>1. /\ stage = "check" /\ UNCHANGED <<A, B, k, c, hash, difficulty>>
        /\ success' = Solver!check_diff_fast(hash, difficulty)
    BY <1>4 DEF Solver!CheckDifficulty, Solver!product
  <2> QED
    BY <2>1 DEF SolutionInv
<1>5. CASE Solver!EncodeByte
  <2>1. stage = "encode" /\ UNCHANGED <<stage, A, B, k, c, hash, difficulty, success>>
    BY <1>5 DEF Solver!EncodeByte, Solver!product, Solver!check
  <2> QED
    BY <2>1 DEF SolutionInv
<1>6. CASE Solver!FinishEncoding
  <2>1. stage = "encode" /\ UNCHANGED <<A, B, k, c, hash, difficulty, success>>
    BY <1>6 DEF Solver!FinishEncoding, Solver!product, Solver!check
  <2> QED
    BY <2>1 DEF SolutionInv
<1>7. CASE Solver!Terminating
  <2>1. UNCHANGED solutionVars
    BY <1>7 DEF Solver!Terminating, Solver!vars, Solver!product, Solver!check,
       Solver!encoding, solutionVars
  <2> QED
    BY <1>1, <2>1
<1> QED
  BY <1>1, <1>2, <1>3, <1>4, <1>5, <1>6, <1>7 DEF Solver!Next

\* So it holds of the whole.
LEMMA SolutionStands == ProgramSpec => [](program = "hardhack_miner" => SolutionInv)
<1> USE NumericsAssumption
<1> DEFINE Inv == program = "hardhack_miner" => SolutionInv
<1>1. ProgramInit => Inv
  <2> SUFFICES ASSUME Solver!Init PROVE SolutionInv
    BY DEF ProgramInit
  <2>1. Total(A, B, 0) = 0
    BY TotalGrows
  <2>2. 0 \in 0 .. K
    BY DEF Solver!SolutionAssumption
  <2> QED
    BY <2>1, <2>2 DEF Solver!Init, SolutionInv
<1>2. Inv /\ [ProgramNext]_ProgramVars => Inv'
  <2> SUFFICES ASSUME Inv, [ProgramNext]_ProgramVars, program' = "hardhack_miner"
               PROVE  SolutionInv'
    OBVIOUS
  <2>1. program = "hardhack_miner" /\ [Solver!Next]_solutionVars
    BY DEF ProgramNext, ProgramVars
  <2> QED
    BY <2>1, SolutionKept
<1> QED
  BY <1>1, <1>2, PTL DEF ProgramSpec, ProgramVars

\* The int32 accumulator of the CPU device never overflows: after every term
\* it is the exact sum, for rows of any length, as long as that many extreme
\* products fit the word.
THEOREM ProductStaysExact == ProgramSpec => []ProductIsExact
<1>1. (program = "hardhack_miner" => SolutionInv) => ProductIsExact
  <2> SUFFICES ASSUME SolutionInv PROVE c = Solver!ExactSum(k)
    BY DEF ProductIsExact, Solver!ProductIsExact
  <2>1. k \in Nat
    BY NumericsAssumption DEF SolutionInv, Solver!SolutionAssumption
  <2> QED
    BY <2>1, ExactSumIsTotal DEF SolutionInv
<1> QED
  BY <1>1, SolutionStands, PTL

\* The byte-wise check passes a hash exactly if it has as many leading zero
\* bits as the difficulty asks for: hashes of any length, any difficulty.
THEOREM CheckCountsLeadingZeros == ProgramSpec => []ChecksLeadingZeros
<1>1. (program = "hardhack_miner" => SolutionInv) => ChecksLeadingZeros
  <2> SUFFICES ASSUME SolutionInv, stage \in {"encode", "done"}
               PROVE  success <=> Solver!LeadingZeros(Solver!Bits(hash)) >= difficulty
    BY DEF ChecksLeadingZeros, Solver!ChecksLeadingZeros
  <2>1. /\ success <=> Solver!check_diff_fast(hash, difficulty)
        /\ hash \in [1 .. HashLength -> 0 .. 255] /\ difficulty \in 0 .. 8 * HashLength
        /\ HashLength \in Nat
    <3>1. HashBytes \subseteq 0 .. 255 /\ HashLength \in Nat
      BY NumericsAssumption, Zenon DEF Solver!SolutionAssumption, Solver!Byte
    <3>2. /\ success <=> Solver!check_diff_fast(hash, difficulty)
          /\ hash \in [1 .. HashLength -> HashBytes] /\ difficulty \in 0 .. 8 * HashLength
      <4>1. stage \in {"encode", "done"} => stage # "multiply"
        OBVIOUS
      <4> QED
        BY <4>1, Zenon DEF SolutionInv
    <3>3. hash \in [1 .. HashLength -> 0 .. 255]
      BY <3>1, <3>2
    <3> QED
      BY <3>1, <3>2, <3>3, Zenon
  <2>2. Solver!check_diff_fast(hash, difficulty) <=> ZeroBits(Solver!Bits(hash), difficulty)
    BY <2>1, CheckMeans
  <2>3. Len(Solver!Bits(hash)) = 8 * HashLength
    <3>1. hash \in Seq(0 .. 255) /\ Len(hash) = HashLength
      BY <2>1
    <3> DEFINE S == {Solver!Bits(hash)[m] : m \in 1 .. 8 * HashLength}
    <3>2. Solver!Bits(hash) \in [1 .. 8 * HashLength -> S]
      BY <3>1 DEF Solver!Bits
    <3> HIDE DEF S
    <3>3. Solver!Bits(hash) \in Seq(S) /\ 8 * HashLength \in Nat
      BY <2>1, <3>2
    <3> QED
      BY <3>2, <3>3
  <2>4. Solver!LeadingZeros(Solver!Bits(hash)) >= difficulty
        <=> ZeroBits(Solver!Bits(hash), difficulty)
    BY <2>1, <2>3, LeadingZerosMean
  <2> QED
    BY <2>1, <2>2, <2>4
<1> QED
  BY <1>1, SolutionStands, PTL

\* What the encoding keeps true: the digits have the value of the bytes read
\* so far and no zero on top; before the first byte there is only the seed, and
\* after the product there is a byte that is not zero.
EncodingInv ==
  /\ data \in Seq(0 .. 255) /\ done \in 0 .. Len(data)
  /\ digits \in Seq(Digit) /\ digits # <<>>
  /\ Len(digits) > 1 => digits[Len(digits)] # 0
  /\ Solver!Value(Solver!Reverse(digits), 58) = Solver!Value(SubSeq(data, 1, done), 256)
  /\ stage = "multiply" => seed \in Seeds
  /\ stage \in {"multiply", "check"} => done = 0
  /\ stage # "multiply" => \E m \in DOMAIN data : data[m] # 0
  /\ text # <<>> => /\ stage = "done" /\ done = Len(data)
                    /\ text = Solver!Characters(data, digits)

\* The encoder starts with one zero digit and nothing read.
LEMMA EncodingStarts ==
  ASSUME Solver!SolutionAssumption, Solver!Init
  PROVE  EncodingInv
<1>1. /\ stage = "multiply" /\ seed \in Seeds /\ data = <<>> /\ done = 0 /\ digits = <<0>>
      /\ text = <<>>
  BY DEF Solver!Init
<1>2. data \in Seq(0 .. 255) /\ done \in 0 .. Len(data) /\ SubSeq(data, 1, done) = <<>>
  BY <1>1
<1>3. digits \in Seq(Digit) /\ digits # <<>> /\ Len(digits) = 1 /\ digits[1] = 0
  BY <1>1 DEF Digit
<1>4. Solver!Value(Solver!Reverse(digits), 58) = 0
  <2>1. digits \in Seq(Int)
    BY <1>3, DigitsAreNumbers
  <2>2. 0 \in 0 .. Len(digits) - 1 /\ Len(digits) - 0 = 1
    BY <1>3
  <2>3. High(digits, 0 + 1) = High(digits, 0) * 58 + digits[1] /\ High(digits, 0) = 0
    BY <2>1, <2>2, HighGrows
  <2>4. Solver!Value(Solver!Reverse(digits), 58) = High(digits, 1)
    BY <1>3, <2>1, HighGrows
  <2> QED
    BY <1>3, <2>3, <2>4
<1>5. Solver!Value(SubSeq(data, 1, done), 256) = 0
  <2>1. ByteValue(data, 0) = 0
    BY <1>2, ByteValueGrows
  <2> QED
    BY <1>1, <2>1 DEF ByteValue, Firsts
<1> QED
  BY <1>1, <1>2, <1>3, <1>4, <1>5 DEF EncodingInv

\* The bytes of an element of C
LEMMA BytesOfElement ==
  ASSUME Solver!SolutionAssumption, NEW n \in Int
  PROVE  Solver!LittleEndian(n) \in Seq(0 .. 255)
<1>1. WordBytes \in Nat /\ Solver!Word \in Nat \ {0}
  BY WordIsEven DEF Solver!SolutionAssumption
<1> DEFINE x == n % Solver!Word
<1>2. x \in Int
  BY <1>1
<1> HIDE DEF x
<1>3. ASSUME NEW m \in 1 .. WordBytes PROVE (x \div 2 ^ (8 * (m - 1))) % 256 \in 0 .. 255
  <2> DEFINE p == 2 ^ (8 * (m - 1))
  <2>1. p \in Nat \ {0}
    <3>1. 8 * (m - 1) \in Nat
      BY <1>1
    <3> QED
      BY <3>1, PowerIsCount
  <2> HIDE DEF p
  <2>2. x \div p \in Int
    BY <1>2, <2>1
  <2> DEFINE q == x \div p
  <2> HIDE DEF q
  <2>3. q % 256 \in 0 .. 255
    BY <2>2 DEF q
  <2> QED
    BY <2>3 DEF p, q
<1>4. Solver!LittleEndian(n) \in [1 .. WordBytes -> 0 .. 255]
  BY <1>3 DEF Solver!LittleEndian, x
<1> QED
  BY <1>1, <1>4

\* The product's bytes follow the seed, which is not all zero.
LEMMA SolutionMade ==
  ASSUME Solver!SolutionAssumption, SolutionInv, EncodingInv, Solver!MakeSolution
  PROVE  EncodingInv'
<1> DEFINE more == Solver!LittleEndian(c)
<1>1. /\ stage = "multiply" /\ stage' = "check" /\ data' = seed \o more
      /\ UNCHANGED <<seed, done, digits, text>>
  BY DEF Solver!MakeSolution, Solver!encoding
<1>2. seed \in Seq(0 .. 255) /\ \E m \in DOMAIN seed : seed[m] # 0
  <2>1. seed \in Seeds /\ Seeds \subseteq Seq(0 .. 255)
    BY <1>1 DEF EncodingInv, Solver!SolutionAssumption, Solver!Byte
  <2> QED
    BY <2>1 DEF Solver!SolutionAssumption
<1>3. more \in Seq(0 .. 255)
  <2>1. c \in Int
    BY DEF SolutionInv
  <2> QED
    BY <2>1, BytesOfElement
<1> HIDE DEF more
<1>4. /\ data' \in Seq(0 .. 255) /\ Len(data') = Len(seed) + Len(more)
      /\ \A m \in 1 .. Len(seed) : data'[m] = seed[m]
  <2>1. LET u == seed \o more
        IN  /\ u \in Seq(0 .. 255) /\ Len(u) = Len(seed) + Len(more)
            /\ \A m \in 1 .. Len(seed) : u[m] = seed[m]
    BY <1>2, <1>3, SeqsJoined
  <2> QED
    BY <1>1, <2>1
<1>5. \E m \in DOMAIN data' : data'[m] # 0
  <2>1. PICK p \in DOMAIN seed : seed[p] # 0
    BY <1>2
  <2>2. /\ Len(seed) \in Nat /\ DOMAIN seed = 1 .. Len(seed)
        /\ Len(more) \in Nat /\ DOMAIN data' = 1 .. Len(data')
    BY <1>2, <1>3, <1>4, LenProperties
  <2>3. p \in 1 .. Len(data') /\ data'[p] # 0
    BY <1>4, <2>1, <2>2
  <2> QED
    BY <2>2, <2>3
<1>6. text = <<>> /\ done = 0
  BY <1>1 DEF EncodingInv
<1>7. /\ Solver!Value(SubSeq(data, 1, 0), 256) = 0
      /\ Solver!Value(SubSeq(data', 1, 0), 256) = 0
  <2>1. ByteValue(data, 0) = 0
    BY ByteValueGrows DEF EncodingInv
  <2>2. ByteValue(data', 0) = 0
    BY <1>4, ByteValueGrows
  <2> QED
    BY <2>1, <2>2 DEF ByteValue, Firsts
<1>8. done' = 0 /\ 0 \in 0 .. Len(data')
  <2>1. Len(data') \in Nat
    BY <1>4
  <2> QED
    BY <1>1, <1>6, <2>1
<1>9. /\ digits' \in Seq(Digit) /\ digits' # <<>>
      /\ Len(digits') > 1 => digits'[Len(digits')] # 0
      /\ Solver!Value(Solver!Reverse(digits'), 58) = 0
  BY <1>1, <1>6, <1>7 DEF EncodingInv
<1> QED
  BY <1>1, <1>4, <1>5, <1>6, <1>7, <1>8, <1>9 DEF EncodingInv

\* One more byte is read, and the digits have its value too.
LEMMA ByteEncoded ==
  ASSUME EncodingInv, Solver!EncodeByte
  PROVE  EncodingInv'
<1> DEFINE byte == data[done + 1]
<1>1. /\ stage = "encode" /\ done < Len(data) /\ done' = done + 1
      /\ digits' = Solver!AddByte(digits, byte)
      /\ UNCHANGED <<stage, seed, data, text>>
  BY DEF Solver!EncodeByte
<1>2. /\ data \in Seq(0 .. 255) /\ done \in 0 .. Len(data) /\ digits \in Seq(Digit)
      /\ digits # <<>> /\ (Len(digits) > 1 => digits[Len(digits)] # 0)
      /\ Solver!Value(Solver!Reverse(digits), 58) = ByteValue(data, done)
  BY DEF EncodingInv, ByteValue, Firsts
<1>3. /\ Len(data) \in Nat /\ done \in 0 .. Len(data) - 1 /\ done + 1 \in 1 .. Len(data)
      /\ done + 1 \in 0 .. Len(data)
  BY <1>1, <1>2
<1>4. byte \in 0 .. 255
  <2>1. data[done + 1] \in Nat /\ data[done + 1] <= 255
    BY <1>2, <1>3, BytesAreNumbers
  <2> QED
    BY <2>1
<1> HIDE DEF byte
<1>5. /\ digits' \in Seq(Digit) /\ digits' # <<>> /\ (Len(digits') > 1 => digits'[Len(digits')] # 0)
      /\ Solver!Value(Solver!Reverse(digits'), 58)
           = Solver!Value(Solver!Reverse(digits), 58) * 256 + byte
  BY <1>1, <1>2, <1>4, ByteAdded
<1>6. ByteValue(data, done + 1) = ByteValue(data, done) * 256 + byte
  BY <1>2, <1>3, ByteValueGrows DEF byte
<1>7. Solver!Value(Solver!Reverse(digits'), 58) = Solver!Value(SubSeq(data, 1, done + 1), 256)
  BY <1>2, <1>5, <1>6 DEF ByteValue, Firsts
<1>8. text = <<>> /\ \E m \in DOMAIN data : data[m] # 0
  BY <1>1 DEF EncodingInv
<1> QED
  BY <1>1, <1>2, <1>3, <1>5, <1>7, <1>8 DEF EncodingInv

\* No step of hardhack_miner breaks the encoding.
LEMMA EncodingKept ==
  ASSUME Solver!SolutionAssumption, SolutionInv, EncodingInv, [Solver!Next]_<<solutionVars, data>>
  PROVE  EncodingInv'
<1>1. CASE UNCHANGED <<stage, seed, data, done, digits, text>>
  BY <1>1 DEF EncodingInv
<1>2. CASE Solver!MultiplyAdd
  <2>1. UNCHANGED <<stage, seed, data, done, digits, text>>
    BY <1>2 DEF Solver!MultiplyAdd, Solver!encoding
  <2> QED
    BY <1>1, <2>1
<1>3. CASE Solver!MakeSolution
  BY <1>3, SolutionMade
<1>4. CASE Solver!CheckDifficulty
  <2>1. /\ stage = "check" /\ stage' \in {"encode", "done"}
        /\ UNCHANGED <<seed, data, done, digits, text>>
    BY <1>4 DEF Solver!CheckDifficulty, Solver!encoding
  <2>2. text = <<>>
    BY <2>1 DEF EncodingInv
  <2> QED
    BY <2>1, <2>2 DEF EncodingInv
<1>5. CASE Solver!EncodeByte
  BY <1>5, ByteEncoded
<1>6. CASE Solver!FinishEncoding
  <2>1. /\ stage = "encode" /\ done >= Len(data) /\ text' = Solver!Characters(data, digits)
        /\ stage' = "done" /\ UNCHANGED <<seed, data, done, digits>>
    BY <1>6 DEF Solver!FinishEncoding
  <2>2. done = Len(data)
    BY <2>1 DEF EncodingInv
  <2> QED
    BY <2>1, <2>2 DEF EncodingInv
<1>7. CASE Solver!Terminating
  <2>1. UNCHANGED <<stage, seed, data, done, digits, text>>
    BY <1>7 DEF Solver!Terminating, Solver!vars, Solver!encoding
  <2> QED
    BY <1>1, <2>1
<1>8. CASE UNCHANGED <<solutionVars, data>>
  <2>1. UNCHANGED <<stage, seed, data, done, digits, text>>
    BY <1>8 DEF solutionVars
  <2> QED
    BY <1>1, <2>1
<1> QED
  BY <1>2, <1>3, <1>4, <1>5, <1>6, <1>7, <1>8 DEF Solver!Next

\* The text decodes to the solution's bytes and to no others: its digits have
\* the bytes' value, its leading ones are their leading zeros, and on the way the
\* digits never outgrow the buffer of 138/100 of the length (main.cpp:13-35):
\* for solutions of any length with some byte that is not zero.
THEOREM TextStandsForBytes == ProgramSpec => []TextDecodes
<1> USE NumericsAssumption
<1> DEFINE Inv == program = "hardhack_miner" => EncodingInv
<1>1. ProgramInit => Inv
  BY EncodingStarts DEF ProgramInit
<1>2. (program = "hardhack_miner" => SolutionInv) /\ Inv /\ [ProgramNext]_ProgramVars => Inv'
  <2> SUFFICES ASSUME program = "hardhack_miner" => SolutionInv, Inv, [ProgramNext]_ProgramVars,
                      program' = "hardhack_miner"
               PROVE  EncodingInv'
    OBVIOUS
  <2>1. program = "hardhack_miner" /\ [Solver!Next]_<<solutionVars, data>>
    BY DEF ProgramNext, ProgramVars
  <2> QED
    BY <2>1, EncodingKept
<1>3. Inv => TextDecodes
  <2> SUFFICES ASSUME EncodingInv PROVE Solver!TextDecodes
    BY DEF TextDecodes
  <2>1. /\ data \in Seq(0 .. 255) /\ done \in 0 .. Len(data) /\ Len(data) \in Nat
        /\ digits \in Seq(Digit) /\ digits # <<>>
        /\ Len(digits) > 1 => digits[Len(digits)] # 0
        /\ Solver!Value(Solver!Reverse(digits), 58) = Solver!Value(Firsts(data, done), 256)
    BY DEF EncodingInv, Firsts
  <2>2. /\ Firsts(data, done) \in Seq(0 .. 255) /\ Len(Firsts(data, done)) = done
        /\ done = Len(data) => Firsts(data, done) = data
    BY <2>1, FirstsAre
  <2>3. Len(digits) <= (Len(data) * 138) \div 100 + 1
    <3>1. Len(Firsts(data, done)) <= Len(data)
      BY <2>1, <2>2
    <3> QED
      BY <2>1, <2>2, <3>1, DigitsFitBuffer
  <2>4. ASSUME text # <<>>
        PROVE  /\ Solver!Value(text, 58) = Solver!Value(data, 256)
               /\ Solver!LeadingZeros(text) = Solver!LeadingZeros(data)
    <3>1. /\ text = Solver!Characters(data, digits) /\ done = Len(data)
          /\ \E m \in DOMAIN data : data[m] # 0
      BY <2>4 DEF EncodingInv
    <3>2. Solver!Value(Solver!Reverse(digits), 58) = Solver!Value(data, 256)
      BY <2>1, <2>2, <3>1
    <3>3. /\ Solver!Value(Solver!Characters(data, digits), 58) = Solver!Value(data, 256)
          /\ Solver!LeadingZeros(Solver!Characters(data, digits)) = Solver!LeadingZeros(data)
      BY <2>1, <3>1, <3>2, TextMeans
    <3> QED
      BY <3>1, <3>3
  <2> QED
    BY <2>1, <2>3, <2>4 DEF Solver!TextDecodes, Firsts
<1> QED
  BY <1>1, <1>2, <1>3, SolutionStands, PTL DEF ProgramSpec, ProgramVars

-----------------------------------------------------------------------------
(***************************************************************************)
(* The vector: in bounds, and in the field.                                *)
(***************************************************************************)
\* N is a power of two: every power of two up to N divides it.
LEMMA LengthIsPower ==
  ASSUME NttAssumption
  PROVE  \E t \in Nat : N = 2 ^ t
<1>1. N \in Nat /\ N > 1 /\ \A l \in 1 .. N : N % l = 0 /\ 2 * l <= N => N % (2 * l) = 0
  BY DEF NttAssumption
<1> SUFFICES ASSUME \A t \in Nat : N # 2 ^ t PROVE FALSE
  OBVIOUS
<1> DEFINE S == {t \in Nat : 2 ^ t < N /\ N % 2 ^ t = 0 /\ t < 2 ^ t}
<1>2. 0 \in S
  <2>1. 2 ^ 0 = 1
    OBVIOUS
  <2> QED
    BY <1>1, <2>1
<1>3. ASSUME NEW t \in Nat, t \in S PROVE t + 1 \in S
  <2> DEFINE p == 2 ^ t
  <2>1. p \in Nat \ {0} /\ 2 ^ (t + 1) = 2 * p /\ t + 1 \in Nat
    BY PowerDoubles
  <2>2. p < N /\ N % p = 0 /\ t < p
    BY <1>3
  <2>3. N # 2 * p
    <3>1. N # 2 ^ (t + 1)
      OBVIOUS
    <3> QED
      BY <2>1, <3>1
  <2> HIDE DEF p
  <2>4. 2 * p <= N
    <3>1. N \div p \in Nat /\ N = p * (N \div p)
      BY <1>1, <2>1, <2>2
    <3>2. N \div p # 0 /\ N \div p # 1
      BY <1>1, <2>1, <2>2, <3>1
    <3> DEFINE q == N \div p
    <3>3. q \in Nat /\ q >= 2 /\ N = p * q
      BY <3>1, <3>2
    <3> HIDE DEF q
    <3>4. p * 2 <= p * q
      BY <2>1, <3>3
    <3> QED
      BY <2>1, <3>3, <3>4
  <2>5. N % (2 * p) = 0
    <3>1. p \in 1 .. N
      BY <1>1, <2>1, <2>2
    <3>2. \A l \in 1 .. N : N % l = 0 /\ 2 * l <= N => N % (2 * l) = 0
      BY <1>1
    <3> QED
      BY <2>2, <2>4, <3>1, <3>2
  <2>6. 2 ^ (t + 1) < N /\ N % 2 ^ (t + 1) = 0 /\ t + 1 < 2 ^ (t + 1)
    BY <1>1, <2>1, <2>2, <2>3, <2>4, <2>5
  <2> QED
    BY <2>1, <2>6
<1>4. N \in S
  <2> HIDE DEF S
  <2> QED
    BY <1>1, <1>2, <1>3, Induction
<1> QED
  BY <1>1, <1>4

CarryRow(rows, bit) ==
  [m \in Index |->
     IF bit > 0 /\ (m \div bit) % 2 = 1 THEN rows[bit \div 2][m - bit] ELSE m + bit]

Carries(rows, top) == [bit \in 0 .. top |-> CarryRow(rows, bit)]

\* There is a function of the carries,
LEMMA CarriesExist ==
  ASSUME NEW top \in Nat
  PROVE  \E rows : rows = Carries(rows, top)
<1> DEFINE S == {n \in Nat : \E rows : rows = Carries(rows, n)}
<1>1. 0 \in S
  <2> DEFINE rows == [bit \in 0 .. 0 |-> [m \in Index |-> m + bit]]
  <2>1. rows = Carries(rows, 0)
    BY DEF Carries, CarryRow
  <2> QED
    BY <2>1
<1>2. ASSUME NEW n \in Nat, n \in S PROVE n + 1 \in S
  <2>1. PICK rows : rows = Carries(rows, n)
    BY <1>2
  <2> DEFINE d == [bit \in 0 .. n + 1 |-> IF bit <= n THEN rows[bit] ELSE CarryRow(rows, bit)]
  <2>2. \A bit \in 0 .. n : d[bit] = rows[bit]
    OBVIOUS
  <2>3. ASSUME NEW bit \in 0 .. n + 1 PROVE d[bit] = CarryRow(d, bit)
    <3>1. d[bit] = CarryRow(rows, bit)
      BY <2>1 DEF Carries
    <3>2. bit > 0 => bit \div 2 \in 0 .. n
      OBVIOUS
    <3>3. bit > 0 => d[bit \div 2] = rows[bit \div 2]
      BY <2>2, <3>2
    <3> HIDE DEF d
    <3> QED
      BY <3>1, <3>3 DEF CarryRow
  <2>4. d = [bit \in 0 .. n + 1 |-> d[bit]]
    OBVIOUS
  <2> HIDE DEF d
  <2>5. d = Carries(d, n + 1)
    BY <2>3, <2>4 DEF Carries
  <2> QED
    BY <2>5
<1>3. top \in S
  <2> HIDE DEF S
  <2> QED
    BY <1>1, <1>2, Induction
<1> QED
  BY <1>3

\* NextReversed counts within the vector: a carry that stays below its bit's
\* double, and that ends at 0 when it runs out at the bottom.
LEMMA ReversedInVector ==
  ASSUME NttAssumption, NEW n \in Index
  PROVE  NextReversed(n) \in Index
<1> DEFINE rows == CHOOSE f : f = Carries(f, N)
<1>1. N \in Nat /\ N > 1
  BY DEF NttAssumption
<1>2. rows = Carries(rows, N)
  BY <1>1, CarriesExist
<1>3. NextReversed(n) = rows[N \div 2][n]
  BY DEF NextReversed, Carries, CarryRow
<1> HIDE DEF rows
<1>4. ASSUME NEW bit \in 0 .. N, NEW m \in Index
      PROVE  rows[bit][m] = IF bit > 0 /\ (m \div bit) % 2 = 1
                         THEN rows[bit \div 2][m - bit] ELSE m + bit
  <2>1. rows[bit] = Carries(rows, N)[bit]
    BY <1>2
  <2>2. rows[bit] = CarryRow(rows, bit)
    BY <2>1 DEF Carries
  <2> QED
    BY <2>2 DEF CarryRow
<1> DEFINE S == {t \in Nat : 2 * 2 ^ t <= N =>
                   \A m \in 0 .. 2 * 2 ^ t - 1 : rows[2 ^ t][m] \in 0 .. 2 * 2 ^ t - 1}
<1>5. 0 \in S
  <2>1. 2 ^ 0 = 1
    OBVIOUS
  <2>2. ASSUME 2 <= N, NEW m \in 0 .. 1 PROVE rows[1][m] \in 0 .. 1
    <3>1. m \in Index /\ 1 \in 0 .. N /\ 0 \in 0 .. N /\ 0 \in Index
      BY <1>1, <2>2 DEF Index
    <3>2. CASE m = 0
      <4>1. rows[1][0] = 0 + 1
        BY <1>4, <3>1
      <4> QED
        BY <3>2, <4>1
    <3>3. CASE m = 1
      <4>1. 1 \in Index /\ (1 \div 1) % 2 = 1 /\ 1 \div 2 = 0 /\ 1 - 1 = 0
        BY <3>1, <3>3
      <4>2. rows[1][1] = rows[1 \div 2][1 - 1]
        BY <1>4, <3>1, <4>1
      <4>3. rows[0][0] = 0 + 0
        BY <1>4, <3>1
      <4> QED
        BY <3>3, <4>1, <4>2, <4>3
    <3> QED
      BY <3>2, <3>3
  <2> QED
    BY <2>1, <2>2
<1>6. ASSUME NEW t \in Nat, t \in S PROVE t + 1 \in S
  <2> DEFINE p == 2 ^ t
  <2>1. 2 ^ (t + 1) = 2 * p /\ p \in Nat \ {0}
    BY PowerDoubles
  <2>2. 2 * p <= N => \A m \in 0 .. 2 * p - 1 : rows[p][m] \in 0 .. 2 * p - 1
    BY <1>6
  <2> HIDE DEF p
  <2>3. ASSUME 2 * (2 * p) <= N, NEW m \in 0 .. 2 * (2 * p) - 1
        PROVE  rows[2 * p][m] \in 0 .. 2 * (2 * p) - 1
    <3>1. m \in Index /\ 2 * p \in 0 .. N /\ 2 * p > 0 /\ (2 * p) \div 2 = p /\ 2 * p <= N
      BY <1>1, <2>1, <2>3 DEF Index
    <3>2. CASE m < 2 * p
      <4>1. m \div (2 * p) = 0
        BY <2>1, <3>2
      <4>2. rows[2 * p][m] = m + 2 * p
        BY <1>4, <3>1, <4>1
      <4> QED
        BY <2>1, <3>2, <4>2
    <3>3. CASE m >= 2 * p
      <4>1. m \div (2 * p) = 1
        BY <2>1, <2>3, <3>3
      <4>2. rows[2 * p][m] = rows[p][m - 2 * p]
        BY <1>4, <3>1, <4>1
      <4>3. m - 2 * p \in 0 .. 2 * p - 1
        BY <2>1, <2>3, <3>3
      <4>4. rows[p][m - 2 * p] \in 0 .. 2 * p - 1
        BY <2>2, <3>1, <4>3
      <4> QED
        BY <2>1, <4>2, <4>4
    <3> QED
      BY <2>1, <3>2, <3>3
  <2> QED
    BY <2>1, <2>3
<1>7. PICK u \in Nat : N = 2 ^ u
  BY LengthIsPower
<1>8. u # 0
  <2> SUFFICES ASSUME u = 0 PROVE FALSE
    OBVIOUS
  <2>1. N = 2 ^ 0
    BY <1>7
  <2>2. 2 ^ 0 = 1
    OBVIOUS
  <2> QED
    BY <1>1, <2>1, <2>2
<1>9. u - 1 \in Nat /\ N = 2 * 2 ^ (u - 1) /\ N \div 2 = 2 ^ (u - 1) /\ 2 ^ (u - 1) \in Nat
  <2>1. u - 1 \in Nat /\ (u - 1) + 1 = u
    BY <1>8
  <2>2. 2 ^ u = 2 * 2 ^ (u - 1) /\ 2 ^ (u - 1) \in Nat
    BY <2>1, PowerDoubles
  <2> QED
    BY <1>7, <2>1, <2>2
<1>10. u - 1 \in S
  <2> HIDE DEF S
  <2> QED
    BY <1>5, <1>6, <1>9, Induction
<1>11. \A m \in 0 .. N - 1 : rows[N \div 2][m] \in 0 .. N - 1
  BY <1>1, <1>9, <1>10
<1> QED
  BY <1>3, <1>11 DEF Index

\* Powers, by squaring
PowRow(rows, e) ==
  [b \in Field |->
     IF e = 0 THEN 1
     ELSE LET rest == rows[e \div 2][field_mul(b, b)]
          IN  IF e % 2 = 1 THEN field_mul(rest, b) ELSE rest]

Pows(rows, top) == [e \in 0 .. top |-> PowRow(rows, e)]

\* and one of the powers.
LEMMA PowsExist ==
  ASSUME NEW top \in Nat
  PROVE  \E rows : rows = Pows(rows, top)
<1> DEFINE S == {n \in Nat : \E rows : rows = Pows(rows, n)}
<1>1. 0 \in S
  <2> DEFINE rows == [e \in 0 .. 0 |-> [b \in Field |-> 1]]
  <2>1. rows = Pows(rows, 0)
    BY DEF Pows, PowRow
  <2> QED
    BY <2>1
<1>2. ASSUME NEW n \in Nat, n \in S PROVE n + 1 \in S
  <2>1. PICK rows : rows = Pows(rows, n)
    BY <1>2
  <2> DEFINE d == [e \in 0 .. n + 1 |-> IF e <= n THEN rows[e] ELSE PowRow(rows, e)]
  <2>2. \A e \in 0 .. n : d[e] = rows[e]
    OBVIOUS
  <2>3. ASSUME NEW e \in 0 .. n + 1 PROVE d[e] = PowRow(d, e)
    <3>1. d[e] = PowRow(rows, e)
      BY <2>1 DEF Pows
    <3>2. e # 0 => e \div 2 \in 0 .. n
      OBVIOUS
    <3>3. e # 0 => d[e \div 2] = rows[e \div 2]
      BY <2>2, <3>2
    <3> HIDE DEF d
    <3> QED
      BY <3>1, <3>3 DEF PowRow
  <2>4. d = [e \in 0 .. n + 1 |-> d[e]]
    OBVIOUS
  <2> HIDE DEF d
  <2>5. d = Pows(d, n + 1)
    BY <2>3, <2>4 DEF Pows
  <2> QED
    BY <2>5
<1>3. top \in S
  <2> HIDE DEF S
  <2> QED
    BY <1>1, <1>2, Induction
<1> QED
  BY <1>3

\* The product is reduced,
LEMMA ProductInField ==
  ASSUME NttAssumption, NEW x \in Field, NEW y \in Field
  PROVE  field_mul(x, y) \in Field
<1>1. P \in Nat \ {0} /\ x * y \in Nat
  BY DEF NttAssumption, Field
<1> QED
  BY <1>1, SmallRemainder DEF field_mul, Field

\* so is the power,
LEMMA PowerInField ==
  ASSUME NttAssumption, NEW base \in Field, NEW exp \in Nat
  PROVE  power(base, exp) \in Field
<1> DEFINE rows == CHOOSE f : f = Pows(f, exp)
<1>1. rows = Pows(rows, exp)
  BY PowsExist
<1>2. power(base, exp) = rows[exp][base]
  BY DEF power, Pows, PowRow
<1> HIDE DEF rows
<1>3. 1 \in Field
  BY DEF NttAssumption, Field
<1> DEFINE S == {n \in Nat : \A e \in 0 .. n : e <= exp => \A b \in Field : rows[e][b] \in Field}
<1>4. ASSUME NEW e \in 0 .. exp, NEW b \in Field
      PROVE  rows[e][b] = IF e = 0 THEN 1
                       ELSE IF e % 2 = 1 THEN field_mul(rows[e \div 2][field_mul(b, b)], b)
                                         ELSE rows[e \div 2][field_mul(b, b)]
  <2>1. rows[e] = Pows(rows, exp)[e]
    BY <1>1
  <2>2. rows[e] = PowRow(rows, e)
    BY <2>1 DEF Pows
  <2> QED
    BY <2>2 DEF PowRow
<1>5. 0 \in S
  <2>1. ASSUME NEW b \in Field PROVE rows[0][b] \in Field
    BY <1>3, <1>4
  <2> QED
    BY <2>1
<1>6. ASSUME NEW n \in Nat, n \in S PROVE n + 1 \in S
  <2> SUFFICES ASSUME NEW e \in 0 .. n + 1, e <= exp, NEW b \in Field
               PROVE  rows[e][b] \in Field
    OBVIOUS
  <2>1. CASE e = 0
    BY <1>3, <1>4, <2>1
  <2>2. CASE e # 0
    <3>1. e \div 2 \in 0 .. n /\ e \div 2 <= exp /\ e \in 0 .. exp
      BY <2>2
    <3>2. field_mul(b, b) \in Field
      BY ProductInField
    <3>3. rows[e \div 2][field_mul(b, b)] \in Field
      BY <1>6, <3>1, <3>2
    <3>4. field_mul(rows[e \div 2][field_mul(b, b)], b) \in Field
      BY <3>3, ProductInField
    <3> QED
      BY <1>4, <2>2, <3>1, <3>3, <3>4
  <2> QED
    BY <2>1, <2>2
<1>7. exp \in S
  <2> HIDE DEF S
  <2> QED
    BY <1>5, <1>6, Induction
<1> QED
  BY <1>2, <1>7

\* Sums and differences of two elements fit the word, so that neither wraps.
LEMMA SumInField ==
  ASSUME NttAssumption, NEW x \in Field, NEW y \in Field
  PROVE  field_add(x, y) \in Field /\ field_sub(x, y) \in Field
<1>1. /\ P \in Nat \ {0} /\ x \in 0 .. P - 1 /\ y \in 0 .. P - 1
      /\ Word32 \in Nat /\ 2 * P <= Word32
  BY DEF NttAssumption, Field
<1>2. x + y \in 0 .. Word32 - 1 /\ x + P - y \in Nat /\ (x < y => x + P - y \in 0 .. P - 1)
  BY <1>1
<1>3. \A z \in 0 .. Word32 - 1 : z % Word32 = z
  BY <1>1
<1>4. (x + y) % Word32 = x + y /\ (x < y => (x + P - y) % Word32 = x + P - y)
  BY <1>1, <1>2, <1>3
<1> QED
  BY <1>1, <1>2, <1>4 DEF field_add, field_sub, Field

FieldInv ==
  /\ a \in [Index -> Field]
  /\ phase = "reverse" => i \in Nat /\ i >= 1 /\ j \in Index
  /\ phase = "levels" => \A start \in Blocks(len) : block[start].w \in Field

\* and one.
LEMMA OneInField ==
  ASSUME NttAssumption
  PROVE  1 \in Field
BY DEF NttAssumption, Field

\* A level starts with reduced factors.
LEMMA FactorsStart ==
  ASSUME NttAssumption, NEW l, block' = StartLevel(l), len' = l
  PROVE  \A start \in Blocks(len') : block'[start].w \in Field
BY OneInField DEF StartLevel, FirstButterfly

\* Bit reversal only moves elements.
LEMMA ReversingInField ==
  ASSUME NttAssumption, IInv, FieldInv, ReverseStep \/ ReverseDone
  PROVE  FieldInv'
<1>1. CASE ReverseStep
  <2>1. /\ i \in Nat /\ i >= 1 /\ i < N /\ j \in Index /\ j' = NextReversed(j)
        /\ i' = i + 1 /\ phase' = phase /\ phase = "reverse"
        /\ a' = IF i < j' THEN Swap(a, i, j') ELSE a
    BY <1>1 DEF ReverseStep, FieldInv
  <2>2. j' \in Index /\ i \in Index
    BY <2>1, ReversedInVector DEF Index, NttAssumption
  <2>3. a' \in [Index -> Field]
    BY <2>1, <2>2 DEF FieldInv, Swap
  <2> QED
    BY <2>1, <2>2, <2>3 DEF FieldInv
<1>2. CASE ReverseDone
  <2>1. a' = a /\ phase' = "levels" /\ block' = StartLevel(len) /\ len' = len
    BY <1>2 DEF ReverseDone
  <2> QED
    BY <2>1, FactorsStart DEF FieldInv
<1> QED
  BY <1>1, <1>2

\* Reading a pair keeps all elements reduced,
LEMMA ReadingInField ==
  ASSUME NttAssumption, IInv, FieldInv, phase = "levels", NEW s \in Blocks(len), ReadPair(s)
  PROVE  FieldInv'
<1>1. /\ a' = a /\ len' = len /\ phase' = phase
      /\ block' = [block EXCEPT ![s].pair = <<a[s + block[s].j], a[Partner(s, block[s].j)]>>]
  BY DEF ReadPair
<1>2. \A t \in Blocks(len) : block'[t].w = block[t].w
  BY <1>1 DEF IInv, TypeOK, LevelOK, BlockOK
<1> QED
  BY <1>1, <1>2 DEF FieldInv

\* so does writing it,
LEMMA WritingInField ==
  ASSUME NttAssumption, IInv, FieldInv, phase = "levels", NEW s \in Blocks(len), WritePair(s)
  PROVE  FieldInv'
<1> DEFINE b == block[s]
           x == b.pair[1]
           v == field_mul(b.pair[2], b.w)
           w == field_mul(b.w, Root(len))
<1>1. /\ b.pair # <<>>
      /\ a' = [a EXCEPT ![s + b.j] = field_add(x, v), ![Partner(s, b.j)] = field_sub(x, v)]
      /\ block' = [block EXCEPT ![s] = [j |-> b.j + 1, w |-> w, pair |-> <<>>]]
      /\ len' = len /\ phase' = phase
  BY DEF WritePair
<1>2. LevelOK
  BY DEF IInv, TypeOK
<1>3. b.j \in 0 .. len \div 2 /\ b.j < len \div 2
  BY <1>1, <1>2 DEF LevelOK, BlockOK
<1>4. {s + b.j, Partner(s, b.j)} \subseteq Index
  <2> HIDE DEF b
  <2> QED
    BY <1>2, <1>3, ButterflyInBlock, BlockInside
<1>5. x \in Field /\ b.pair[2] \in Field
  <2>1. b.pair = <<a[s + b.j], a[Partner(s, b.j)]>>
    BY <1>1 DEF IInv, ReadsStayCurrent
  <2> HIDE DEF b
  <2>2. b.pair[1] = a[s + b.j] /\ b.pair[2] = a[Partner(s, b.j)]
    BY <2>1
  <2> QED
    BY <1>4, <2>2 DEF FieldInv
<1>6. b.w \in Field
  BY DEF FieldInv
<1>7. Root(len) \in Field
  <2>1. P - 1 \in Nat /\ len \in Nat \ {0} /\ G \in Field
    BY <1>2 DEF NttAssumption, LevelOK, Field
  <2>2. (P - 1) \div len \in Nat
    BY <2>1
  <2> QED
    BY <2>1, <2>2, PowerInField DEF Root
<1>8. v \in Field /\ w \in Field
  <2> HIDE DEF b
  <2> QED
    BY <1>5, <1>6, <1>7, ProductInField
<1>9. field_add(x, v) \in Field /\ field_sub(x, v) \in Field
  <2> HIDE DEF x, v
  <2> QED
    BY <1>5, <1>8, SumInField
<1>10. a' \in [Index -> Field]
  <2> HIDE DEF x, v, b
  <2> QED
    BY <1>1, <1>4, <1>9 DEF FieldInv
<1>11. \A t \in Blocks(len) : block'[t].w \in Field
  <2> HIDE DEF w
  <2> QED
    BY <1>1, <1>2, <1>8 DEF FieldInv, LevelOK
<1> QED
  BY <1>1, <1>10, <1>11 DEF FieldInv

\* and the end of a level.
LEMMA LevelEndsInField ==
  ASSUME NttAssumption, IInv, FieldInv, LevelDone
  PROVE  FieldInv'
<1>1. a' = a /\ phase = "levels"
  BY DEF LevelDone
<1>2. CASE len' = 2 * len /\ block' = StartLevel(2 * len) /\ phase' = phase
  <2>1. \A start \in Blocks(len') : block'[start].w \in Field
    BY <1>2, FactorsStart
  <2> QED
    BY <1>1, <1>2, <2>1 DEF FieldInv
<1>3. CASE phase' = "done"
  BY <1>1, <1>3 DEF FieldInv
<1> QED
  BY <1>2, <1>3 DEF LevelDone

\* Every element of the vector stays reduced on the way: no sum, difference or
\* product of a butterfly leaves the field or the word (lines 32-47, 83-86), and
\* the reversed counter stays within the vector (lines 54-61).
THEOREM StaysInField == NttAssumption => (Spec => [](a \in [Index -> Field]))
<1> SUFFICES ASSUME NttAssumption PROVE Spec => [](a \in [Index -> Field])
  OBVIOUS
<1>1. Init => FieldInv
  <2> SUFFICES ASSUME Init PROVE FieldInv
    OBVIOUS
  <2>1. PICK first \in 0 .. Word32 - 1 : data = Vector(first)
    BY DEF Init
  <2>2. Word32 \in Nat \ {0} /\ P \in Nat \ {0} /\ N \in Nat \ {0}
    BY DEF NttAssumption
  <2>3. \A m \in Index : Vector(first)[m] \in Field
    <3> SUFFICES ASSUME NEW m \in Index PROVE ((first + m) % Word32) % P \in Field
      BY DEF Vector
    <3>1. first + m \in Nat
      BY <2>2 DEF Index
    <3>2. (first + m) % Word32 \in Nat
      BY <2>2, <3>1, SmallRemainder
    <3> QED
      BY <2>2, <3>2, SmallRemainder DEF Field
  <2>4. Vector(first) \in [Index -> Field]
    BY <2>3 DEF Vector
  <2>5. i = 1 /\ j = 0 /\ phase = "reverse" /\ a = data
    BY DEF Init
  <2> QED
    BY <2>1, <2>2, <2>4, <2>5 DEF FieldInv, Index
<1>2. IInv /\ FieldInv /\ [Next]_vars => FieldInv'
  <2> SUFFICES ASSUME IInv, FieldInv, [Next]_vars PROVE FieldInv'
    OBVIOUS
  <2>1. CASE UNCHANGED vars
    BY <2>1 DEF vars, FieldInv
  <2> QED
    BY <2>1, ReversingInField, ReadingInField, WritingInField, LevelEndsInField
    DEF Next, Terminating
<1>3. FieldInv => a \in [Index -> Field]
  BY DEF FieldInv
<1> QED
  BY <1>1, <1>2, <1>3, Invariance, PTL DEF Spec
=============================================================================
