------------------------------ MODULE Arithmetic ------------------------------
(***************************************************************************)
(* What the proofs of several components need of the natural numbers:      *)
(* induction, powers of two, repeated halving, functions that ask for      *)
(* their value at a smaller number, and trees that are built by halving.   *)
(*                                                                         *)
(* The provers cannot instantiate the library's induction theorems, which  *)
(* take a predicate; stated of a set, induction needs no such instance.    *)
(* They do not know exponentiation either, but the library counts the      *)
(* subsets of a finite set, and one element more doubles them.             *)
(*                                                                         *)
(* The trees are those of hashes: a row of values is halved by merging its *)
(* pairs until one is left.  Tree is the value of n leaves and a last one; *)
(* it can be split (TreeSplits), built from rows (UpAbove), or folded from *)
(* the values that wait to be merged after n leaves, one for each one in   *)
(* the digits of n (TreeFolds).                                            *)
(***************************************************************************)
EXTENDS Integers, Sequences, FiniteSetTheorems, SequenceTheorems, TLAPS

\* Every set of naturals with a member has a least one: of the finite sets
\* 0 .. n with n in S one has no other among its proper subsets.
LEMMA LeastNat ==
  ASSUME NEW S \in SUBSET Nat, S # {}
  PROVE  \E n \in S : \A m \in S : n <= m
<1> DEFINE Below == {0 .. n : n \in S}
<1>1. Below \subseteq FiniteSubsetsOf(Nat) /\ Below # {}
  <2>1. \A n \in S : 0 .. n \in SUBSET Nat /\ IsFiniteSet(0 .. n)
    BY FS_Interval
  <2> QED
    BY <2>1 DEF FiniteSubsetsOf
<1> HIDE DEF Below
<1>2. PICK T \in Below : \A U \in Below : <<U, T>> \notin StrictSubsetOrdering(Nat)
  BY <1>1, FS_StrictSubsetOrderingWellFounded, WFMin
<1>3. PICK n \in S : T = 0 .. n
  BY DEF Below
<1>4. ASSUME NEW m \in S, m < n PROVE FALSE
  <2>1. 0 .. m \in Below
    BY DEF Below
  <2>2. <<0 .. m, T>> \in StrictSubsetOrdering(Nat)
    <3>1. 0 .. m \subseteq T /\ 0 .. m # T /\ T \in SUBSET Nat /\ 0 .. m \in SUBSET Nat
      BY <1>3, <1>4
    <3> QED
      BY <3>1 DEF StrictSubsetOrdering
  <2> QED
    BY <1>2, <2>1, <2>2
<1> QED
  BY <1>4

\* Induction: S is the set of the numbers with some property.
LEMMA Induction ==
  ASSUME NEW S, 0 \in S, \A n \in Nat : n \in S => n + 1 \in S
  PROVE  \A n \in Nat : n \in S
<1> SUFFICES ASSUME Nat \ S # {} PROVE FALSE
  OBVIOUS
<1>1. PICK n \in Nat \ S : \A m \in Nat \ S : n <= m
  <2> DEFINE Out == Nat \ S
  <2> SUFFICES \E n \in Out : \A m \in Out : n <= m
    OBVIOUS
  <2>1. Out \in SUBSET Nat /\ Out # {}
    OBVIOUS
  <2> HIDE DEF Out
  <2> QED
    BY <2>1, LeastNat
<1>2. n - 1 \in Nat /\ n - 1 \in S
  BY <1>1
<1> QED
  BY <1>2

\* The same up to a limit.
LEMMA InductionTo ==
  ASSUME NEW S, NEW h \in Nat, 0 \in S, \A n \in 0 .. h - 1 : n \in S => n + 1 \in S
  PROVE  \A n \in 0 .. h : n \in S
<1> DEFINE T == {n \in Nat : n <= h => n \in S}
<1>1. 0 \in T
  OBVIOUS
<1>2. ASSUME NEW n \in Nat, n \in T PROVE n + 1 \in T
  BY <1>2
<1>3. \A n \in Nat : n \in T
  <2> HIDE DEF T
  <2> QED
    BY <1>1, <1>2, Induction
<1> QED
  BY <1>3

-----------------------------------------------------------------------------
(***************************************************************************)
(* Powers of two.                                                          *)
(***************************************************************************)
LEMMA PowerIsCount ==
  ASSUME NEW n \in Nat
  PROVE  /\ IsFiniteSet(SUBSET (1 .. n)) /\ Cardinality(SUBSET (1 .. n)) = 2 ^ n
         /\ 2 ^ n \in Nat \ {0}
<1>1. IsFiniteSet(1 .. n) /\ Cardinality(1 .. n) = n
  BY FS_Interval
<1>2. IsFiniteSet(SUBSET (1 .. n)) /\ Cardinality(SUBSET (1 .. n)) = 2 ^ n
  BY <1>1, FS_SUBSET
<1>3. Cardinality(SUBSET (1 .. n)) \in Nat /\ Cardinality(SUBSET (1 .. n)) # 0
  BY <1>2, FS_CardinalityType, FS_EmptySet
<1> QED
  BY <1>2, <1>3

\* Each power of two is twice the one before.
LEMMA PowerDoubles ==
  ASSUME NEW n \in Nat
  PROVE  2 ^ (n + 1) = 2 * 2 ^ n /\ 2 ^ n \in Nat \ {0}
<1> DEFINE Old == SUBSET (1 .. n)
           New == {T \cup {n + 1} : T \in Old}
           extend == [T \in Old |-> T \cup {n + 1}]
<1>1. \A T \in Old : n + 1 \notin T
  OBVIOUS
<1>2. extend \in Bijection(Old, New)
  <2>1. extend \in Surjection(Old, New)
    BY DEF Surjection
  <2>2. ASSUME NEW T \in Old, NEW U \in Old, extend[T] = extend[U] PROVE T = U
    <3>1. T \cup {n + 1} = U \cup {n + 1}
      BY <2>2
    <3> QED
      BY <1>1, <3>1
  <2>3. extend \in Injection(Old, New)
    BY <2>1, <2>2 DEF Injection, IsInjective, Surjection
  <2> QED
    BY <2>1, <2>3 DEF Bijection
<1>3. Old \cap New = {}
  BY <1>1
<1>4. Old \cup New = SUBSET (1 .. n + 1)
  <2>1. ASSUME NEW T \in SUBSET (1 .. n + 1) PROVE T \in Old \cup New
    <3>1. CASE n + 1 \in T
      <4>1. T \ {n + 1} \in Old /\ T = (T \ {n + 1}) \cup {n + 1}
        BY <3>1
      <4> QED
        BY <4>1
    <3>2. CASE n + 1 \notin T
      BY <3>2
    <3> QED
      BY <3>1, <3>2
  <2>2. ASSUME NEW T \in Old \cup New PROVE T \in SUBSET (1 .. n + 1)
    OBVIOUS
  <2> QED
    BY <2>1, <2>2
<1> HIDE DEF New, extend
<1>5. IsFiniteSet(Old) /\ Cardinality(Old) = 2 ^ n /\ 2 ^ n \in Nat \ {0}
  BY PowerIsCount
<1>6. Cardinality(SUBSET (1 .. n + 1)) = 2 ^ (n + 1)
  <2>1. n + 1 \in Nat
    OBVIOUS
  <2> QED
    BY <2>1, PowerIsCount
<1> HIDE DEF Old
<1>7. IsFiniteSet(New) /\ Cardinality(New) = 2 ^ n
  <2>1. ExistsBijection(Old, New)
    BY <1>2 DEF ExistsBijection
  <2> QED
    BY <1>5, <2>1, FS_Bijection
<1>8. Cardinality(Old \cup New) = Cardinality(Old) + Cardinality(New) - Cardinality({})
  BY <1>3, <1>5, <1>7, FS_Union
<1>9. 2 ^ (n + 1) = 2 ^ n + 2 ^ n - 0
  BY <1>4, <1>5, <1>6, <1>7, <1>8, FS_EmptySet
<1> QED
  BY <1>5, <1>9

-----------------------------------------------------------------------------
(***************************************************************************)
(* Halving, down and up.                                                   *)
(***************************************************************************)
LEMMA SmallRemainder ==
  ASSUME NEW a \in Nat, NEW p \in Nat \ {0}
  PROVE  a % p \in 0 .. p - 1 /\ (a < p => a % p = a)
<1>1. a % p \in 0 .. p - 1
  OBVIOUS
<1>2. ASSUME a < p PROVE a % p = a
  BY <1>2
<1> QED
  BY <1>1, <1>2

\* Halving a quotient doubles the divisor, rounded down
LEMMA HalfDownTwice ==
  ASSUME NEW a \in Nat, NEW p \in Nat \ {0}
  PROVE  (a \div p) \div 2 = a \div (2 * p)
OBVIOUS

\* or up.
LEMMA HalfUpTwice ==
  ASSUME NEW a \in Nat, NEW p \in Nat \ {0}
  PROVE  ((a + p - 1) \div p + 1) \div 2 = (a + 2 * p - 1) \div (2 * p)
OBVIOUS

-----------------------------------------------------------------------------
(***************************************************************************)
(* Recursion on halves.                                                    *)
(***************************************************************************)
\* A function of the naturals given by its value at a smaller number
ByHalves(m, D, small, base, half, step, f) ==
  /\ f \in [0 .. m -> D]
  /\ \A n \in 0 .. m : f[n] = IF n \in small THEN base[n] ELSE step[n][f[half[n]]]

\* The rule names numbers that are smaller, and values of D.
CanHalve(D, small, base, half, step) ==
  /\ \A n \in Nat : n \in small => base[n] \in D
  /\ \A n \in Nat : n \notin small => half[n] \in Nat /\ half[n] < n
  /\ \A n \in Nat : n \notin small => \A x \in D : step[n][x] \in D

\* The function it defines on all the naturals
Halved(D, small, base, half, step, f) ==
  /\ f \in [Nat -> D]
  /\ \A n \in Nat : f[n] = IF n \in small THEN base[n] ELSE step[n][f[half[n]]]

\* Two functions that follow one rule agree where both are defined.
LEMMA HalvesAgree ==
  ASSUME NEW D, NEW small, NEW base, NEW half, NEW step,
         \A n \in Nat : n \notin small => half[n] \in Nat /\ half[n] < n,
         NEW m \in Nat, NEW f, ByHalves(m, D, small, base, half, step, f),
         NEW k \in Nat, NEW g, ByHalves(k, D, small, base, half, step, g)
  PROVE  \A n \in 0 .. m : n <= k => f[n] = g[n]
<1> DEFINE Same == {n \in Nat : \A i \in 0 .. n : i <= m /\ i <= k => f[i] = g[i]}
<1>1. 0 \in Same
  <2>1. 0 \in small
    OBVIOUS
  <2> QED
    BY <2>1 DEF ByHalves
<1>2. ASSUME NEW n \in Nat, n \in Same PROVE n + 1 \in Same
  <2> SUFFICES ASSUME n + 1 <= m, n + 1 <= k PROVE f[n + 1] = g[n + 1]
    BY <1>2
  <2>1. CASE n + 1 \in small
    BY <2>1 DEF ByHalves
  <2>2. CASE n + 1 \notin small
    <3>1. half[n + 1] \in 0 .. n
      BY <2>2
    <3>2. f[half[n + 1]] = g[half[n + 1]]
      BY <1>2, <3>1
    <3> QED
      BY <2>2, <3>1, <3>2 DEF ByHalves
  <2> QED
    BY <2>1, <2>2
<1>3. \A n \in Nat : n \in Same
  <2> HIDE DEF Same
  <2> QED
    BY <1>1, <1>2, Induction
<1> QED
  BY <1>3

\* A rule by which a number asks for a smaller one defines a function.
LEMMA HalvesExist ==
  ASSUME NEW D, NEW small, NEW base, NEW half, NEW step, CanHalve(D, small, base, half, step)
  PROVE  \E f : Halved(D, small, base, half, step, f)
<1> SUFFICES ASSUME \A n \in Nat : n \in small => base[n] \in D,
                    \A n \in Nat : n \notin small => half[n] \in Nat /\ half[n] < n,
                    \A n \in Nat : n \notin small => \A x \in D : step[n][x] \in D
             PROVE  \E f : Halved(D, small, base, half, step, f)
  BY DEF CanHalve
<1> DEFINE S == {m \in Nat : \E f : ByHalves(m, D, small, base, half, step, f)}
<1>1. 0 \in S
  <2>1. 0 \in small
    OBVIOUS
  <2> DEFINE f == [n \in 0 .. 0 |-> base[0]]
  <2>2. ByHalves(0, D, small, base, half, step, f)
    BY <2>1 DEF ByHalves
  <2> QED
    BY <2>2
<1>2. ASSUME NEW m \in Nat, m \in S PROVE m + 1 \in S
  <2>1. PICK f : ByHalves(m, D, small, base, half, step, f)
    BY <1>2
  <2> DEFINE v == IF m + 1 \in small THEN base[m + 1] ELSE step[m + 1][f[half[m + 1]]]
             g == [n \in 0 .. m + 1 |-> IF n <= m THEN f[n] ELSE v]
  <2>2. v \in D
    <3>1. CASE m + 1 \in small
      BY <3>1
    <3>2. CASE m + 1 \notin small
      <4>1. half[m + 1] \in 0 .. m
        BY <3>2
      <4>2. f[half[m + 1]] \in D
        BY <2>1, <4>1 DEF ByHalves
      <4> QED
        BY <3>2, <4>2
    <3> QED
      BY <3>1, <3>2
  <2>3. (\A n \in 0 .. m : g[n] = f[n]) /\ g[m + 1] = v
    <3> HIDE DEF v
    <3> QED
      OBVIOUS
  <2>4. g \in [0 .. m + 1 -> D]
    <3> HIDE DEF v
    <3> QED
      BY <2>1, <2>2 DEF ByHalves
  <2> HIDE DEF g
  <2>5. ASSUME NEW n \in 0 .. m + 1
        PROVE  g[n] = IF n \in small THEN base[n] ELSE step[n][g[half[n]]]
    <3>1. n \notin small => half[n] \in 0 .. m
      OBVIOUS
    <3>2. n \notin small => g[half[n]] = f[half[n]]
      BY <2>3, <3>1
    <3>3. CASE n <= m
      <4>1. n \in 0 .. m /\ g[n] = f[n]
        BY <2>3, <3>3
      <4> QED
        BY <2>1, <3>2, <4>1 DEF ByHalves
    <3>4. CASE n = m + 1
      BY <2>3, <3>2, <3>4
    <3> QED
      BY <3>3, <3>4
  <2>6. ByHalves(m + 1, D, small, base, half, step, g)
    BY <2>4, <2>5 DEF ByHalves
  <2> QED
    BY <2>6
<1>3. \A m \in Nat : \E f : ByHalves(m, D, small, base, half, step, f)
  <2>1. \A m \in Nat : m \in S
    <3> HIDE DEF S
    <3> QED
      BY <1>1, <1>2, Induction
  <2> QED
    BY <2>1
<1> DEFINE part_[m \in Nat] == CHOOSE f : ByHalves(m, D, small, base, half, step, f)
           all == [n \in Nat |-> part_[n][n]]
<1>4. \A m \in Nat : ByHalves(m, D, small, base, half, step, part_[m])
  BY <1>3
<1> HIDE DEF part_
<1>5. all \in [Nat -> D]
  BY <1>4 DEF ByHalves
<1>6. ASSUME NEW n \in Nat
      PROVE  all[n] = IF n \in small THEN base[n] ELSE step[n][all[half[n]]]
  <2>1. all[n] = IF n \in small THEN base[n] ELSE step[n][part_[n][half[n]]]
    BY <1>4 DEF ByHalves
  <2>2. CASE n \notin small
    <3> DEFINE k == half[n]
    <3>1. k \in Nat /\ k < n
      BY <2>2
    <3>2. ByHalves(n, D, small, base, half, step, part_[n])
          /\ ByHalves(k, D, small, base, half, step, part_[k])
      BY <1>4, <3>1
    <3> HIDE DEF k
    <3>3. part_[k][k] = part_[n][k]
      <4>1. \A i \in 0 .. k : i <= n => part_[k][i] = part_[n][i]
        <5> DEFINE f == part_[k]
                   g == part_[n]
        <5>1. ByHalves(k, D, small, base, half, step, f)
              /\ ByHalves(n, D, small, base, half, step, g)
          BY <3>2
        <5> HIDE DEF f, g
        <5>2. \A i \in 0 .. k : i <= n => f[i] = g[i]
          BY <3>1, <5>1, HalvesAgree
        <5> QED
          BY <5>2 DEF f, g
      <4> QED
        BY <3>1, <4>1
    <3>4. all[k] = part_[n][k]
      BY <3>1, <3>3
    <3> QED
      BY <2>1, <2>2, <3>4 DEF k
  <2> QED
    BY <2>1, <2>2
<1>7. Halved(D, small, base, half, step, all)
  <2> HIDE DEF all
  <2> QED
    BY <1>5, <1>6 DEF Halved
<1> QED
  BY <1>7

(***************************************************************************)
(* Sequences.                                                              *)
(***************************************************************************)

\* Two sequences, one after the other.
LEMMA Joined ==
  ASSUME NEW S, NEW a \in Seq(S), NEW b \in Seq(S)
  PROVE  /\ a \o b \in Seq(S) /\ Len(a) \in Nat /\ Len(b) \in Nat
         /\ Len(a \o b) = Len(a) + Len(b)
         /\ \A i \in 1 .. Len(a) : (a \o b)[i] = a[i]
         /\ \A i \in 1 .. Len(b) : (a \o b)[i + Len(a)] = b[i]
OBVIOUS

\* A part of a sequence.
LEMMA Part ==
  ASSUME NEW S, NEW s \in Seq(S), NEW a \in Nat, NEW b \in Nat,
         1 <= a, a <= b + 1, b <= Len(s)
  PROVE  /\ SubSeq(s, a, b) \in Seq(S)
         /\ Len(SubSeq(s, a, b)) = b - a + 1
         /\ \A i \in 1 .. b - a + 1 : SubSeq(s, a, b)[i] = s[a + i - 1]
OBVIOUS

\* Nothing, as input or as buffer.
LEMMA EmptyIs == <<>> \in Seq(Nat) /\ Len(<<>>) = 0
OBVIOUS

\* Equal sequences
LEMMA SameSeq ==
  ASSUME NEW S, NEW a \in Seq(S), NEW b \in Seq(S), Len(a) = Len(b),
         \A i \in 1 .. Len(a) : a[i] = b[i]
  PROVE  a = b
OBVIOUS

\* The last two values, and what waits below them
Pushed(V, st, low, x) == st = Append(low, x) /\ low \in Seq(V) /\ x \in V /\ Len(st) = Len(low) + 1

\* A stack that is not empty has a last value.
LEMMA LastPushed ==
  ASSUME NEW V, NEW st \in Seq(V), Len(st) # 0
  PROVE  \E low, x : Pushed(V, st, low, x)
<1> DEFINE n == Len(st) - 1
           low == SubSeq(st, 1, n)
           x == st[n + 1]
<1>1. n \in Nat /\ n + 1 = Len(st)
  OBVIOUS
<1>2. x \in V /\ low \in Seq(V) /\ Len(low) = n /\ (\A i \in 1 .. n : low[i] = st[i])
  <2>1. 1 <= 1 /\ 1 <= n + 1 /\ n <= Len(st) /\ 1 \in Nat
    BY <1>1
  <2>2. /\ low \in Seq(V) /\ Len(low) = n - 1 + 1
        /\ \A i \in 1 .. n - 1 + 1 : low[i] = st[1 + i - 1]
    BY <1>1, <2>1, Part
  <2>3. x \in V
    BY <1>1
  <2>4. n - 1 + 1 = n /\ \A i \in 1 .. n : 1 + i - 1 = i
    BY <1>1
  <2> HIDE DEF n, low
  <2> QED
    BY <2>2, <2>3, <2>4
<1> HIDE DEF low, x, n
<1>3. Append(low, x) \in Seq(V) /\ Len(Append(low, x)) = n + 1
  BY <1>1, <1>2
<1>4. ASSUME NEW i \in 1 .. Len(st) PROVE Append(low, x)[i] = st[i]
  <2>1. CASE i <= n
    BY <1>1, <1>2, <2>1
  <2>2. CASE i = n + 1
    BY <1>1, <1>2, <2>2 DEF x
  <2>3. i \in 1 .. n + 1
    BY <1>1
  <2>4. i <= n \/ i = n + 1
    BY <1>1, <2>3
  <2> QED
    BY <2>1, <2>2, <2>4, Zenon
<1>5. st = Append(low, x)
  BY <1>1, <1>3, <1>4, SameSeq
<1>6. Pushed(V, st, low, x)
  BY <1>1, <1>2, <1>5 DEF Pushed
<1> QED
  BY <1>6

(***************************************************************************)
(* Powers and quotients.                                                   *)
(***************************************************************************)

LEMMA DivideIs ==
  ASSUME NEW a \in Nat, NEW l \in Nat \ {0}
  PROVE  /\ a \div l \in Nat
         /\ a - (a \div l) * l \in 0 .. l - 1
OBVIOUS

\* Quotient and remainder are the only ones.
LEMMA DivideOnly ==
  ASSUME NEW l \in Nat \ {0}, NEW q \in Nat, NEW r \in 0 .. l - 1
  PROVE  (q * l + r) \div l = q /\ (q * l + r) % l = r
OBVIOUS

\* Powers of two grow with the exponent.
LEMMA PowersOfTwoRise ==
  ASSUME NEW a \in Nat, NEW b \in Nat, a <= b
  PROVE  2 ^ a <= 2 ^ b
<1> DEFINE S == {n \in Nat : 2 ^ a <= 2 ^ (a + n)}
<1>1. 0 \in S
  <2>0. 2 ^ a \in Nat
    BY PowerIsCount, Zenon
  <2>1. 2 ^ a <= 2 ^ a
    BY <2>0
  <2>2. a + 0 = a
    OBVIOUS
  <2> QED
    BY <2>1, <2>2
<1>2. ASSUME NEW n \in Nat, n \in S PROVE n + 1 \in S
  <2> DEFINE k == a + n
  <2>1. k \in Nat /\ a + (n + 1) = k + 1
    OBVIOUS
  <2>2. 2 ^ a <= 2 ^ k
    BY <1>2
  <2> HIDE DEF k
  <2>3. 2 ^ (k + 1) = 2 * 2 ^ k /\ 2 ^ k \in Nat /\ 2 ^ a \in Nat
    BY <2>1, PowerDoubles, PowerIsCount
  <2>4. 2 ^ a <= 2 ^ (k + 1)
    BY <2>2, <2>3
  <2> QED
    BY <2>1, <2>4
<1>3. \A n \in Nat : n \in S
  <2> HIDE DEF S
  <2> QED
    BY <1>1, <1>2, Induction
<1>4. b - a \in Nat /\ a + (b - a) = b
  OBVIOUS
<1>5. b - a \in S
  <2> HIDE DEF S
  <2> QED
    BY <1>3, <1>4
<1> QED
  BY <1>4, <1>5

\* A common factor does not matter to which number is less.
LEMMA Cancelled ==
  ASSUME NEW l \in Nat \ {0}, NEW a \in Nat, NEW b \in Nat
  PROVE  /\ a * l < b * l <=> a < b
         /\ a * l <= b * l <=> a <= b
         /\ a * l \in Nat
OBVIOUS

\* A common factor cancels.
LEMMA Cancels ==
  ASSUME NEW l \in Nat \ {0}, NEW a \in Nat, NEW b \in Nat, a * l = b * l
  PROVE  a = b
OBVIOUS

\* Powers multiply.
PowersMultiply(a, b) == 2 ^ (a + b) = 2 ^ a * 2 ^ b

\* By induction on the second exponent
LEMMA PowersAdd ==
  ASSUME NEW a \in Nat, NEW b \in Nat
  PROVE  PowersMultiply(a, b)
<1> DEFINE S == {n \in Nat : PowersMultiply(a, n)}
<1>1. 0 \in S
  <2>1. 2 ^ a \in Nat
    BY PowerIsCount, Zenon
  <2>2. 2 ^ 0 = 1
    BY PowerIsCount, SMT
  <2> DEFINE z == 0
             p == 2 ^ a
  <2>3. a + z = a /\ z \in Nat
    OBVIOUS
  <2>4. p * 1 = p
    BY <2>1
  <2>5. 2 ^ z = 1
    BY <2>2
  <2> HIDE DEF z, p
  <2>6. PowersMultiply(a, z)
    BY <2>3, <2>4, <2>5 DEF PowersMultiply, p
  <2> QED
    BY <2>3, <2>6 DEF z
<1>2. ASSUME NEW n \in Nat, n \in S PROVE n + 1 \in S
  <2> DEFINE n1 == n + 1
             k == a + n
             p == 2 ^ a
             q == 2 ^ n
  <2>1. n1 \in Nat /\ k \in Nat /\ a + n1 = k + 1
    OBVIOUS
  <2>2. 2 ^ k = p * q
    BY <1>2 DEF PowersMultiply
  <2>3. 2 ^ n1 = 2 * q
    BY PowerDoubles
  <2>4. p \in Nat /\ q \in Nat
    BY PowerIsCount, Zenon
  <2> HIDE DEF k, p, q
  <2>5. 2 ^ (k + 1) = 2 * 2 ^ k
    BY <2>1, PowerDoubles
  <2>6. 2 * (p * q) = p * (2 * q)
    BY <2>4
  <2> HIDE DEF n1
  <2>7. PowersMultiply(a, n1)
    BY <2>1, <2>2, <2>3, <2>5, <2>6 DEF PowersMultiply, p
  <2> QED
    BY <2>1, <2>7 DEF n1
<1>3. \A n \in Nat : n \in S
  <2> HIDE DEF S
  <2> QED
    BY <1>1, <1>2, Induction
<1> QED
  BY <1>3

(***************************************************************************)
(* Loops of a known number of turns.                                       *)
(***************************************************************************)

\* A loop of n turns over states of D exists.
Iterated(D, a, step, n, f) ==
  /\ f \in [0 .. n -> D]
  /\ f[0] = a
  /\ \A i \in 1 .. n : f[i] = step[f[i - 1]]

\* From any state, for any number of turns.
LEMMA Iterates ==
  ASSUME NEW D, NEW a \in D, NEW step \in [D -> D], NEW n \in Nat
  PROVE  \E f : Iterated(D, a, step, n, f)
<1> DEFINE small == {0}
           base == [i \in Nat |-> a]
           half == [i \in Nat |-> i - 1]
           turn == [i \in Nat |-> step]
<1>1. \A i \in Nat : i \in small => base[i] \in D
  OBVIOUS
<1>2. \A i \in Nat : i \notin small => half[i] \in Nat /\ half[i] < i
  OBVIOUS
<1>3. \A i \in Nat : i \notin small => \A x \in D : turn[i][x] \in D
  OBVIOUS
<1>4. PICK f : Halved(D, small, base, half, turn, f)
  <2> HIDE DEF small, base, half, turn
  <2> QED
    BY <1>1, <1>2, <1>3, HalvesExist, Zenon DEF CanHalve
<1> DEFINE g == [i \in 0 .. n |-> f[i]]
<1>5. g \in [0 .. n -> D] /\ g[0] = a
  BY <1>4 DEF Halved
<1>6. ASSUME NEW i \in 1 .. n PROVE g[i] = step[g[i - 1]]
  <2>1. i \in Nat /\ i \notin small /\ half[i] = i - 1 /\ turn[i] = step
        /\ i \in 0 .. n /\ i - 1 \in 0 .. n
    OBVIOUS
  <2>2. f[i] = step[f[i - 1]]
    <3> HIDE DEF small, base, half, turn
    <3> QED
      BY <1>4, <2>1 DEF Halved
  <2> QED
    BY <2>1, <2>2
<1>7. Iterated(D, a, step, n, g)
  <2> HIDE DEF g
  <2> QED
    BY <1>5, <1>6 DEF Iterated
<1> QED
  BY <1>7

\* Places that a loop goes through, each beyond the one before until the end
Advance(m, next, p) ==
  /\ p \in [0 .. m -> 0 .. m]
  /\ p[0] = 0
  /\ \A i \in 1 .. m : p[i] = next[p[i - 1]]
  /\ p[m] = m

\* In m turns a loop that advances in each turn has come to place m.
LEMMA Advances ==
  ASSUME NEW m \in Nat, NEW next \in [0 .. m -> 0 .. m], next[m] = m,
         \A x \in 0 .. m : x # m => next[x] > x
  PROVE  \E p : Advance(m, next, p)
<1> DEFINE D == 0 .. m
<1>1. 0 \in D
  OBVIOUS
<1>2. PICK p : Iterated(D, 0, next, m, p)
  <2>1. next \in [D -> D]
    OBVIOUS
  <2> HIDE DEF D
  <2> QED
    BY <1>1, <2>1, Iterates
<1>3. p \in [0 .. m -> 0 .. m] /\ p[0] = 0 /\ \A i \in 1 .. m : p[i] = next[p[i - 1]]
  BY <1>2, Zenon DEF Iterated
<1> DEFINE S == {i \in Nat : i <= m => p[i] >= i}
<1>4. 0 \in S
  BY <1>3
<1>5. ASSUME NEW i \in Nat, i \in S PROVE i + 1 \in S
  <2> SUFFICES ASSUME i + 1 <= m PROVE p[i + 1] >= i + 1
    OBVIOUS
  <2> DEFINE j == i + 1
  <2>1. j \in 1 .. m /\ j - 1 = i /\ i \in 0 .. m
    OBVIOUS
  <2> HIDE DEF j
  <2>2. p[j] = next[p[i]] /\ p[i] >= i /\ p[i] \in 0 .. m
    BY <1>3, <1>5, <2>1
  <2>3. p[j] >= j
    <3>1. CASE p[i] = m
      BY <2>1, <2>2, <3>1
    <3>2. CASE p[i] # m
      <4>1. next[p[i]] > p[i] /\ next[p[i]] \in 0 .. m
        BY <2>2, <3>2, Zenon
      <4> QED
        BY <2>1, <2>2, <4>1
    <3> QED
      BY <3>1, <3>2
  <2> QED
    BY <2>3 DEF j
<1>6. \A i \in Nat : i \in S
  <2> HIDE DEF S
  <2> QED
    BY <1>4, <1>5, Induction, Zenon
<1>7. p[m] = m
  <2>1. m \in S
    BY <1>6
  <2> QED
    BY <1>3, <2>1
<1> QED
  BY <1>3, <1>7, Zenon DEF Advance

(***************************************************************************)
(* Rows of values, and the trees over them.                                *)
(***************************************************************************)

\* Values one after the other, without end
Row(V) == [Nat -> V]

\* The row above: the parents of the pairs, when merge[a][b] is the parent
\* of a and b
Above(merge, row) == [i \in Nat |-> merge[row[2 * i]][row[2 * i + 1]]]

\* It is a row too.
LEMMA AboveIs ==
  ASSUME NEW V, NEW merge \in [V -> [V -> V]], NEW row \in Row(V)
  PROVE  /\ Above(merge, row) \in Row(V)
         /\ \A i \in Nat : Above(merge, row)[i] = merge[row[2 * i]][row[2 * i + 1]]
<1>1. \A i \in Nat : merge[row[2 * i]][row[2 * i + 1]] \in V
  <2> SUFFICES ASSUME NEW i \in Nat PROVE merge[row[2 * i]][row[2 * i + 1]] \in V
    OBVIOUS
  <2>1. row[2 * i] \in V /\ row[2 * i + 1] \in V
    BY DEF Row
  <2> QED
    BY <2>1
<1> QED
  BY <1>1 DEF Above, Row

\* The n-th row above
Rising(V, merge, f) ==
  /\ f \in [Nat -> [Row(V) -> Row(V)]]
  /\ \A n \in Nat, row \in Row(V) :
       f[n][row] = IF n = 0 THEN row ELSE f[n - 1][Above(merge, row)]

\* The rows above, by height
Up(V, merge) == CHOOSE f : Rising(V, merge, f)

\* There are rows above at every height (a definition by induction, see Halved).
LEMMA UpIs ==
  ASSUME NEW V, NEW merge \in [V -> [V -> V]]
  PROVE  Rising(V, merge, Up(V, merge))
<1> DEFINE D == [Row(V) -> Row(V)]
           small == {0}
           base == [n \in Nat |-> [row \in Row(V) |-> row]]
           half == [n \in Nat |-> n - 1]
           step == [n \in Nat |-> [g \in D |-> [row \in Row(V) |-> g[Above(merge, row)]]]]
<1>1. \A n \in Nat : n \in small => base[n] \in D
  OBVIOUS
<1>2. \A n \in Nat : n \notin small => half[n] \in Nat /\ half[n] < n
  OBVIOUS
<1>3. \A n \in Nat : n \notin small => \A g \in D : step[n][g] \in D
  BY AboveIs
<1>4. PICK f : Halved(D, small, base, half, step, f)
  <2> HIDE DEF D, small, base, half, step
  <2> QED
    BY <1>1, <1>2, <1>3, HalvesExist, Zenon DEF CanHalve
<1>5. ASSUME NEW n \in Nat, NEW row \in Row(V)
      PROVE  f[n][row] = IF n = 0 THEN row ELSE f[n - 1][Above(merge, row)]
  <2>1. f[n] = IF n \in small THEN base[n] ELSE step[n][f[half[n]]]
    BY <1>4, Zenon DEF Halved
  <2>2. CASE n = 0
    BY <2>1, <2>2
  <2>3. CASE n # 0
    <3>1. f[n] = step[n][f[n - 1]] /\ n - 1 \in Nat
      <4>1. half[n] = n - 1 /\ n \notin small /\ n - 1 \in Nat
        BY <2>3
      <4> HIDE DEF half, small, step
      <4> QED
        BY <2>1, <4>1
    <3>2. f[n - 1] \in D
      BY <1>4, <3>1 DEF Halved
    <3>3. step[n][f[n - 1]] = [r \in Row(V) |-> f[n - 1][Above(merge, r)]]
      BY <3>2
    <3> QED
      BY <2>3, <3>1, <3>3
  <2> QED
    BY <2>2, <2>3
<1>6. f \in [Nat -> D]
  BY <1>4 DEF Halved
<1> QED
  BY <1>5, <1>6, Zenon DEF Up, Rising

\* The chaining values that wait for their right siblings when n leaves are
\* complete, the tallest subtree's first: one for each one of n
Waiting(V, merge, f) ==
  /\ f \in [Nat -> [Row(V) -> Seq(V)]]
  /\ \A n \in Nat, row \in Row(V) :
       f[n][row] = IF n = 0 THEN <<>>
                   ELSE IF n % 2 = 1 THEN Append(f[n \div 2][Above(merge, row)], row[n - 1])
                   ELSE f[n \div 2][Above(merge, row)]

\* What waits, by the number of leaves
Waits(V, merge) == CHOOSE f : Waiting(V, merge, f)

\* It exists for every number of leaves.
LEMMA WaitsIs ==
  ASSUME NEW V, NEW merge \in [V -> [V -> V]]
  PROVE  Waiting(V, merge, Waits(V, merge))
<1> DEFINE D == [Row(V) -> Seq(V)]
           small == {0}
           base == [n \in Nat |-> [row \in Row(V) |-> <<>>]]
           half == [n \in Nat |-> n \div 2]
           step == [n \in Nat |-> [g \in D |-> [row \in Row(V) |->
                      IF n % 2 = 1 THEN Append(g[Above(merge, row)], row[n - 1])
                      ELSE g[Above(merge, row)]]]]
<1>1. \A n \in Nat : n \in small => base[n] \in D
  OBVIOUS
<1>2. \A n \in Nat : n \notin small => half[n] \in Nat /\ half[n] < n
  OBVIOUS
<1>3. ASSUME NEW n \in Nat, n \notin small, NEW g \in D PROVE step[n][g] \in D
  <2>1. \A row \in Row(V) : g[Above(merge, row)] \in Seq(V) /\ row[n - 1] \in V
    BY <1>3, AboveIs DEF Row
  <2> QED
    BY <2>1
<1>4. PICK f : Halved(D, small, base, half, step, f)
  <2> HIDE DEF D, small, base, half, step
  <2> QED
    BY <1>1, <1>2, <1>3, HalvesExist, Zenon DEF CanHalve
<1>5. ASSUME NEW n \in Nat, NEW row \in Row(V)
      PROVE  f[n][row] = IF n = 0 THEN <<>>
                   ELSE IF n % 2 = 1 THEN Append(f[n \div 2][Above(merge, row)], row[n - 1])
                   ELSE f[n \div 2][Above(merge, row)]
  <2>1. f[n] = IF n \in small THEN base[n] ELSE step[n][f[half[n]]]
    BY <1>4, Zenon DEF Halved
  <2>2. CASE n = 0
    BY <2>1, <2>2
  <2>3. CASE n # 0
    <3>1. f[n] = step[n][f[n \div 2]] /\ n \div 2 \in Nat
      <4>1. n \notin small /\ half[n] = n \div 2 /\ n \div 2 \in Nat
        BY <2>3
      <4> HIDE DEF small, half, step, base
      <4> QED
        BY <2>1, <4>1
    <3>2. f[n \div 2] \in D
      <4>1. f \in [Nat -> D]
        BY <1>4, Zenon DEF Halved
      <4> HIDE DEF D
      <4> QED
        BY <3>1, <4>1
    <3>3. step[n][f[n \div 2]] = [r \in Row(V) |->
                      IF n % 2 = 1 THEN Append(f[n \div 2][Above(merge, r)], r[n - 1])
                      ELSE f[n \div 2][Above(merge, r)]]
      BY <3>2, Zenon
    <3> QED
      BY <2>3, <3>1, <3>3, Zenon
  <2> QED
    BY <2>2, <2>3
<1>6. f \in [Nat -> D]
  BY <1>4 DEF Halved
<1> QED
  BY <1>5, <1>6, Zenon DEF Waits, Waiting

\* The value of the tree over n leaves of the row and a last one, last: what
\* waits is merged with it, the nearest first
Growing(V, merge, f) ==
  /\ f \in [Nat -> [Row(V) -> [V -> V]]]
  /\ \A n \in Nat, row \in Row(V), last \in V :
       f[n][row][last] =
         IF n = 0 THEN last
         ELSE IF n % 2 = 1 THEN f[n \div 2][Above(merge, row)][merge[row[n - 1]][last]]
         ELSE f[n \div 2][Above(merge, row)][last]

\* The tree's value, by the number of leaves
Tree(V, merge) == CHOOSE f : Growing(V, merge, f)

\* It exists for every number of leaves.
LEMMA TreeIs ==
  ASSUME NEW V, NEW merge \in [V -> [V -> V]]
  PROVE  Growing(V, merge, Tree(V, merge))
<1> DEFINE D == [Row(V) -> [V -> V]]
           small == {0}
           base == [n \in Nat |-> [row \in Row(V) |-> [x \in V |-> x]]]
           half == [n \in Nat |-> n \div 2]
           step == [n \in Nat |-> [g \in D |-> [row \in Row(V) |-> [x \in V |->
                      IF n % 2 = 1 THEN g[Above(merge, row)][merge[row[n - 1]][x]]
                      ELSE g[Above(merge, row)][x]]]]]
<1>1. \A n \in Nat : n \in small => base[n] \in D
  OBVIOUS
<1>2. \A n \in Nat : n \notin small => half[n] \in Nat /\ half[n] < n
  OBVIOUS
<1>3. ASSUME NEW n \in Nat, n \notin small, NEW g \in D PROVE step[n][g] \in D
  <2>1. ASSUME NEW row \in Row(V), NEW x \in V
        PROVE  /\ g[Above(merge, row)] \in [V -> V]
               /\ merge[row[n - 1]][x] \in V
    <3>1. row[n - 1] \in V
      BY <1>3 DEF Row
    <3> QED
      BY <3>1, AboveIs
  <2>2. \A row \in Row(V), x \in V :
          (IF n % 2 = 1 THEN g[Above(merge, row)][merge[row[n - 1]][x]]
           ELSE g[Above(merge, row)][x]) \in V
    BY <2>1, Zenon
  <2> QED
    BY <2>2
<1>4. PICK f : Halved(D, small, base, half, step, f)
  <2> HIDE DEF D, small, base, half, step
  <2> QED
    BY <1>1, <1>2, <1>3, HalvesExist, Zenon DEF CanHalve
<1>5. ASSUME NEW n \in Nat, NEW row \in Row(V), NEW x \in V
      PROVE  f[n][row][x] =
         IF n = 0 THEN x
         ELSE IF n % 2 = 1 THEN f[n \div 2][Above(merge, row)][merge[row[n - 1]][x]]
         ELSE f[n \div 2][Above(merge, row)][x]
  <2>1. f[n] = IF n \in small THEN base[n] ELSE step[n][f[half[n]]]
    BY <1>4, Zenon DEF Halved
  <2>2. CASE n = 0
    BY <2>1, <2>2
  <2>3. CASE n # 0
    <3>1. f[n] = step[n][f[n \div 2]] /\ n \div 2 \in Nat
      <4>1. n \notin small /\ half[n] = n \div 2 /\ n \div 2 \in Nat
        BY <2>3
      <4> HIDE DEF small, half, step, base
      <4> QED
        BY <2>1, <4>1
    <3>2. f[n \div 2] \in D
      <4>1. f \in [Nat -> D]
        BY <1>4, Zenon DEF Halved
      <4> HIDE DEF D
      <4> QED
        BY <3>1, <4>1
    <3>3. step[n][f[n \div 2]] = [r \in Row(V) |-> [y \in V |->
                      IF n % 2 = 1 THEN f[n \div 2][Above(merge, r)][merge[r[n - 1]][y]]
                      ELSE f[n \div 2][Above(merge, r)][y]]]
      BY <3>2, Zenon
    <3>4. f[n][row] = [y \in V |->
                      IF n % 2 = 1 THEN f[n \div 2][Above(merge, row)][merge[row[n - 1]][y]]
                      ELSE f[n \div 2][Above(merge, row)][y]]
      BY <3>1, <3>3, Zenon
    <3> QED
      BY <2>3, <3>4
  <2> QED
    BY <2>2, <2>3
<1>6. f \in [Nat -> D]
  BY <1>4 DEF Halved
<1>7. Growing(V, merge, f)
  BY <1>5, <1>6, Zenon DEF Growing
<1> QED
  BY <1>7 DEF Tree

\* The row from its k-th value on
Shifted(row, k) == [i \in Nat |-> row[k + i]]

\* It is a row too.
LEMMA ShiftedIs ==
  ASSUME NEW V, NEW row \in Row(V), NEW k \in Nat
  PROVE  Shifted(row, k) \in Row(V) /\ \A i \in Nat : Shifted(row, k)[i] = row[k + i]
BY DEF Shifted, Row

\* An even number of values skipped are half as many pairs.
LEMMA AboveShifted ==
  ASSUME NEW V, NEW merge \in [V -> [V -> V]], NEW row \in Row(V), NEW k \in Nat
  PROVE  Above(merge, Shifted(row, 2 * k)) = Shifted(Above(merge, row), k)
<1>1. 2 * k \in Nat
  OBVIOUS
<1>2. ASSUME NEW i \in Nat
      PROVE  Above(merge, Shifted(row, 2 * k))[i] = Shifted(Above(merge, row), k)[i]
  <2>1. /\ Shifted(row, 2 * k)[2 * i] = row[2 * (k + i)]
        /\ Shifted(row, 2 * k)[2 * i + 1] = row[2 * (k + i) + 1]
    <3>1. 2 * k + 2 * i = 2 * (k + i) /\ 2 * k + (2 * i + 1) = 2 * (k + i) + 1
      OBVIOUS
    <3> QED
      BY <3>1 DEF Shifted
  <2>2. k + i \in Nat
    OBVIOUS
  <2> QED
    BY <2>1, <2>2 DEF Above, Shifted
<1> QED
  BY <1>2 DEF Above, Shifted

\* Induction by doubling: from n to 2n and 2n + 1.
LEMMA Doubling ==
  ASSUME NEW S, 0 \in S, \A n \in Nat : n \in S => 2 * n \in S /\ 2 * n + 1 \in S
  PROVE  \A n \in Nat : n \in S
<1> DEFINE T == {m \in Nat : \A n \in 0 .. m : n \in S}
<1>1. 0 \in T
  OBVIOUS
<1>2. ASSUME NEW m \in Nat, m \in T PROVE m + 1 \in T
  <2> DEFINE h == (m + 1) \div 2
  <2>1. h \in 0 .. m /\ (m + 1 = 2 * h \/ m + 1 = 2 * h + 1)
    OBVIOUS
  <2>2. h \in S /\ h \in Nat
    BY <1>2, <2>1
  <2> HIDE DEF h
  <2>3. m + 1 \in S
    BY <2>1, <2>2
  <2> QED
    BY <1>2, <2>3
<1>3. \A m \in Nat : m \in T
  <2> HIDE DEF T
  <2> QED
    BY <1>1, <1>2, Induction
<1>4. \A m \in Nat : m \in 0 .. m
  OBVIOUS
<1> QED
  BY <1>3, <1>4, Zenon

\* The tree over an even and an odd number of leaves
ByPairs(V, merge, tree) ==
  \A row \in Row(V), last \in V :
    /\ tree[0][row][last] = last
    /\ \A n \in Nat :
         /\ tree[n][row][last] \in V
         /\ tree[2 * n][row][last] = tree[n][Above(merge, row)][last]
         /\ tree[2 * n + 1][row][last] = tree[n][Above(merge, row)][merge[row[2 * n]][last]]

\* The tree's value is known from the row above, which has half as many leaves.
LEMMA TreeGrows ==
  ASSUME NEW V, NEW merge \in [V -> [V -> V]]
  PROVE  ByPairs(V, merge, Tree(V, merge))
<1> SUFFICES ASSUME NEW row \in Row(V), NEW last \in V
             PROVE  /\ Tree(V, merge)[0][row][last] = last
                    /\ \A n \in Nat :
                        /\ Tree(V, merge)[n][row][last] \in V
                        /\ Tree(V, merge)[2 * n][row][last]
                             = Tree(V, merge)[n][Above(merge, row)][last]
                        /\ Tree(V, merge)[2 * n + 1][row][last]
                             = Tree(V, merge)[n][Above(merge, row)][merge[row[2 * n]][last]]
  BY DEF ByPairs
<1> DEFINE tree == Tree(V, merge)
           a == Above(merge, row)
<1>1. Growing(V, merge, tree)
  BY TreeIs
<1> HIDE DEF tree
<1>2. a \in Row(V)
  BY AboveIs
<1>3. tree[0][row][last] = last /\ tree[0][a][last] = last
  BY <1>1, <1>2 DEF Growing
<1>4. ASSUME NEW n \in Nat
      PROVE  /\ tree[n][row][last] \in V
             /\ tree[2 * n][row][last] = tree[n][a][last]
             /\ tree[2 * n + 1][row][last] = tree[n][a][merge[row[2 * n]][last]]
  <2>1. tree[n][row][last] \in V
    BY <1>1 DEF Growing
  <2>2. tree[2 * n][row][last] = tree[n][a][last]
    <3>1. 2 * n \in Nat /\ (2 * n) % 2 = 0 /\ (2 * n) \div 2 = n /\ (2 * n = 0 => n = 0)
      OBVIOUS
    <3> DEFINE m == 2 * n
    <3>2. tree[m][row][last] =
            IF m = 0 THEN last
            ELSE IF m % 2 = 1 THEN tree[m \div 2][a][merge[row[m - 1]][last]]
            ELSE tree[m \div 2][a][last]
      <4>1. m \in Nat
        OBVIOUS
      <4> HIDE DEF m
      <4> QED
        BY <1>1, <4>1 DEF Growing
    <3> QED
      BY <1>3, <3>1, <3>2
  <2>3. tree[2 * n + 1][row][last] = tree[n][a][merge[row[2 * n]][last]]
    <3> DEFINE m == 2 * n + 1
    <3>1. m \in Nat /\ m % 2 = 1 /\ m \div 2 = n /\ m # 0 /\ m - 1 = 2 * n
      OBVIOUS
    <3>2. tree[m][row][last] =
            IF m = 0 THEN last
            ELSE IF m % 2 = 1 THEN tree[m \div 2][a][merge[row[m - 1]][last]]
            ELSE tree[m \div 2][a][last]
      <4> HIDE DEF m
      <4> QED
        BY <1>1, <3>1, Zenon DEF Growing
    <3> HIDE DEF m
    <3> QED
      BY <3>1, <3>2, Zenon DEF m
  <2> QED
    BY <2>1, <2>2, <2>3
<1> QED
  BY <1>3, <1>4 DEF tree

\* Two rows that are alike at first have the same tree over that part.
LEMMA SameTree ==
  ASSUME NEW V, NEW merge \in [V -> [V -> V]], NEW n \in Nat,
         NEW a \in Row(V), NEW b \in Row(V), \A i \in 0 .. n - 1 : a[i] = b[i], NEW last \in V
  PROVE  Tree(V, merge)[n][a][last] = Tree(V, merge)[n][b][last]
<1> DEFINE tree == Tree(V, merge)
           Alike(m, r, s) == \A i \in 0 .. m - 1 : r[i] = s[i]
           S == {m \in Nat : \A r, s \in Row(V), x \in V :
                   Alike(m, r, s) => tree[m][r][x] = tree[m][s][x]}
<1>0. ByPairs(V, merge, tree)
  BY TreeGrows
<1> HIDE DEF tree
<1>1. \A row \in Row(V), x \in V :
        /\ tree[0][row][x] = x
        /\ \A m \in Nat :
             /\ tree[2 * m][row][x] = tree[m][Above(merge, row)][x]
             /\ tree[2 * m + 1][row][x] = tree[m][Above(merge, row)][merge[row[2 * m]][x]]
  BY <1>0 DEF ByPairs
<1>2. 0 \in S
  BY <1>1
<1>3. ASSUME NEW m \in Nat, m \in S PROVE 2 * m \in S /\ 2 * m + 1 \in S
  <2>1. ASSUME NEW r \in Row(V), NEW s \in Row(V), Alike(2 * m, r, s), NEW x \in V
        PROVE  tree[m][Above(merge, r)][x] = tree[m][Above(merge, s)][x]
    <3> DEFINE ra == Above(merge, r)
               sa == Above(merge, s)
    <3>1. ra \in Row(V) /\ sa \in Row(V)
      BY AboveIs
    <3>2. ASSUME NEW i \in 0 .. m - 1 PROVE ra[i] = sa[i]
      <4>1. 2 * i \in 0 .. 2 * m - 1 /\ 2 * i + 1 \in 0 .. 2 * m - 1 /\ i \in Nat
        OBVIOUS
      <4>2. r[2 * i] = s[2 * i] /\ r[2 * i + 1] = s[2 * i + 1]
        BY <2>1, <4>1
      <4>3. ra[i] = merge[r[2 * i]][r[2 * i + 1]] /\ sa[i] = merge[s[2 * i]][s[2 * i + 1]]
        BY <4>1, AboveIs
      <4> QED
        BY <4>2, <4>3
    <3> HIDE DEF ra, sa
    <3>3. Alike(m, ra, sa)
      BY <3>2
    <3> HIDE DEF Alike
    <3> QED
      BY <1>3, <3>1, <3>3 DEF ra, sa
  <2>2. ASSUME NEW r \in Row(V), NEW s \in Row(V), NEW x \in V, Alike(2 * m, r, s)
        PROVE  tree[2 * m][r][x] = tree[2 * m][s][x]
    <3>1. tree[2 * m][r][x] = tree[m][Above(merge, r)][x]
      BY <1>1
    <3>2. tree[2 * m][s][x] = tree[m][Above(merge, s)][x]
      BY <1>1
    <3> HIDE DEF Alike
    <3>3. tree[m][Above(merge, r)][x] = tree[m][Above(merge, s)][x]
      BY <2>1, <2>2
    <3> QED
      BY <3>1, <3>2, <3>3
  <2>3. ASSUME NEW r \in Row(V), NEW s \in Row(V), NEW x \in V, Alike(2 * m + 1, r, s)
        PROVE  tree[2 * m + 1][r][x] = tree[2 * m + 1][s][x]
    <3>1. r[2 * m] = s[2 * m] /\ r[2 * m] \in V /\ 2 * m \in 0 .. (2 * m + 1) - 1
      <4>1. 2 * m \in 0 .. (2 * m + 1) - 1 /\ 2 * m \in Nat
        OBVIOUS
      <4> QED
        BY <2>3, <4>1 DEF Row
    <3>2. Alike(2 * m, r, s)
      BY <2>3
    <3> DEFINE y == merge[r[2 * m]][x]
    <3>3. y \in V
      BY <3>1
    <3> HIDE DEF Alike
    <3>4. tree[m][Above(merge, r)][y] = tree[m][Above(merge, s)][y]
      BY <2>1, <3>2, <3>3
    <3>5. tree[2 * m + 1][r][x] = tree[m][Above(merge, r)][y]
      BY <1>1
    <3>6. tree[2 * m + 1][s][x] = tree[m][Above(merge, s)][merge[s[2 * m]][x]]
      BY <1>1
    <3> QED
      BY <3>1, <3>4, <3>5, <3>6
  <2> HIDE DEF Alike
  <2>4. 2 * m \in Nat /\ 2 * m + 1 \in Nat
    OBVIOUS
  <2> QED
    BY <2>2, <2>3, <2>4
<1>4. \A m \in Nat : m \in S
  <2> HIDE DEF S
  <2> QED
    BY <1>2, <1>3, Doubling
<1> QED
  <2>1. Alike(n, a, b) /\ n \in S
    BY <1>4
  <2> HIDE DEF Alike
  <2> QED
    BY <2>1 DEF tree

\* A row higher is the row above, raised as often.
UpByRows(V, merge, up) ==
  \A n \in Nat, row \in Row(V) :
    /\ up[n][row] \in Row(V)
    /\ up[0][row] = row
    /\ up[n + 1][row] = up[n][Above(merge, row)]
    /\ up[n + 1][row] = Above(merge, up[n][row])

\* The rows above, from below and from above
LEMMA UpAbove ==
  ASSUME NEW V, NEW merge \in [V -> [V -> V]]
  PROVE  UpByRows(V, merge, Up(V, merge))
<1> DEFINE up == Up(V, merge)
           S == {n \in Nat : \A row \in Row(V) : up[n + 1][row] = Above(merge, up[n][row])}
<1>1. Rising(V, merge, up)
  BY UpIs
<1> HIDE DEF up
<1>2. \A n \in Nat, row \in Row(V) : up[n + 1][row] = up[n][Above(merge, row)]
  <2> SUFFICES ASSUME NEW n \in Nat, NEW row \in Row(V)
               PROVE  up[n + 1][row] = up[n][Above(merge, row)]
    OBVIOUS
  <2>1. n + 1 \in Nat /\ n + 1 # 0 /\ (n + 1) - 1 = n
    OBVIOUS
  <2> QED
    BY <1>1, <2>1 DEF Rising
<1>3. \A n \in Nat, row \in Row(V) : up[n][row] \in Row(V) /\ up[0][row] = row
  BY <1>1 DEF Rising
<1>4. 0 \in S
  BY <1>2, <1>3, AboveIs
<1>5. ASSUME NEW n \in Nat, n \in S PROVE n + 1 \in S
  <2> SUFFICES ASSUME NEW row \in Row(V)
               PROVE  up[(n + 1) + 1][row] = Above(merge, up[n + 1][row])
    OBVIOUS
  <2>1. Above(merge, row) \in Row(V) /\ n + 1 \in Nat
    BY AboveIs
  <2>2. up[(n + 1) + 1][row] = up[n + 1][Above(merge, row)]
    BY <1>2, <2>1
  <2>3. @ = Above(merge, up[n][Above(merge, row)])
    BY <1>5, <2>1
  <2>4. @ = Above(merge, up[n + 1][row])
    BY <1>2
  <2> QED
    BY <2>2, <2>3, <2>4
<1>6. \A n \in Nat : n \in S
  <2> HIDE DEF S
  <2> QED
    BY <1>4, <1>5, Induction
<1> QED
  BY <1>2, <1>3, <1>6 DEF up, UpByRows

\* Whole subtrees skipped at the bottom are values skipped higher up.
LEMMA UpShifted ==
  ASSUME NEW V, NEW merge \in [V -> [V -> V]], NEW h \in Nat, NEW q \in Nat, NEW row \in Row(V)
  PROVE  Up(V, merge)[h][Shifted(row, q * 2 ^ h)] = Shifted(Up(V, merge)[h][row], q)
<1> DEFINE up == Up(V, merge)
           S == {n \in Nat : \A r \in Row(V) :
                   up[n][Shifted(r, q * 2 ^ n)] = Shifted(up[n][r], q)}
<1>1. \A n \in Nat, r \in Row(V) : /\ up[n][r] \in Row(V) /\ up[0][r] = r
                                   /\ up[n + 1][r] = up[n][Above(merge, r)]
  BY UpAbove DEF UpByRows
<1> HIDE DEF up
<1>2. 0 \in S
  <2>1. 2 ^ 0 = 1
    BY PowerIsCount, SMT
  <2>2. q * 2 ^ 0 = q
    BY <2>1
  <2>3. \A r \in Row(V) : Shifted(r, q) \in Row(V)
    BY ShiftedIs
  <2> QED
    BY <1>1, <2>2, <2>3
<1>3. ASSUME NEW n \in Nat, n \in S PROVE n + 1 \in S
  <2> SUFFICES ASSUME NEW r \in Row(V)
               PROVE  up[n + 1][Shifted(r, q * 2 ^ (n + 1))] = Shifted(up[n + 1][r], q)
    OBVIOUS
  <2> DEFINE p == 2 ^ n
             k == q * p
  <2>1. 2 ^ (n + 1) = 2 * p /\ p \in Nat
    BY PowerDoubles
  <2>2. q * 2 ^ (n + 1) = 2 * k /\ k \in Nat
    <3> HIDE DEF p
    <3>1. q * (2 * p) = 2 * (q * p) /\ q * p \in Nat
      BY <2>1
    <3> QED
      BY <2>1, <3>1
  <2>3. Shifted(r, 2 * k) \in Row(V) /\ Above(merge, r) \in Row(V)
    <3> HIDE DEF k
    <3>1. 2 * k \in Nat
      BY <2>2
    <3> QED
      BY <3>1, ShiftedIs, AboveIs, Zenon
  <2>4. up[n][Shifted(Above(merge, r), k)] = Shifted(up[n][Above(merge, r)], q)
    BY <1>3, <2>3
  <2> HIDE DEF k
  <2>5. up[n + 1][Shifted(r, 2 * k)] = up[n][Shifted(Above(merge, r), k)]
    <3>1. Above(merge, Shifted(r, 2 * k)) = Shifted(Above(merge, r), k)
      BY <2>2, AboveShifted
    <3> DEFINE s == Shifted(r, 2 * k)
    <3>2. s \in Row(V) /\ Above(merge, s) = Shifted(Above(merge, r), k)
      BY <2>3, <3>1
    <3> HIDE DEF s
    <3>3. up[n + 1][s] = up[n][Above(merge, s)]
      BY <1>1, <3>2
    <3> QED
      BY <3>2, <3>3 DEF s
  <2>6. up[n + 1][r] = up[n][Above(merge, r)]
    BY <1>1, Zenon
  <2> QED
    BY <2>2, <2>4, <2>5, <2>6, Zenon
<1>4. \A n \in Nat : n \in S
  <2> HIDE DEF S
  <2> QED
    BY <1>2, <1>3, Induction
<1> QED
  BY <1>4 DEF up

\* What a tree over 2^k leaves and more is: the first 2^k are its left part.
SplitsAt(V, merge, k, n, row, last) ==
  Tree(V, merge)[2 ^ k + n][row][last]
  = merge[Up(V, merge)[k][row][0]][Tree(V, merge)[n][Shifted(row, 2 ^ k)][last]]

\* A tree is split where its longest complete subtree at the left ends.
LEMMA TreeSplits ==
  ASSUME NEW V, NEW merge \in [V -> [V -> V]], NEW k \in Nat, NEW n \in Nat, n < 2 ^ k,
         NEW row \in Row(V), NEW last \in V
  PROVE  SplitsAt(V, merge, k, n, row, last)
<1> DEFINE up == Up(V, merge)
           tree == Tree(V, merge)
           Splits(j) == \A m \in Nat, r \in Row(V), x \in V : m < 2 ^ j =>
             tree[2 ^ j + m][r][x] = merge[up[j][r][0]][tree[m][Shifted(r, 2 ^ j)][x]]
           S == {j \in Nat : Splits(j)}
<1>0. UpByRows(V, merge, up) /\ ByPairs(V, merge, tree)
  BY UpAbove, TreeGrows
<1> HIDE DEF up, tree
<1>1. \A m \in Nat, r \in Row(V) : /\ up[m][r] \in Row(V) /\ up[0][r] = r
                                   /\ up[m + 1][r] = up[m][Above(merge, r)]
  BY <1>0 DEF UpByRows
<1>2. \A r \in Row(V), x \in V :
        /\ tree[0][r][x] = x
        /\ \A i \in Nat :
             /\ tree[2 * i][r][x] = tree[i][Above(merge, r)][x]
             /\ tree[2 * i + 1][r][x] = tree[i][Above(merge, r)][merge[r[2 * i]][x]]
  BY <1>0 DEF ByPairs
<1>3. 0 \in S
  <2>1. 2 ^ 0 = 1
    BY PowerIsCount, SMT
  <2> SUFFICES ASSUME NEW r \in Row(V), NEW x \in V
               PROVE  tree[1][r][x] = merge[r[0]][tree[0][Shifted(r, 1)][x]]
    BY <1>1, <2>1
  <2>2. Shifted(r, 1) \in Row(V) /\ Above(merge, r) \in Row(V)
    BY ShiftedIs, AboveIs
  <2>3. merge[r[0]][x] \in V
    <3>1. r[0] \in V
      BY DEF Row
    <3> QED
      BY <3>1
  <2>4. tree[1][r][x] = tree[0][Above(merge, r)][merge[r[0]][x]]
    <3>1. 1 = 2 * 0 + 1 /\ 0 = 2 * 0
      OBVIOUS
    <3> QED
      BY <1>2, <3>1
  <2>5. tree[0][Shifted(r, 1)][x] = x /\ tree[0][Above(merge, r)][merge[r[0]][x]] = merge[r[0]][x]
    BY <1>2, <2>2, <2>3, Zenon
  <2> QED
    BY <2>4, <2>5
<1>4. ASSUME NEW j \in Nat, j \in S PROVE Splits(j + 1)
  <2> SUFFICES ASSUME NEW m \in Nat, NEW r \in Row(V), NEW x \in V, m < 2 ^ (j + 1)
               PROVE  tree[2 ^ (j + 1) + m][r][x]
                        = merge[up[j + 1][r][0]][tree[m][Shifted(r, 2 ^ (j + 1))][x]]
    OBVIOUS
  <2> DEFINE p == 2 ^ j
             a == Above(merge, r)
             s == Shifted(r, 2 * p)
  <2>1. 2 ^ (j + 1) = 2 * p /\ p \in Nat \ {0}
    BY PowerDoubles
  <2>2. \A w \in Nat, y \in V : w < p =>
          tree[p + w][a][y] = merge[up[j][a][0]][tree[w][Shifted(a, p)][y]]
    <3>1. a \in Row(V)
      BY AboveIs
    <3> HIDE DEF a
    <3> QED
      BY <1>4, <3>1
  <2> HIDE DEF p
  <2>3. s \in Row(V) /\ a \in Row(V) /\ Above(merge, s) = Shifted(a, p)
    <3>1. 2 * p \in Nat /\ p \in Nat
      BY <2>1
    <3>2. s \in Row(V) /\ a \in Row(V)
      BY <3>1, AboveIs, ShiftedIs
    <3>3. Above(merge, s) = Shifted(a, p)
      BY <3>1, AboveShifted
    <3> QED
      BY <3>2, <3>3
  <2>4. up[j + 1][r] = up[j][a]
    BY <1>1
  <2>5. PICK h \in Nat : m = 2 * h \/ m = 2 * h + 1
    <3>1. m \div 2 \in Nat /\ (m = 2 * (m \div 2) \/ m = 2 * (m \div 2) + 1)
      OBVIOUS
    <3> QED
      BY <3>1
  <2>6. h < p /\ p + h \in Nat /\ 2 * p + 2 * h = 2 * (p + h)
    BY <2>1, <2>5
  <2>7. \A y \in V : tree[p + h][a][y] = merge[up[j + 1][r][0]][tree[h][Above(merge, s)][y]]
    BY <2>2, <2>3, <2>4, <2>6
  <2>8. CASE m = 2 * h + 1
    <3>1. s[2 * h] = r[2 * (p + h)] /\ r[2 * (p + h)] \in V
      <4>1. \A i \in Nat : s[i] = r[2 * p + i]
        BY <2>1, ShiftedIs DEF s
      <4>2. 2 * h \in Nat /\ 2 * (p + h) \in Nat
        BY <2>6
      <4>3. s[2 * h] = r[2 * p + 2 * h]
        BY <4>1, <4>2
      <4> QED
        BY <2>6, <4>2, <4>3 DEF Row
    <3> DEFINE y == merge[s[2 * h]][x]
    <3>2. y \in V
      BY <3>1
    <3>3. 2 * p + m = 2 * (p + h) + 1
      BY <2>1, <2>8
    <3> DEFINE g == p + h
    <3>4. tree[2 * p + m][r][x] = tree[g][a][y]
      <4>1. g \in Nat /\ 2 * p + m = 2 * g + 1 /\ y = merge[r[2 * g]][x]
        BY <2>6, <3>1, <3>3
      <4> HIDE DEF g, y, s
      <4>2. tree[2 * g + 1][r][x] = tree[g][a][merge[r[2 * g]][x]]
        <5>1. \A i \in Nat : tree[2 * i + 1][r][x] = tree[i][a][merge[r[2 * i]][x]]
          BY <1>2
        <5> QED
          BY <4>1, <5>1
      <4> QED
        BY <4>1, <4>2
    <3> HIDE DEF s, a
    <3>5. tree[m][s][x] = tree[h][Above(merge, s)][y]
      <4>1. tree[2 * h + 1][s][x] = tree[h][Above(merge, s)][merge[s[2 * h]][x]]
        BY <1>2, <2>3
      <4> QED
        BY <2>8, <4>1
    <3> HIDE DEF y
    <3> QED
      BY <2>1, <2>7, <3>2, <3>4, <3>5 DEF s
  <2>9. CASE m = 2 * h
    <3>3. 2 * p + m = 2 * (p + h)
      BY <2>1, <2>9
    <3> HIDE DEF s, a
    <3>4. tree[2 * p + m][r][x] = tree[p + h][a][x]
      <4>1. \A i \in Nat : tree[2 * i][r][x] = tree[i][a][x]
        BY <1>2 DEF a
      <4>2. tree[2 * (p + h)][r][x] = tree[p + h][a][x]
        BY <2>6, <4>1, Zenon
      <4> QED
        BY <3>3, <4>2, Zenon
    <3>5. tree[m][s][x] = tree[h][Above(merge, s)][x]
      BY <1>2, <2>3, <2>9
    <3> QED
      BY <2>1, <2>7, <3>4, <3>5, Zenon DEF s
  <2> QED
    BY <2>5, <2>8, <2>9, Zenon
<1>5. \A j \in Nat : j \in S
  <2> HIDE DEF Splits
  <2>1. \A j \in Nat : j \in S => j + 1 \in S
    BY <1>4
  <2> HIDE DEF S
  <2> QED
    BY <1>3, <2>1, Induction
<1> QED
  BY <1>5 DEF up, tree, SplitsAt

\* The tree over complete subtrees, the last of them held back, is the tree
\* over their leaves, the last leaf held back.
Raised(V, merge, h, m, row) ==
  LET high == Up(V, merge)[h][row]
      n == (m + 1) * 2 ^ h - 1
  IN  /\ n \in Nat
      /\ Tree(V, merge)[m][high][high[m]] = Tree(V, merge)[n][row][row[n]]

\* It does not matter at which height the tree is begun.
LEMMA TreeRaised ==
  ASSUME NEW V, NEW merge \in [V -> [V -> V]], NEW h \in Nat, NEW m \in Nat, NEW row \in Row(V)
  PROVE  Raised(V, merge, h, m, row)
<1> DEFINE up == Up(V, merge)
           tree == Tree(V, merge)
           Last(k, i) == (i + 1) * 2 ^ k - 1
           S == {k \in Nat : \A i \in Nat, r \in Row(V) :
                   /\ Last(k, i) \in Nat
                   /\ tree[i][up[k][r]][up[k][r][i]] = tree[Last(k, i)][r][r[Last(k, i)]]}
<1>0. UpByRows(V, merge, up) /\ ByPairs(V, merge, tree)
  BY UpAbove, TreeGrows
<1> HIDE DEF up, tree
<1>1. \A k \in Nat, r \in Row(V) : /\ up[k][r] \in Row(V) /\ up[0][r] = r
                                   /\ up[k + 1][r] = Above(merge, up[k][r])
  BY <1>0 DEF UpByRows
<1>2. 0 \in S
  <2>1. 2 ^ 0 = 1
    BY PowerIsCount, SMT
  <2>2. \A i \in Nat : Last(0, i) = i
    BY <2>1
  <2> HIDE DEF Last
  <2> QED
    BY <1>1, <2>2
<1>3. ASSUME NEW k \in Nat, k \in S PROVE k + 1 \in S
  <2> SUFFICES ASSUME NEW i \in Nat, NEW r \in Row(V)
               PROVE  /\ Last(k + 1, i) \in Nat
                      /\ tree[i][up[k + 1][r]][up[k + 1][r][i]]
                           = tree[Last(k + 1, i)][r][r[Last(k + 1, i)]]
    OBVIOUS
  <2> DEFINE j == 2 * i + 1
             w == up[k][r]
  <2>1. Last(k + 1, i) = Last(k, j)
    <3> DEFINE p == 2 ^ k
    <3>1. 2 ^ (k + 1) = 2 * p /\ p \in Nat
      BY PowerDoubles
    <3> HIDE DEF p
    <3>2. (i + 1) * (2 * p) = (2 * i + 1 + 1) * p
      BY <3>1
    <3> QED
      BY <3>1, <3>2 DEF p
  <2>2. j \in Nat /\ Last(k, j) \in Nat
        /\ tree[j][w][w[j]] = tree[Last(k, j)][r][r[Last(k, j)]]
    <3>1. j \in Nat
      OBVIOUS
    <3> HIDE DEF j, Last
    <3> QED
      BY <1>3, <3>1
  <2>3. w \in Row(V) /\ up[k + 1][r] = Above(merge, w) /\ w[j] \in V
    BY <1>1, <2>2 DEF Row
  <2> HIDE DEF w, Last
  <2>4. Above(merge, w)[i] = merge[w[2 * i]][w[j]]
    BY <2>3, AboveIs
  <2>5. tree[j][w][w[j]] = tree[i][Above(merge, w)][merge[w[2 * i]][w[j]]]
    BY <1>0, <2>3, Zenon DEF ByPairs
  <2> QED
    BY <2>1, <2>2, <2>3, <2>4, <2>5, Zenon
<1>4. \A k \in Nat : k \in S
  <2> HIDE DEF S
  <2> QED
    BY <1>2, <1>3, Induction
<1>5. Last(h, m) \in Nat /\ tree[m][up[h][row]][up[h][row][m]] = tree[Last(h, m)][row][row[Last(h, m)]]
  <2> HIDE DEF Last
  <2> QED
    BY <1>4
<1> QED
  BY <1>5 DEF up, tree, Raised

\* What waits after an even and an odd number of leaves
WaitsByPairs(V, merge, waits) ==
  \A row \in Row(V) :
    /\ waits[0][row] = <<>>
    /\ \A n \in Nat :
         /\ waits[n][row] \in Seq(V)
         /\ waits[2 * n][row] = waits[n][Above(merge, row)]
         /\ waits[2 * n + 1][row] = Append(waits[n][Above(merge, row)], row[2 * n])

\* What waits is known from what waits in the row above.
LEMMA WaitsGrow ==
  ASSUME NEW V, NEW merge \in [V -> [V -> V]]
  PROVE  WaitsByPairs(V, merge, Waits(V, merge))
<1> DEFINE waits == Waits(V, merge)
<1>1. Waiting(V, merge, waits)
  BY WaitsIs
<1> HIDE DEF waits
<1> SUFFICES ASSUME NEW row \in Row(V)
             PROVE  /\ waits[0][row] = <<>>
                    /\ \A n \in Nat :
                         /\ waits[n][row] \in Seq(V)
                         /\ waits[2 * n][row] = waits[n][Above(merge, row)]
                         /\ waits[2 * n + 1][row] = Append(waits[n][Above(merge, row)], row[2 * n])
  BY Zenon DEF WaitsByPairs, waits
<1> DEFINE a == Above(merge, row)
<1>2. a \in Row(V)
  BY AboveIs
<1>3. waits[0][row] = <<>> /\ waits[0][a] = <<>>
  BY <1>1, <1>2 DEF Waiting
<1>4. ASSUME NEW n \in Nat
      PROVE  /\ waits[n][row] \in Seq(V)
             /\ waits[2 * n][row] = waits[n][a]
             /\ waits[2 * n + 1][row] = Append(waits[n][a], row[2 * n])
  <2>1. waits[n][row] \in Seq(V)
    BY <1>1 DEF Waiting
  <2>2. waits[2 * n][row] = waits[n][a]
    <3> DEFINE m == 2 * n
    <3>1. m \in Nat /\ m % 2 = 0 /\ m \div 2 = n /\ (m = 0 => n = 0)
      OBVIOUS
    <3>2. waits[m][row] = IF m = 0 THEN <<>>
                          ELSE IF m % 2 = 1 THEN Append(waits[m \div 2][a], row[m - 1])
                          ELSE waits[m \div 2][a]
      <4> HIDE DEF m
      <4> QED
        BY <1>1, <3>1, Zenon DEF Waiting
    <3> HIDE DEF m, a
    <3> QED
      BY <1>3, <3>1, <3>2 DEF m
  <2>3. waits[2 * n + 1][row] = Append(waits[n][a], row[2 * n])
    <3> DEFINE m == 2 * n + 1
    <3>1. m \in Nat /\ m % 2 = 1 /\ m \div 2 = n /\ m # 0 /\ m - 1 = 2 * n
      OBVIOUS
    <3>2. waits[m][row] = IF m = 0 THEN <<>>
                          ELSE IF m % 2 = 1 THEN Append(waits[m \div 2][a], row[m - 1])
                          ELSE waits[m \div 2][a]
      <4> HIDE DEF m
      <4> QED
        BY <1>1, <3>1, Zenon DEF Waiting
    <3> HIDE DEF m, a
    <3> QED
      BY <3>1, <3>2, Zenon DEF m
  <2> QED
    BY <2>1, <2>2, <2>3
<1> QED
  BY <1>3, <1>4, Zenon

\* A whole number of subtrees waits as that many values of their row do.
WaitsHigher(V, merge, h, q, row) ==
  Waits(V, merge)[q * 2 ^ h][row] = Waits(V, merge)[q][Up(V, merge)[h][row]]

\* What waits after complete subtrees waits above them.
LEMMA WaitsRaised ==
  ASSUME NEW V, NEW merge \in [V -> [V -> V]], NEW h \in Nat, NEW q \in Nat, NEW row \in Row(V)
  PROVE  WaitsHigher(V, merge, h, q, row)
<1> DEFINE up == Up(V, merge)
           waits == Waits(V, merge)
           S == {k \in Nat : \A r \in Row(V) : waits[q * 2 ^ k][r] = waits[q][up[k][r]]}
<1>1. \A k \in Nat, r \in Row(V) : /\ up[k][r] \in Row(V) /\ up[0][r] = r
                                   /\ up[k + 1][r] = up[k][Above(merge, r)]
  BY UpAbove DEF UpByRows
<1>2. WaitsByPairs(V, merge, waits)
  BY WaitsGrow
<1> HIDE DEF up, waits
<1>3. 0 \in S
  <2>1. 2 ^ 0 = 1
    BY PowerIsCount, SMT
  <2>2. q * 2 ^ 0 = q
    BY <2>1
  <2> QED
    BY <1>1, <2>2
<1>4. ASSUME NEW k \in Nat, k \in S PROVE k + 1 \in S
  <2> SUFFICES ASSUME NEW r \in Row(V) PROVE waits[q * 2 ^ (k + 1)][r] = waits[q][up[k + 1][r]]
    OBVIOUS
  <2> DEFINE n == q * 2 ^ k
             a == Above(merge, r)
  <2>1. q * 2 ^ (k + 1) = 2 * n /\ n \in Nat
    <3> DEFINE p == 2 ^ k
    <3>1. 2 ^ (k + 1) = 2 * p /\ p \in Nat
      BY PowerDoubles
    <3> HIDE DEF p
    <3>2. q * (2 * p) = 2 * (q * p) /\ q * p \in Nat
      BY <3>1
    <3> QED
      BY <3>1, <3>2 DEF p
  <2>2. a \in Row(V)
    BY AboveIs
  <2>3. waits[n][a] = waits[q][up[k][a]]
    BY <1>4, <2>2
  <2> HIDE DEF n
  <2>4. waits[2 * n][r] = waits[n][a]
    BY <1>2, <2>1 DEF WaitsByPairs
  <2> QED
    BY <1>1, <2>1, <2>3, <2>4
<1>5. \A k \in Nat : k \in S
  <2> HIDE DEF S
  <2> QED
    BY <1>3, <1>4, Induction
<1> QED
  BY <1>5 DEF up, waits, WaitsHigher

\* What a stack's chaining values and a last one come to, merged from the top
\* of the stack down, after each merge
Folds(V, merge, st, last, f) ==
  /\ f \in [0 .. Len(st) -> V]
  /\ f[0] = last
  /\ \A n \in 1 .. Len(st) : f[n] = merge[st[Len(st) - n + 1]][f[n - 1]]

\* What they come to
Fold(V, merge, st, last) == CHOOSE f : Folds(V, merge, st, last, f)

\* The merges exist for a stack of any length.
LEMMA FoldIs ==
  ASSUME NEW V, NEW merge \in [V -> [V -> V]], NEW st \in Seq(V), NEW last \in V
  PROVE  Folds(V, merge, st, last, Fold(V, merge, st, last))
<1> DEFINE small == {0}
           base == [n \in Nat |-> last]
           half == [n \in Nat |-> n - 1]
           step == [n \in Nat |-> [y \in V |->
                      IF n \in 1 .. Len(st) THEN merge[st[Len(st) - n + 1]][y] ELSE y]]
<1>0. Len(st) \in Nat
  OBVIOUS
<1>1. \A n \in Nat : n \in small => base[n] \in V
  OBVIOUS
<1>2. \A n \in Nat : n \notin small => half[n] \in Nat /\ half[n] < n
  OBVIOUS
<1>3. ASSUME NEW n \in Nat, NEW y \in V PROVE step[n][y] \in V
  <2>1. n \in 1 .. Len(st) => st[Len(st) - n + 1] \in V
    BY <1>0
  <2> QED
    BY <2>1
<1>4. PICK f : Halved(V, small, base, half, step, f)
  <2> HIDE DEF small, base, half, step
  <2> QED
    BY <1>1, <1>2, <1>3, HalvesExist, Zenon DEF CanHalve
<1> DEFINE g == [n \in 0 .. Len(st) |-> f[n]]
<1>5. g \in [0 .. Len(st) -> V]
  BY <1>0, <1>4 DEF Halved
<1>6. g[0] = last
  <2>1. f[0] = last
    BY <1>4, Zenon DEF Halved
  <2> QED
    BY <1>0, <2>1
<1>7. ASSUME NEW n \in 1 .. Len(st) PROVE g[n] = merge[st[Len(st) - n + 1]][g[n - 1]]
  <2>1. n \in Nat /\ n \notin small /\ half[n] = n - 1 /\ n - 1 \in 0 .. Len(st) /\ n \in 0 .. Len(st)
    BY <1>0
  <2>2. f[n] = step[n][f[n - 1]] /\ f[n - 1] \in V
    <3> HIDE DEF small, base, half, step
    <3>1. f \in [Nat -> V]
      BY <1>4, Zenon DEF Halved
    <3>2. f[n] = IF n \in small THEN base[n] ELSE step[n][f[half[n]]]
      BY <1>4, <2>1, Zenon DEF Halved
    <3>3. f[n] = step[n][f[n - 1]]
      BY <2>1, <3>2, Zenon
    <3>4. n - 1 \in Nat
      BY <1>0, <2>1
    <3> QED
      BY <3>1, <3>3, <3>4, Zenon
  <2>3. step[n][f[n - 1]] = merge[st[Len(st) - n + 1]][f[n - 1]]
    BY <2>1, <2>2
  <2> QED
    BY <2>1, <2>2, <2>3
<1>8. Folds(V, merge, st, last, g)
  <2> HIDE DEF g
  <2> QED
    BY <1>5, <1>6, <1>7 DEF Folds
<1> QED
  BY <1>8 DEF Fold

\* With one more on the stack, that one is merged first.
Peels(V, merge, st, a, last) ==
  \A n \in 0 .. Len(st) :
    Fold(V, merge, Append(st, a), last)[n + 1] = Fold(V, merge, st, merge[a][last])[n]

\* Merging begins at the top of the stack.
LEMMA FoldPeels ==
  ASSUME NEW V, NEW merge \in [V -> [V -> V]], NEW st \in Seq(V), NEW a \in V, NEW last \in V
  PROVE  Peels(V, merge, st, a, last)
<1> DEFINE more == Append(st, a)
           f == Fold(V, merge, more, last)
           g == Fold(V, merge, st, merge[a][last])
           k == Len(st)
           S == {i \in Nat : i <= k => f[i + 1] = g[i]}
<1>1. /\ more \in Seq(V) /\ Len(more) = k + 1 /\ k \in Nat
      /\ \A i \in 1 .. k : more[i] = st[i]
      /\ more[k + 1] = a
  OBVIOUS
<1>2. merge[a][last] \in V
  OBVIOUS
<1>3. Folds(V, merge, more, last, f)
  <2> HIDE DEF more
  <2> QED
    BY <1>1, FoldIs, Zenon
<1>4. Folds(V, merge, st, merge[a][last], g)
  BY <1>2, FoldIs
<1> HIDE DEF f, g, more
<1>5. 0 \in S
  <2>1. 1 \in 1 .. Len(more) /\ Len(more) - 1 + 1 = k + 1
    BY <1>1
  <2>2. f[1] = merge[more[k + 1]][f[0]]
    BY <1>3, <2>1 DEF Folds
  <2>3. f[0] = last /\ g[0] = merge[a][last]
    BY <1>3, <1>4 DEF Folds
  <2>4. f[0 + 1] = g[0]
    BY <1>1, <2>2, <2>3
  <2> QED
    BY <2>4
<1>6. ASSUME NEW i \in Nat, i \in S PROVE i + 1 \in S
  <2> SUFFICES ASSUME i + 1 <= k PROVE f[(i + 1) + 1] = g[i + 1]
    OBVIOUS
  <2>1. f[i + 1] = g[i]
    BY <1>1, <1>6
  <2>2. f[(i + 1) + 1] = merge[more[k - i]][f[i + 1]]
    <3>1. (i + 1) + 1 \in 1 .. Len(more) /\ Len(more) - ((i + 1) + 1) + 1 = k - i
          /\ ((i + 1) + 1) - 1 = i + 1
      BY <1>1
    <3> QED
      BY <1>3, <3>1 DEF Folds
  <2>3. g[i + 1] = merge[st[k - i]][g[i]]
    <3>1. i + 1 \in 1 .. Len(st) /\ k - (i + 1) + 1 = k - i /\ (i + 1) - 1 = i
      BY <1>1
    <3> QED
      BY <1>4, <3>1 DEF Folds
  <2>4. more[k - i] = st[k - i]
    <3>1. k - i \in 1 .. k
      BY <1>1
    <3> QED
      BY <1>1, <3>1
  <2> QED
    BY <2>1, <2>2, <2>3, <2>4
<1>7. \A i \in Nat : i \in S
  <2> HIDE DEF S
  <2> QED
    BY <1>5, <1>6, Induction, Zenon
<1> QED
  <2>1. \A n \in 0 .. k : n \in S
    BY <1>1, <1>7
  <2>2. \A n \in 0 .. k : f[n + 1] = g[n]
    BY <1>1, <2>1
  <2> QED
    BY <2>2 DEF f, g, more, Peels

\* All that waits, merged with the last value, is the tree.
LEMMA TreeFolds ==
  ASSUME NEW V, NEW merge \in [V -> [V -> V]], NEW n \in Nat, NEW row \in Row(V), NEW last \in V
  PROVE  LET st == Waits(V, merge)[n][row]
         IN  Fold(V, merge, st, last)[Len(st)] = Tree(V, merge)[n][row][last]
<1> DEFINE waits == Waits(V, merge)
           tree == Tree(V, merge)
           Whole_(st, x) == Fold(V, merge, st, x)[Len(st)]
           S == {m \in Nat : \A r \in Row(V), x \in V : Whole_(waits[m][r], x) = tree[m][r][x]}
<1>1. WaitsByPairs(V, merge, waits) /\ ByPairs(V, merge, tree)
  BY WaitsGrow, TreeGrows
<1> HIDE DEF waits, tree
<1>2. 0 \in S
  <2> SUFFICES ASSUME NEW r \in Row(V), NEW x \in V PROVE Whole_(waits[0][r], x) = tree[0][r][x]
    OBVIOUS
  <2> DEFINE st == waits[0][r]
  <2>1. st \in Seq(V) /\ Len(st) = 0
    BY <1>1, EmptyIs, Zenon DEF WaitsByPairs
  <2> HIDE DEF st
  <2>2. Folds(V, merge, st, x, Fold(V, merge, st, x))
    BY <2>1, FoldIs, Zenon
  <2> QED
    BY <1>1, <2>1, <2>2, Zenon DEF ByPairs, Folds, st
<1>3. ASSUME NEW m \in Nat, m \in S PROVE 2 * m \in S /\ 2 * m + 1 \in S
  <2>1. ASSUME NEW r \in Row(V), NEW x \in V
        PROVE  /\ Whole_(waits[2 * m][r], x) = tree[2 * m][r][x]
               /\ Whole_(waits[2 * m + 1][r], x) = tree[2 * m + 1][r][x]
    <3> DEFINE a == Above(merge, r)
               w == waits[m][a]
               v == r[2 * m]
               y == merge[v][x]
    <3>1. a \in Row(V) /\ v \in V /\ y \in V
      <4>1. 2 * m \in Nat
        OBVIOUS
      <4>2. v \in V
        BY <4>1 DEF Row
      <4> QED
        BY <4>2, AboveIs
    <3> HIDE DEF v
    <3>2. /\ w \in Seq(V)
          /\ waits[2 * m][r] = w /\ waits[2 * m + 1][r] = Append(w, v)
      BY <1>1, <3>1, Zenon DEF WaitsByPairs, v
    <3>3. tree[2 * m][r][x] = tree[m][a][x] /\ tree[2 * m + 1][r][x] = tree[m][a][y]
      BY <1>1 DEF ByPairs, v
    <3>4. Whole_(w, x) = tree[m][a][x] /\ Whole_(w, y) = tree[m][a][y]
      <4> HIDE DEF a, y, Whole_
      <4> QED
        BY <1>3, <3>1
    <3> HIDE DEF w, y, a
    <3>5. Whole_(Append(w, v), x) = Whole_(w, y)
      <4>1. Len(Append(w, v)) = Len(w) + 1 /\ Len(w) \in 0 .. Len(w)
        BY <3>1, <3>2
      <4>2. Peels(V, merge, w, v, x)
        BY <3>1, <3>2, FoldPeels, Zenon
      <4>3. Fold(V, merge, Append(w, v), x)[Len(w) + 1] = Fold(V, merge, w, merge[v][x])[Len(w)]
        BY <4>1, <4>2 DEF Peels
      <4> QED
        BY <4>1, <4>3 DEF y
    <3> HIDE DEF Whole_
    <3> QED
      BY <3>2, <3>3, <3>4, <3>5
  <2>2. 2 * m \in Nat /\ 2 * m + 1 \in Nat
    OBVIOUS
  <2> HIDE DEF Whole_
  <2> QED
    BY <2>1, <2>2
<1>4. \A m \in Nat : m \in S
  <2> HIDE DEF S
  <2> QED
    BY <1>2, <1>3, Doubling
<1>5. Whole_(waits[n][row], last) = tree[n][row][last]
  <2> HIDE DEF Whole_
  <2> QED
    BY <1>4
<1> QED
  BY <1>5 DEF waits, tree

\* A stack of which the topmost `times` are merged with a last value
Merged(V, merge, st, last, times) ==
  Append(SubSeq(st, 1, Len(st) - times), Fold(V, merge, st, last)[times])

\* Merging with one merge more
MergedMore(V, merge, st, a, n) ==
  \E low \in Seq(V), x \in V, y \in V :
    /\ Merged(V, merge, st, a, n) = Append(Append(low, x), y)
    /\ Merged(V, merge, st, a, n + 1) = Append(low, merge[x][y])

\* One more merge takes the two topmost.
LEMMA OneMoreMerged ==
  ASSUME NEW V, NEW merge \in [V -> [V -> V]], NEW st \in Seq(V), NEW a \in V,
         NEW n \in Nat, n < Len(st)
  PROVE  MergedMore(V, merge, st, a, n)
<1> DEFINE f == Fold(V, merge, st, a)
           k == Len(st) - n
           k1 == k - 1
           n1 == n + 1
           low == SubSeq(st, 1, k1)
           x == st[k]
           y == f[n]
<1>1. Len(st) \in Nat /\ k \in 1 .. Len(st) /\ k1 \in Nat /\ k1 < Len(st) /\ k1 + 1 = k
      /\ Len(st) - n1 = k1 /\ n1 \in 1 .. Len(st) /\ Len(st) - n1 + 1 = k /\ n \in 0 .. Len(st)
      /\ n1 - 1 = n
  OBVIOUS
<1>2. f \in [0 .. Len(st) -> V] /\ \A i \in 1 .. Len(st) : f[i] = merge[st[Len(st) - i + 1]][f[i - 1]]
  <2>1. Folds(V, merge, st, a, f)
    BY FoldIs
  <2> QED
    BY <2>1 DEF Folds
<1> HIDE DEF f
<1>3. x \in V /\ y \in V
  BY <1>1, <1>2
<1>4. f[n1] = merge[x][y]
  <2>1. f[n1] = merge[st[Len(st) - n1 + 1]][f[n1 - 1]]
    <3> HIDE DEF n1
    <3> QED
      BY <1>1, <1>2
  <2>2. Len(st) - n1 + 1 = k /\ n1 - 1 = n
    BY <1>1
  <2> HIDE DEF n1, k
  <2> QED
    BY <2>1, <2>2
<1> HIDE DEF k, k1, n1
<1>5. low \in Seq(V) /\ Len(low) = k1 /\ \A i \in 1 .. k1 : low[i] = st[i]
  <2>1. 1 <= k1 + 1 /\ k1 <= Len(st) /\ 1 \in Nat
    BY <1>1
  <2>2. /\ SubSeq(st, 1, k1) \in Seq(V)
        /\ Len(SubSeq(st, 1, k1)) = k1 - 1 + 1
        /\ \A i \in 1 .. k1 - 1 + 1 : SubSeq(st, 1, k1)[i] = st[1 + i - 1]
    BY <1>1, <2>1, Part
  <2>3. k1 - 1 + 1 = k1 /\ \A i \in 1 .. k1 : 1 + i - 1 = i
    BY <1>1
  <2> QED
    BY <2>2, <2>3
<1>6. SubSeq(st, 1, k) = Append(low, x)
  <2> DEFINE full == SubSeq(st, 1, k)
             made == Append(low, x)
  <2>1. full \in Seq(V) /\ Len(full) = k /\ \A i \in 1 .. k : full[i] = st[i]
    <3>1. 1 <= k + 1 /\ k <= Len(st) /\ 1 \in Nat /\ k \in Nat
      BY <1>1
    <3>2. /\ SubSeq(st, 1, k) \in Seq(V)
          /\ Len(SubSeq(st, 1, k)) = k - 1 + 1
          /\ \A i \in 1 .. k - 1 + 1 : SubSeq(st, 1, k)[i] = st[1 + i - 1]
      BY <3>1, Part
    <3>3. k - 1 + 1 = k /\ \A i \in 1 .. k : 1 + i - 1 = i
      BY <1>1
    <3> QED
      BY <3>2, <3>3
  <2> HIDE DEF full, low
  <2>2. x \in V /\ low \in Seq(V) /\ Len(low) = k1 /\ k1 \in Nat
    BY <1>1, <1>3, <1>5
  <2> HIDE DEF x
  <2>3. made \in Seq(V) /\ Len(made) = k1 + 1 /\ made[k1 + 1] = x
        /\ \A i \in 1 .. k1 : made[i] = low[i]
    BY <2>2
  <2> HIDE DEF made
  <2>4. Len(made) = k /\ made[k] = x
    BY <1>1, <2>3
  <2>5. \A i \in 1 .. k : full[i] = made[i]
    <3> TAKE i \in 1 .. k
    <3>1. CASE i = k
      BY <1>1, <2>1, <2>4, <3>1 DEF x
    <3>2. CASE i # k
      <4>1. i \in 1 .. k1
        BY <1>1, <3>2
      <4> QED
        BY <1>5, <2>1, <2>3, <4>1, Zenon
    <3> QED
      BY <3>1, <3>2
  <2>6. full = made
    BY <2>1, <2>3, <2>4, <2>5, SameSeq, Zenon
  <2> QED
    BY <2>6, Zenon DEF full, made
<1>7. Merged(V, merge, st, a, n) = Append(Append(low, x), y)
  BY <1>6, Zenon DEF Merged, f, k
<1>8. Merged(V, merge, st, a, n1) = Append(low, merge[x][y])
  <2>1. Merged(V, merge, st, a, n1) = Append(SubSeq(st, 1, Len(st) - n1), f[n1])
    BY DEF Merged, f
  <2> QED
    BY <1>1, <1>4, <2>1
<1> HIDE DEF low, x, y
<1> QED
  BY <1>3, <1>5, <1>7, <1>8, Zenon DEF MergedMore, n1

(***************************************************************************)
(* The tree over a list.                                                   *)
(***************************************************************************)

\* The list is the start of the row, and v is the value of the tree over it.
OnRow(V, merge, list, row, v) ==
  /\ list \in Seq(V) /\ Len(list) # 0 /\ row \in Row(V)
  /\ \A i \in 1 .. Len(list) : list[i] = row[i - 1]
  /\ v = Tree(V, merge)[Len(list) - 1][row][row[Len(list) - 1]]

\* The value of the tree over a list
Listed(V, merge, list, v) == \E row : OnRow(V, merge, list, row, v)

\* A row with another value in place n
Changed(row, n, last) == [i \in Nat |-> IF i = n THEN last ELSE row[i]]

\* What the change does, and that the tree over the first n values does not see it
ChangedIs(V, merge, row, n, last) ==
  /\ Changed(row, n, last) \in Row(V)
  /\ Changed(row, n, last)[n] = last
  /\ \A i \in Nat : i # n => Changed(row, n, last)[i] = row[i]
  /\ Tree(V, merge)[n][Changed(row, n, last)][last] = Tree(V, merge)[n][row][last]

\* The last leaf may be put into the row, after the n that the tree is over.
LEMMA LastChanged ==
  ASSUME NEW V, NEW merge \in [V -> [V -> V]], NEW row \in Row(V), NEW n \in Nat, NEW last \in V
  PROVE  ChangedIs(V, merge, row, n, last)
<1> DEFINE w == Changed(row, n, last)
<1>1. w \in Row(V)
  <2>1. \A i \in Nat : (IF i = n THEN last ELSE row[i]) \in V
    BY DEF Row
  <2> QED
    BY <2>1 DEF Changed, Row
<1>2. w[n] = last /\ \A i \in Nat : i # n => w[i] = row[i]
  BY DEF Changed
<1> HIDE DEF w
<1>3. \A i \in 0 .. n - 1 : w[i] = row[i]
  BY <1>2
<1>4. Tree(V, merge)[n][w][last] = Tree(V, merge)[n][row][last]
  BY <1>1, <1>3, SameTree
<1> QED
  BY <1>1, <1>2, <1>4 DEF ChangedIs, w

\* A list of two is the pair of children.
LEMMA PairListed ==
  ASSUME NEW V, NEW merge \in [V -> [V -> V]], NEW list, NEW v, Listed(V, merge, list, v),
         Len(list) = 2
  PROVE  list[1] \in V /\ list[2] \in V /\ v = merge[list[1]][list[2]] /\ list = <<list[1], list[2]>>
<1>1. PICK row : OnRow(V, merge, list, row, v)
  BY DEF Listed
<1>2. /\ list \in Seq(V) /\ row \in Row(V)
      /\ \A i \in 1 .. 2 : list[i] = row[i - 1]
      /\ v = Tree(V, merge)[2 - 1][row][row[2 - 1]]
  BY <1>1 DEF OnRow
<1>3. list[1] = row[0] /\ list[2] = row[1] /\ v = Tree(V, merge)[1][row][row[1]]
  <2>1. 1 \in 1 .. 2 /\ 2 \in 1 .. 2 /\ 1 - 1 = 0 /\ 2 - 1 = 1
    OBVIOUS
  <2> QED
    BY <1>2, <2>1
<1>4. row[0] \in V /\ row[1] \in V /\ Above(merge, row) \in Row(V)
  BY <1>2, AboveIs, Zenon DEF Row
<1>5. Tree(V, merge)[1][row][row[1]] = merge[row[0]][row[1]]
  <2> DEFINE tree == Tree(V, merge)
             last == row[1]
             y == merge[row[0]][last]
  <2>1. ByPairs(V, merge, tree)
    BY TreeGrows
  <2>2. y \in V /\ 2 * 0 + 1 = 1 /\ 2 * 0 = 0
    BY <1>4
  <2> HIDE DEF tree, last
  <2>3. tree[1][row][last] = tree[0][Above(merge, row)][merge[row[0]][last]]
    <3>1. last \in V
      BY <1>4 DEF last
    <3>2. \A n \in Nat : tree[2 * n + 1][row][last] = tree[n][Above(merge, row)][merge[row[2 * n]][last]]
      BY <1>2, <2>1, <3>1 DEF ByPairs
    <3> QED
      BY <2>2, <3>2
  <2>4. tree[0][Above(merge, row)][y] = y
    <3> HIDE DEF y
    <3> QED
      BY <1>4, <2>1, <2>2 DEF ByPairs
  <2> QED
    BY <2>2, <2>3, <2>4 DEF tree, last
<1>6. list = <<list[1], list[2]>>
  BY <1>2
<1> QED
  BY <1>3, <1>4, <1>5, <1>6

\* The length and the members of two lists, one after the other
Joins(V, a, b) ==
  /\ a \o b \in Seq(V)
  /\ Len(a \o b) = Len(a) + Len(b)
  /\ \A i \in 1 .. Len(a) : (a \o b)[i] = a[i]
  /\ \A i \in 1 .. Len(b) : (a \o b)[i + Len(a)] = b[i]

\* As Joined, in a form the provers instantiate
LEMMA SeqsJoin ==
  ASSUME NEW V, NEW a \in Seq(V), NEW b \in Seq(V)
  PROVE  Joins(V, a, b)
BY Joined DEF Joins

\* Two lists, one after the other, the first of them over a complete subtree
JoinsTo(V, merge, a, b, v) ==
  /\ Listed(V, merge, a \o b, v)
  /\ Len(a \o b) = Len(a) + Len(b)
  /\ Len(b) >= 1

\* The list of a complete subtree, then that of its right sibling, is the list of their parent.
LEMMA JoinListed ==
  ASSUME NEW V, NEW merge \in [V -> [V -> V]], NEW a, NEW b, NEW x, NEW y,
         Listed(V, merge, a, x), Listed(V, merge, b, y),
         NEW k \in Nat, Len(a) = 2 ^ k, Len(b) <= 2 ^ k
  PROVE  JoinsTo(V, merge, a, b, merge[x][y])
<1> DEFINE p == 2 ^ k
           q == Len(b)
           n == q - 1
           tree == Tree(V, merge)
<1>0. p \in Nat \ {0}
  BY PowerIsCount, Zenon
<1> HIDE DEF p
<1>1. PICK r : OnRow(V, merge, a, r, x)
  BY DEF Listed
<1>2. PICK s : OnRow(V, merge, b, s, y)
  BY DEF Listed
<1>3. /\ a \in Seq(V) /\ r \in Row(V) /\ Len(a) = p
      /\ \A i \in 1 .. p : a[i] = r[i - 1]
      /\ x = tree[p - 1][r][r[p - 1]]
  BY <1>1 DEF OnRow, p
<1>4. /\ b \in Seq(V) /\ s \in Row(V) /\ q \in Nat /\ q >= 1 /\ q <= p
      /\ \A i \in 1 .. q : b[i] = s[i - 1]
      /\ y = tree[n][s][s[n]]
  BY <1>2 DEF OnRow, p
<1> HIDE DEF q
<1>5. n \in Nat /\ n < p /\ q = n + 1 /\ p - 1 \in Nat
  BY <1>0, <1>4
<1> HIDE DEF n
<1> DEFINE row == [i \in Nat |-> IF i < p THEN r[i] ELSE s[i - p]]
           list == a \o b
<1>6. row \in Row(V)
  <2>1. \A i \in Nat : (IF i < p THEN r[i] ELSE s[i - p]) \in V
    <3> SUFFICES ASSUME NEW i \in Nat PROVE (IF i < p THEN r[i] ELSE s[i - p]) \in V
      OBVIOUS
    <3>1. CASE i < p
      BY <1>3, <3>1 DEF Row
    <3>2. CASE ~(i < p)
      <4>1. i - p \in Nat
        BY <1>0, <3>2
      <4> QED
        BY <1>4, <3>2, <4>1 DEF Row
    <3> QED
      BY <3>1, <3>2
  <2> QED
    BY <2>1 DEF Row
<1>7. Shifted(row, p) = s
  <2>1. \A i \in Nat : row[p + i] = s[i]
    BY <1>0
  <2>2. s = [i \in Nat |-> s[i]]
    BY <1>4 DEF Row
  <2> HIDE DEF row
  <2> QED
    BY <2>1, <2>2 DEF Shifted
<1>8. \A i \in 0 .. p - 1 : row[i] = r[i]
  BY <1>0
<1>9. \A i \in 0 .. n : row[p + i] = s[i]
  BY <1>0, <1>5
<1> HIDE DEF row
<1>10. /\ list \in Seq(V) /\ Len(list) = p + q
       /\ \A i \in 1 .. p : list[i] = a[i]
       /\ \A i \in 1 .. q : list[i + p] = b[i]
  <2>1. /\ list \in Seq(V) /\ Len(list) = Len(a) + Len(b)
        /\ \A i \in 1 .. Len(a) : list[i] = a[i]
        /\ \A i \in 1 .. Len(b) : list[i + Len(a)] = b[i]
    <3>1. a \in Seq(V) /\ b \in Seq(V)
      BY <1>3, <1>4
    <3> HIDE DEF list
    <3>2. Joins(V, a, b)
      BY <3>1, SeqsJoin
    <3> QED
      BY <3>2 DEF Joins, list
  <2> HIDE DEF list
  <2> QED
    BY <1>3, <2>1, Zenon DEF q
<1> HIDE DEF list
<1>11. ASSUME NEW i \in 1 .. p + q PROVE list[i] = row[i - 1]
  <2>1. CASE i <= p
    <3>1. i \in 1 .. p /\ i - 1 \in 0 .. p - 1
      BY <1>0, <2>1
    <3> QED
      BY <1>3, <1>8, <1>10, <3>1
  <2>2. CASE ~(i <= p)
    <3> DEFINE j == i - p
    <3>1. j \in 1 .. q /\ i = j + p /\ j - 1 \in 0 .. n /\ i - 1 = p + (j - 1)
      BY <1>0, <1>4, <1>5, <2>2
    <3> HIDE DEF j
    <3>2. list[i] = b[j]
      BY <1>10, <3>1
    <3>3. b[j] = s[j - 1]
      BY <1>4, <3>1
    <3>4. row[i - 1] = s[j - 1]
      BY <1>9, <3>1
    <3> QED
      BY <3>2, <3>3, <3>4
  <2> QED
    BY <2>1, <2>2
<1>12. (p + q) - 1 = p + n /\ row[p + n] = s[n] /\ s[n] \in V
  BY <1>0, <1>4, <1>5, <1>9 DEF Row
<1>13. tree[p + n][row][s[n]] = merge[x][y]
  <2>1. tree[p + n][row][s[n]] = merge[Up(V, merge)[k][row][0]][tree[n][Shifted(row, p)][s[n]]]
    <3>1. n < 2 ^ k
      BY <1>5 DEF p
    <3>2. SplitsAt(V, merge, k, n, row, s[n])
      BY <1>5, <1>6, <1>12, <3>1, TreeSplits
    <3> QED
      BY <3>2, Zenon DEF SplitsAt, p
  <2>2. Up(V, merge)[k][row][0] = x
    <3> DEFINE w == Up(V, merge)[k][row]
               l == p - 1
    <3>1. Raised(V, merge, k, 0, row)
      BY <1>6, TreeRaised
    <3>2. (0 + 1) * p - 1 = l
      BY <1>0
    <3>3. tree[0][w][w[0]] = tree[l][row][row[l]]
      BY <3>1, <3>2 DEF Raised, p
    <3>4. w \in Row(V) /\ w[0] \in V
      <4>1. UpByRows(V, merge, Up(V, merge))
        BY UpAbove
      <4>2. w \in Row(V)
        BY <1>6, <4>1 DEF UpByRows
      <4> HIDE DEF w
      <4> QED
        BY <4>2 DEF Row
    <3> HIDE DEF w, l
    <3>5. tree[0][w][w[0]] = w[0]
      <4>1. ByPairs(V, merge, tree)
        BY TreeGrows
      <4> HIDE DEF tree
      <4> QED
        BY <3>4, <4>1, Zenon DEF ByPairs
    <3>6. l \in Nat /\ row[l] = r[l] /\ row[l] \in V /\ \A i \in 0 .. l - 1 : row[i] = r[i]
      BY <1>0, <1>5, <1>6, <1>8 DEF l, Row
    <3>7. tree[l][row][row[l]] = tree[l][r][row[l]]
      BY <1>3, <1>6, <3>6, SameTree
    <3> QED
      BY <1>3, <3>3, <3>5, <3>6, <3>7, Zenon DEF w, l
  <2> QED
    BY <1>4, <1>7, <2>1, <2>2
<1>14. OnRow(V, merge, list, row, merge[x][y])
  <2>1. Len(list) # 0 /\ Len(list) - 1 = p + n
    BY <1>0, <1>4, <1>10, <1>12
  <2>2. merge[x][y] = tree[Len(list) - 1][row][row[Len(list) - 1]]
    BY <1>12, <1>13, <2>1
  <2> QED
    BY <1>6, <1>10, <1>11, <2>1, <2>2, Zenon DEF OnRow
<1>15. Listed(V, merge, list, merge[x][y])
  BY <1>14 DEF Listed
<1> QED
  BY <1>3, <1>4, <1>10, <1>15, Zenon DEF list, q, JoinsTo
=============================================================================
