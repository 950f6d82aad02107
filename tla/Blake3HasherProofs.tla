------------------------- MODULE Blake3HasherProofs -------------------------
(***************************************************************************)
(* The incremental hasher, for every chunk length that is a power of two,  *)
(* every maximal depth, machine, mode and cut of the input: its hash is    *)
(* that of the reference implementation and that of the one-shot           *)
(* functions, subtrees hashed apart merge into it, and its stack never     *)
(* outgrows its room.                                                      *)
(*                                                                         *)
(* One thing is behind all of these.  Over a row of leaves, the values of  *)
(* the chunks, there is one tree (Tree); Subtree is its value for a part   *)
(* of the input.  It can be reached in many ways, and the code knows       *)
(* four: from the bottom, a row of parents at a time (Above, Up), as       *)
(* compress_subtree_wide does; from the top, split where the longest       *)
(* complete subtree ends (TreeSplits), as hash_all_at_once does; from      *)
(* left to right, merging a value as often as there are zeros at the end   *)
(* of the count of leaves (Carried), as the reference does; and lazily,    *)
(* merging as late as possible what waits on the stack (Settles), as the   *)
(* Hasher does.  What waits after n leaves is a sequence with one value    *)
(* for each one in the binary digits of n (Waits); merged from the top     *)
(* with a last leaf, it is the tree (TreeFolds).                           *)
(*                                                                         *)
(* The values themselves are ideal: Vals is a set that the compression     *)
(* does not lead out of.  A chunk's value does not depend on how its       *)
(* units are given (ChunkUpdated, RefChunkUpdated), nor on whether it is   *)
(* hashed alone or with others (ChunkHashed).                              *)
(*                                                                         *)
(* HasherInv then says in which states the hasher is: those that n units   *)
(* from its starting point on lead to (HasherAt), up to one choice: the    *)
(* last subtree pushed may not be merged yet.  A hasher that was reset     *)
(* after an offset is the exception; nothing but a panic or another reset  *)
(* follows it.                                                             *)
(*                                                                         *)
(* Loops of the code are functions of the number of turns in the model,    *)
(* and recursions are functions of the length of what is left; for each    *)
(* there is a lemma that the function exists.  A lemma about what one does *)
(* is by induction (module Arithmetic).                                    *)
(***************************************************************************)
EXTENDS Arithmetic, Sequences, SequenceTheorems, TLAPS, Blake3Incremental

(***************************************************************************)
(* The arithmetic of the hasher.                                           *)
(***************************************************************************)
\* CountOnes exists, and counts the ones of n as it is defined to.
LEMMA CountOnesIs ==
  /\ Hasher!CountOnes \in [Nat -> Nat]
  /\ \A n \in Nat : Hasher!CountOnes[n] =
       IF n = 0 THEN 0 ELSE (n % 2) + Hasher!CountOnes[n \div 2]
<1> DEFINE F(f) == [n \in Nat |-> IF n = 0 THEN 0 ELSE (n % 2) + f[n \div 2]]
           half == [n \in Nat |-> n \div 2]
           step == [n \in Nat |-> [x \in Nat |-> (n % 2) + x]]
           small == {0}
           zero == [n \in Nat |-> 0]
<1>1. \E f : Halved(Nat, small, zero, half, step, f)
  <2>1. \A n \in Nat : n \in small => zero[n] \in Nat
    OBVIOUS
  <2>2. \A n \in Nat : n \notin small => half[n] \in Nat /\ half[n] < n
    OBVIOUS
  <2>3. \A n \in Nat : n \notin small => \A x \in Nat : step[n][x] \in Nat
    OBVIOUS
  <2> HIDE DEF half, step, zero, small, F
  <2> QED
    BY <2>1, <2>2, <2>3, HalvesExist, Zenon DEF CanHalve
<1>2. \E f \in [Nat -> Nat] : f = F(f)
  <2>1. PICK f \in [Nat -> Nat] :
          \A n \in Nat : f[n] = IF n \in small THEN zero[n] ELSE step[n][f[half[n]]]
    BY <1>1 DEF Halved
  <2>2. ASSUME NEW n \in Nat PROVE f[n] = F(f)[n]
    <3>1. f[n] = IF n = 0 THEN 0 ELSE step[n][f[n \div 2]]
      BY <2>1
    <3>2. n \div 2 \in Nat /\ f[n \div 2] \in Nat
      BY <2>1
    <3> QED
      BY <3>1, <3>2
  <2> QED
    BY <2>2
<1>3. PICK f \in [Nat -> Nat] : f = F(f)
  BY <1>2
<1>4. Hasher!CountOnes = F(Hasher!CountOnes)
  BY <1>3 DEF Hasher!CountOnes
<1>5. \A n \in Nat : Hasher!CountOnes[n] = F(Hasher!CountOnes)[n]
  BY <1>4
<1>6. \A n \in Nat : Hasher!CountOnes[n] =
        IF n = 0 THEN 0 ELSE (n % 2) + Hasher!CountOnes[n \div 2]
  BY <1>5
<1>7. \A n \in Nat : Hasher!CountOnes[n] \in Nat
  <2> DEFINE c == Hasher!CountOnes
             S == {m \in Nat : \A n \in 0 .. m : c[n] \in Nat}
  <2> HIDE DEF c
  <2>1. 0 \in S
    BY <1>6 DEF c
  <2>2. ASSUME NEW m \in Nat, m \in S PROVE m + 1 \in S
    <3>1. (m + 1) \div 2 \in 0 .. m /\ (m + 1) % 2 \in Nat
      OBVIOUS
    <3>2. c[(m + 1) \div 2] \in Nat
      BY <2>2, <3>1
    <3>3. c[m + 1] = ((m + 1) % 2) + c[(m + 1) \div 2]
      BY <1>6 DEF c
    <3> QED
      BY <2>2, <3>1, <3>2, <3>3
  <2>3. \A m \in Nat : m \in S
    <3> HIDE DEF S
    <3> QED
      BY <2>1, <2>2, Induction
  <2> QED
    BY <2>3 DEF c
<1>8. Hasher!CountOnes \in [Nat -> Nat]
  BY <1>4, <1>7
<1> QED
  BY <1>6, <1>8

\* One more where a number is odd.
LEMMA OnesOfPairs ==
  \A n \in Nat : /\ Hasher!CountOnes[n] \in Nat
                 /\ Hasher!CountOnes[2 * n] = Hasher!CountOnes[n]
                 /\ Hasher!CountOnes[2 * n + 1] = Hasher!CountOnes[n] + 1
<1> DEFINE c == Hasher!CountOnes
<1>1. \A x \in Nat : c[x] \in Nat /\ c[x] = IF x = 0 THEN 0 ELSE (x % 2) + c[x \div 2]
  BY CountOnesIs
<1> HIDE DEF c
<1>2. ASSUME NEW n \in Nat
      PROVE  c[n] \in Nat /\ c[2 * n] = c[n] /\ c[2 * n + 1] = c[n] + 1
  <2>1. /\ 2 * n \in Nat /\ (2 * n) % 2 = 0 /\ (2 * n) \div 2 = n
        /\ 2 * n + 1 \in Nat /\ (2 * n + 1) % 2 = 1 /\ (2 * n + 1) \div 2 = n
        /\ (2 * n = 0 => n = 0) /\ 2 * n + 1 # 0
    OBVIOUS
  <2>2. c[2 * n] = IF 2 * n = 0 THEN 0 ELSE 0 + c[n]
    BY <1>1, <2>1
  <2>3. c[2 * n + 1] = 1 + c[n]
    BY <1>1, <2>1, Zenon
  <2> QED
    BY <1>1, <2>1, <2>2, <2>3
<1> QED
  BY <1>2 DEF c

\* A number has no more ones than digits.
LEMMA OnesFit ==
  ASSUME NEW d \in Nat, NEW n \in Nat, n < 2 ^ d
  PROVE  Hasher!CountOnes[n] \in 0 .. d
<1> DEFINE c == Hasher!CountOnes
           S == {m \in Nat : \A x \in Nat : x < 2 ^ m => c[x] \in 0 .. m}
<1>1. \A x \in Nat : c[x] \in Nat /\ c[x] = IF x = 0 THEN 0 ELSE (x % 2) + c[x \div 2]
  BY CountOnesIs
<1> HIDE DEF c
<1>2. 0 \in S
  <2>1. 2 ^ 0 = 1
    BY PowerIsCount, SMT
  <2> QED
    BY <1>1, <2>1
<1>3. ASSUME NEW m \in Nat, m \in S PROVE m + 1 \in S
  <2> SUFFICES ASSUME NEW x \in Nat, x < 2 ^ (m + 1) PROVE c[x] \in 0 .. m + 1
    OBVIOUS
  <2>1. 2 ^ (m + 1) = 2 * 2 ^ m /\ 2 ^ m \in Nat \ {0}
    BY PowerDoubles
  <2>2. CASE x = 0
    BY <1>1, <2>2
  <2>3. CASE x # 0
    <3> DEFINE p == 2 ^ m
               h == x \div 2
    <3>1. p \in Nat /\ x < 2 * p
      BY <2>1
    <3> HIDE DEF p
    <3>2. h \in Nat /\ h < p /\ x % 2 \in 0 .. 1
      BY <3>1
    <3>3. c[h] \in 0 .. m
      BY <1>3, <3>2 DEF p
    <3>4. c[x] = (x % 2) + c[h]
      BY <1>1, <2>3
    <3> HIDE DEF h
    <3> QED
      BY <3>2, <3>3, <3>4
  <2> QED
    BY <2>2, <2>3
<1>4. \A m \in Nat : m \in S
  <2> HIDE DEF S
  <2> QED
    BY <1>2, <1>3, Induction
<1> QED
  BY <1>4 DEF c

\* NextPowerOfTwo exists, and is defined by the half.
LEMMA NextPowerIs ==
  \A n \in Nat : Hasher!NextPowerOfTwo[n] =
    IF n <= 1 THEN 1 ELSE 2 * Hasher!NextPowerOfTwo[(n + 1) \div 2]
<1> DEFINE F(f) == [n \in Nat |-> IF n <= 1 THEN 1 ELSE 2 * f[(n + 1) \div 2]]
           half == [n \in Nat |-> (n + 1) \div 2]
           step == [n \in Nat |-> [x \in Nat |-> 2 * x]]
           small == {0, 1}
           one == [n \in Nat |-> 1]
<1>1. \E f : Halved(Nat, small, one, half, step, f)
  <2>1. \A n \in Nat : n \in small => one[n] \in Nat
    OBVIOUS
  <2>2. \A n \in Nat : n \notin small => half[n] \in Nat /\ half[n] < n
    OBVIOUS
  <2>3. \A n \in Nat : n \notin small => \A x \in Nat : step[n][x] \in Nat
    OBVIOUS
  <2> HIDE DEF half, step, one, small, F
  <2> QED
    BY <2>1, <2>2, <2>3, HalvesExist, Zenon DEF CanHalve
<1>2. PICK f \in [Nat -> Nat] :
        \A n \in Nat : f[n] = IF n \in small THEN one[n] ELSE step[n][f[half[n]]]
  BY <1>1 DEF Halved
<1>3. ASSUME NEW n \in Nat PROVE f[n] = F(f)[n]
  <2>1. f[n] = IF n <= 1 THEN 1 ELSE step[n][f[(n + 1) \div 2]]
    BY <1>2
  <2>2. (n + 1) \div 2 \in Nat /\ f[(n + 1) \div 2] \in Nat
    BY <1>2
  <2> QED
    BY <2>1, <2>2
<1>4. f = F(f)
  BY <1>3
<1>5. Hasher!NextPowerOfTwo = F(Hasher!NextPowerOfTwo)
  BY <1>4 DEF Hasher!NextPowerOfTwo
<1>6. \A n \in Nat : Hasher!NextPowerOfTwo[n] = F(Hasher!NextPowerOfTwo)[n]
  BY <1>5
<1> QED
  BY <1>6

\* A chunk is of 2^c units, at least one block of two.
LEMMA SizesAre ==
  ASSUME Hasher!SizesAssumption
  PROVE  /\ CHUNK_LEN \in Nat /\ CHUNK_LEN >= 2 /\ Hasher!BLOCK_LEN = 2
         /\ CHUNK_LEN = 2 * (CHUNK_LEN \div 2)
         /\ \E c \in Nat : CHUNK_LEN = 2 ^ c
         /\ MAX_DEPTH \in Nat
<1>1. PICK k \in 1 .. 30 : CHUNK_LEN = 2 ^ k
  BY Zenon DEF Hasher!SizesAssumption
<1>2. k - 1 \in Nat /\ (k - 1) + 1 = k
  OBVIOUS
<1>3. 2 ^ k = 2 * 2 ^ (k - 1) /\ 2 ^ (k - 1) \in Nat \ {0}
  <2>1. 2 ^ ((k - 1) + 1) = 2 * 2 ^ (k - 1) /\ 2 ^ (k - 1) \in Nat \ {0}
    BY <1>2, PowerDoubles
  <2> QED
    BY <1>2, <2>1
<1>4. CHUNK_LEN \in Nat /\ CHUNK_LEN >= 2 /\ CHUNK_LEN = 2 * (CHUNK_LEN \div 2)
  <2> DEFINE p == 2 ^ (k - 1)
  <2>1. p \in Nat \ {0} /\ CHUNK_LEN = 2 * p
    BY <1>1, <1>3
  <2> HIDE DEF p
  <2> QED
    BY <2>1
<1>5. Hasher!BLOCK_LEN = 2
  BY DEF Hasher!BLOCK_LEN, Hasher!OUT_LEN
<1> QED
  BY <1>1, <1>4, <1>5 DEF Hasher!SizesAssumption

\* The lengths of the subtrees
Tall(i) == CHUNK_LEN * 2 ^ i

\* Each is twice the one before, and the first is a chunk.
LEMMA TallIs ==
  ASSUME Hasher!SizesAssumption, NEW i \in Nat
  PROVE  /\ Tall(i) \in Nat /\ Tall(i) >= CHUNK_LEN /\ Tall(0) = CHUNK_LEN
         /\ Tall(i + 1) = 2 * Tall(i)
         /\ 2 ^ i \in Nat \ {0} /\ Tall(i) = CHUNK_LEN * 2 ^ i
         /\ i # 0 => 2 ^ i = 2 * (2 ^ i \div 2)
<1> DEFINE p == 2 ^ i
           q == 2 ^ (i + 1)
<1>1. q = 2 * p /\ p \in Nat \ {0}
  BY PowerDoubles
<1>2. 2 ^ 0 = 1
  BY PowerIsCount, SMT
<1>3. i # 0 => 2 ^ i = 2 * (2 ^ i \div 2)
  <2> SUFFICES ASSUME i # 0 PROVE p = 2 * (p \div 2)
    OBVIOUS
  <2> DEFINE r == 2 ^ (i - 1)
  <2>1. i - 1 \in Nat /\ (i - 1) + 1 = i
    OBVIOUS
  <2>2. 2 ^ ((i - 1) + 1) = 2 * 2 ^ (i - 1) /\ 2 ^ (i - 1) \in Nat \ {0}
    BY <2>1, PowerDoubles
  <2>3. p = 2 * r /\ r \in Nat
    BY <2>1, <2>2
  <2> HIDE DEF p, r
  <2> QED
    BY <2>3
<1> HIDE DEF p, q
<1>4. CHUNK_LEN \in Nat /\ CHUNK_LEN >= 2
  BY SizesAre
<1>5. /\ CHUNK_LEN * p \in Nat /\ CHUNK_LEN * p >= CHUNK_LEN
      /\ CHUNK_LEN * q = 2 * (CHUNK_LEN * p) /\ CHUNK_LEN * 1 = CHUNK_LEN
  BY <1>1, <1>4
<1>6. Tall(i) = CHUNK_LEN * p /\ Tall(i + 1) = CHUNK_LEN * q /\ Tall(0) = CHUNK_LEN * 1
  BY <1>2 DEF Tall, p, q
<1> QED
  BY <1>1, <1>3, <1>5, <1>6 DEF p

\* No subtree is shorter than a chunk.
LEMMA TallDoubles ==
  ASSUME Hasher!SizesAssumption, NEW i \in Nat
  PROVE  Tall(i) \in Nat /\ Tall(i) >= CHUNK_LEN /\ Tall(i + 1) = 2 * Tall(i)
BY TallIs

\* NextPowerOfTwo of n is a power of two that is not below n, the least.
LEMMA NextPowerIsPower ==
  ASSUME NEW c \in Nat
  PROVE  \A m \in Nat : m <= 2 ^ c /\ 2 ^ c < 2 * m => Hasher!NextPowerOfTwo[m] = 2 ^ c
<1> DEFINE next == Hasher!NextPowerOfTwo
           S == {k \in Nat : \A m \in Nat : m <= 2 ^ k /\ 2 ^ k < 2 * m => next[m] = 2 ^ k}
<1>1. \A n \in Nat : next[n] = IF n <= 1 THEN 1 ELSE 2 * next[(n + 1) \div 2]
  BY NextPowerIs
<1> HIDE DEF next
<1>2. 0 \in S
  <2>1. 2 ^ 0 = 1
    BY PowerIsCount, SMT
  <2> QED
    BY <1>1, <2>1
<1>3. ASSUME NEW k \in Nat, k \in S PROVE k + 1 \in S
  <2> SUFFICES ASSUME NEW m \in Nat, m <= 2 ^ (k + 1), 2 ^ (k + 1) < 2 * m
               PROVE  next[m] = 2 ^ (k + 1)
    OBVIOUS
  <2> DEFINE p == 2 ^ k
             h == (m + 1) \div 2
  <2>1. 2 ^ (k + 1) = 2 * p /\ p \in Nat \ {0}
    BY PowerDoubles
  <2> HIDE DEF p
  <2>2. h \in Nat /\ h <= p /\ p < 2 * h /\ m > 1
    BY <2>1
  <2>3. next[h] = p
    BY <1>3, <2>2 DEF p
  <2>4. next[m] = 2 * next[h]
    BY <1>1, <2>2
  <2> QED
    BY <2>1, <2>3, <2>4
<1>4. \A k \in Nat : k \in S
  <2> HIDE DEF S
  <2> QED
    BY <1>2, <1>3, Induction
<1> QED
  BY <1>4 DEF next

\* From a chunk on, the powers of two are the lengths of subtrees.
LEMMA NextPowerIsTall ==
  ASSUME Hasher!SizesAssumption, NEW i \in Nat
  PROVE  \A m \in Nat : m <= Tall(i) /\ Tall(i) < 2 * m => Hasher!NextPowerOfTwo[m] = Tall(i)
<1> DEFINE next == Hasher!NextPowerOfTwo
           S == {k \in Nat : \A m \in Nat : m <= Tall(k) /\ Tall(k) < 2 * m => next[m] = Tall(k)}
<1>1. \A n \in Nat : next[n] = IF n <= 1 THEN 1 ELSE 2 * next[(n + 1) \div 2]
  BY NextPowerIs
<1>2. 0 \in S
  <2>1. PICK c \in Nat : CHUNK_LEN = 2 ^ c
    BY SizesAre
  <2>2. Tall(0) = 2 ^ c
    BY <2>1, TallIs
  <2>3. \A m \in Nat : m <= 2 ^ c /\ 2 ^ c < 2 * m => next[m] = 2 ^ c
    BY NextPowerIsPower
  <2> HIDE DEF next
  <2> QED
    BY <2>2, <2>3
<1> HIDE DEF next
<1>3. ASSUME NEW k \in Nat, k \in S PROVE k + 1 \in S
  <2> SUFFICES ASSUME NEW m \in Nat, m <= Tall(k + 1), Tall(k + 1) < 2 * m
               PROVE  next[m] = Tall(k + 1)
    OBVIOUS
  <2> DEFINE p == Tall(k)
             h == (m + 1) \div 2
  <2>1. Tall(k + 1) = 2 * p /\ p \in Nat /\ p >= 2
    <3>1. CHUNK_LEN >= 2 /\ CHUNK_LEN \in Nat
      BY SizesAre
    <3>2. Tall(k) \in Nat /\ Tall(k) >= CHUNK_LEN /\ Tall(k + 1) = 2 * Tall(k)
      BY TallDoubles
    <3> QED
      BY <3>1, <3>2
  <2> HIDE DEF p
  <2>2. h \in Nat /\ h <= p /\ p < 2 * h /\ m > 1
    BY <2>1
  <2>3. next[h] = p
    BY <1>3, <2>2 DEF p
  <2>4. next[m] = 2 * next[h]
    BY <1>1, <2>2
  <2> QED
    BY <2>1, <2>3, <2>4
<1>4. \A k \in Nat : k \in S
  <2> HIDE DEF S
  <2> QED
    BY <1>2, <1>3, Induction
<1> QED
  BY <1>4 DEF next

\* Between n and its double there is the length of a subtree.
LEMMA TallAbove ==
  ASSUME Hasher!SizesAssumption, NEW m \in Nat, CHUNK_LEN < 2 * m
  PROVE  \E i \in Nat : m <= Tall(i) /\ Tall(i) < 2 * m
<1> DEFINE S == {n \in Nat : CHUNK_LEN < 2 * n =>
                               \E i \in Nat : n <= Tall(i) /\ Tall(i) < 2 * n}
           half == CHUNK_LEN \div 2
<1>1. CHUNK_LEN \in Nat /\ CHUNK_LEN >= 2 /\ CHUNK_LEN = 2 * half /\ half \in Nat
  <2>1. CHUNK_LEN \in Nat /\ CHUNK_LEN >= 2 /\ CHUNK_LEN = 2 * half
    BY SizesAre
  <2> QED
    BY <2>1
<1> HIDE DEF half
<1>2. 0 \in S
  BY <1>1
<1>3. ASSUME NEW n \in Nat, n \in S PROVE n + 1 \in S
  <2> SUFFICES ASSUME CHUNK_LEN < 2 * (n + 1)
               PROVE  \E i \in Nat : n + 1 <= Tall(i) /\ Tall(i) < 2 * (n + 1)
    OBVIOUS
  <2>1. CASE ~(CHUNK_LEN < 2 * n)
    <3>1. Tall(0) = CHUNK_LEN
      BY TallIs
    <3>2. n + 1 <= CHUNK_LEN
      <4>1. n <= half /\ half >= 1 /\ half \in Nat
        BY <1>1, <2>1
      <4> QED
        BY <1>1, <4>1
    <3> QED
      BY <3>1, <3>2
  <2>2. CASE CHUNK_LEN < 2 * n
    <3>1. PICK i \in Nat : n <= Tall(i) /\ Tall(i) < 2 * n
      BY <1>3, <2>2
    <3>2. Tall(i) \in Nat /\ Tall(i + 1) = 2 * Tall(i) /\ i + 1 \in Nat
      BY TallDoubles
    <3>3. CASE n + 1 <= Tall(i)
      BY <3>1, <3>2, <3>3
    <3>4. CASE ~(n + 1 <= Tall(i))
      <4>1. n + 1 <= Tall(i + 1) /\ Tall(i + 1) < 2 * (n + 1)
        BY <1>1, <2>2, <3>1, <3>2, <3>4
      <4> QED
        BY <3>2, <4>1
    <3> QED
      BY <3>3, <3>4
  <2> QED
    BY <2>1, <2>2
<1>4. \A n \in Nat : n \in S
  <2> HIDE DEF S
  <2> QED
    BY <1>2, <1>3, Induction
<1> QED
  BY <1>4

\* LargestPowerOfTwoLeq of more than a chunk is the length of a subtree.
LEMMA LargestIsTall ==
  ASSUME Hasher!SizesAssumption, NEW n \in Nat, n > CHUNK_LEN
  PROVE  \E i \in Nat : Hasher!LargestPowerOfTwoLeq(n) = Tall(i) /\ Tall(i) <= n
<1> DEFINE m == (n \div 2) + 1
<1>1. CHUNK_LEN \in Nat /\ CHUNK_LEN >= 2
  BY SizesAre
<1>2. m \in Nat /\ CHUNK_LEN < 2 * m
  BY <1>1
<1>3. PICK i \in Nat : m <= Tall(i) /\ Tall(i) < 2 * m
  BY <1>2, TallAbove
<1>4. Hasher!NextPowerOfTwo[m] = Tall(i)
  <2> HIDE DEF m
  <2> QED
    BY <1>2, <1>3, NextPowerIsTall
<1>5. Tall(i) <= n
  <2>1. \E h \in Nat : Tall(i) = 2 * h
    <3>1. CASE i = 0
      <4>1. Tall(i) = CHUNK_LEN /\ CHUNK_LEN = 2 * (CHUNK_LEN \div 2)
        BY <3>1, SizesAre, TallIs, Zenon
      <4> QED
        BY <1>1, <4>1
    <3>2. CASE i # 0
      <4>1. i - 1 \in Nat /\ (i - 1) + 1 = i
        BY <3>2
      <4>2. Tall((i - 1) + 1) = 2 * Tall(i - 1) /\ Tall(i - 1) \in Nat
        BY <4>1, TallIs, Zenon
      <4> QED
        BY <4>1, <4>2
    <3> QED
      BY <3>1, <3>2
  <2>2. PICK h \in Nat : Tall(i) = 2 * h
    BY <2>1
  <2> QED
    BY <1>3, <2>2
<1> QED
  BY <1>4, <1>5 DEF Hasher!LargestPowerOfTwoLeq

\* The next subtree is a chunk or a whole number of doublings of it, and starts
\* where one of its length may: where chunks end, a chunk fits.
LEMMA HalveToFitIs ==
  ASSUME Hasher!SizesAssumption, NEW i \in Nat, NEW k \in Nat
  PROVE  \E j \in Nat : /\ Hasher!HalveToFit(Tall(i), k * CHUNK_LEN) = Tall(j)
                        /\ Tall(j) <= Tall(i)
                        /\ (k * CHUNK_LEN) % Tall(j) = 0
<1> DEFINE len == Tall(i)
           count == k * CHUNK_LEN
           F(f) == [n \in 1 .. len |-> IF count % n = 0 THEN n ELSE f[n \div 2]]
           small == {n \in Nat : n <= 1 \/ count % n = 0}
           base == [n \in Nat |-> n]
           half == [n \in Nat |-> n \div 2]
           step == [n \in Nat |-> base]
           fits == CHOOSE f : f = F(f)
<1>1. CHUNK_LEN \in Nat /\ CHUNK_LEN >= 2 /\ count \in Nat
  <2>1. CHUNK_LEN \in Nat /\ CHUNK_LEN >= 2
    BY SizesAre
  <2> QED
    BY <2>1
<1>2. len \in Nat /\ len >= CHUNK_LEN
  BY TallDoubles
<1>3. count % CHUNK_LEN = 0
  <2>1. CHUNK_LEN \in Nat \ {0}
    BY <1>1
  <2> QED
    BY <2>1, SMT
<1> HIDE DEF count, len
<1>4. \E f : Halved(Nat, small, base, half, step, f)
  <2>1. \A n \in Nat : n \in small => base[n] \in Nat
    OBVIOUS
  <2>2. \A n \in Nat : n \notin small => half[n] \in Nat /\ half[n] < n
    OBVIOUS
  <2>3. \A n \in Nat : n \notin small => \A x \in Nat : step[n][x] \in Nat
    OBVIOUS
  <2> HIDE DEF small, base, half, step, F, fits
  <2> QED
    BY <2>1, <2>2, <2>3, HalvesExist, Zenon DEF CanHalve
<1>5. \E f : f = F(f)
  <2>1. PICK g : Halved(Nat, small, base, half, step, g)
    BY <1>4, Zenon
  <2> DEFINE f == [n \in 1 .. len |-> g[n]]
  <2>2. ASSUME NEW n \in 1 .. len PROVE f[n] = F(f)[n]
    <3>1. g \in [Nat -> Nat] /\ g[n] = IF n \in small THEN n ELSE step[n][g[n \div 2]]
      <4>1. g[n] = IF n \in small THEN base[n] ELSE step[n][g[half[n]]]
        BY <2>1 DEF Halved
      <4>2. base[n] = n /\ half[n] = n \div 2
        OBVIOUS
      <4> QED
        BY <2>1, <4>1, <4>2 DEF Halved
    <3>2. n \div 2 \in Nat /\ g[n \div 2] \in Nat
      BY <3>1
    <3>3. step[n][g[n \div 2]] = g[n \div 2]
      BY <3>2
    <3>4. CASE count % n = 0
      BY <3>1, <3>4
    <3>5. CASE count % n # 0
      <4>1. n # 1
        BY <1>1, <3>5
      <4>2. n \notin small /\ n \div 2 \in 1 .. len
        BY <1>2, <3>5, <4>1
      <4> HIDE DEF small, step
      <4> QED
        BY <3>1, <3>3, <3>5, <4>2
    <3> QED
      BY <3>4, <3>5
  <2>3. f = F(f)
    <3> HIDE DEF f
    <3>1. f = [n \in 1 .. len |-> f[n]]
      BY DEF f
    <3> QED
      BY <2>2, <3>1, Zenon
  <2> QED
    BY <2>3, Zenon
<1>6. fits = F(fits)
  <2> HIDE DEF F
  <2> QED
    BY <1>5
<1> HIDE DEF fits
<1>7. \A n \in 1 .. len : fits[n] = IF count % n = 0 THEN n ELSE fits[n \div 2]
  <2>1. \A n \in 1 .. len : fits[n] = F(fits)[n]
    BY <1>6, Zenon
  <2> QED
    BY <2>1
<1>8. Hasher!HalveToFit(len, count) = fits[len]
  BY DEF Hasher!HalveToFit, fits
<1> DEFINE S == {m \in Nat : Tall(m) <= len =>
                   \E j \in Nat : fits[Tall(m)] = Tall(j) /\ Tall(j) <= Tall(m)
                                /\ count % Tall(j) = 0}
<1>9. 0 \in S
  <2>1. Tall(0) = CHUNK_LEN
    BY TallIs
  <2>2. fits[CHUNK_LEN] = CHUNK_LEN
    <3>1. CHUNK_LEN \in 1 .. len
      BY <1>1, <1>2
    <3> QED
      BY <1>3, <1>7, <3>1
  <2>3. fits[Tall(0)] = Tall(0) /\ Tall(0) <= Tall(0) /\ count % Tall(0) = 0
    BY <1>1, <1>3, <2>1, <2>2
  <2> QED
    BY <2>3
<1>10. ASSUME NEW m \in Nat, m \in S PROVE m + 1 \in S
  <2> SUFFICES ASSUME Tall(m + 1) <= len
               PROVE  \E j \in Nat : fits[Tall(m + 1)] = Tall(j) /\ Tall(j) <= Tall(m + 1)
                                   /\ count % Tall(j) = 0
    OBVIOUS
  <2> DEFINE p == Tall(m)
             q == Tall(m + 1)
  <2>1. p \in Nat /\ p >= CHUNK_LEN /\ q = 2 * p
    BY TallDoubles
  <2> HIDE DEF p, q
  <2>2. q \in 1 .. len /\ q \div 2 = p /\ p <= len
    BY <1>1, <1>2, <2>1 DEF q
  <2>3. PICK j \in Nat : fits[p] = Tall(j) /\ Tall(j) <= p /\ count % Tall(j) = 0
    BY <1>10, <2>2 DEF p
  <2>4. (fits[q] = q /\ count % q = 0) \/ fits[q] = fits[p]
    BY <1>7, <2>2
  <2>5. Tall(j) \in Nat /\ Tall(j) <= q
    <3>1. Tall(j) \in Nat
      BY TallDoubles
    <3> QED
      BY <2>1, <2>3, <3>1
  <2>6. CASE fits[q] = q /\ count % q = 0
    <3>1. /\ fits[Tall(m + 1)] = Tall(m + 1) /\ Tall(m + 1) <= Tall(m + 1) /\ m + 1 \in Nat
          /\ count % Tall(m + 1) = 0
      BY <2>2, <2>6 DEF q
    <3> HIDE DEF F, S
    <3> QED
      BY <3>1
  <2>7. CASE fits[q] = fits[p]
    BY <2>3, <2>5, <2>7 DEF q
  <2> QED
    BY <2>4, <2>6, <2>7
<1>11. \A m \in Nat : m \in S
  <2> HIDE DEF S
  <2> QED
    BY <1>9, <1>10, Induction
<1>12. \E j \in Nat : fits[len] = Tall(j) /\ Tall(j) <= Tall(i) /\ count % Tall(j) = 0
  <2>1. i \in S /\ len <= len
    BY <1>2, <1>11
  <2> QED
    BY <2>1 DEF len
<1> QED
  BY <1>8, <1>12 DEF len, count

(***************************************************************************)
(* What waits to be merged, and the ones of the number of leaves.          *)
(***************************************************************************)
\* As many wait as there are ones in the number of leaves.
LEMMA WaitsLength ==
  ASSUME NEW V, NEW merge \in [V -> [V -> V]]
  PROVE  \A n \in Nat, row \in Row(V) : Len(Waits(V, merge)[n][row]) = Hasher!CountOnes[n]
<1> DEFINE waits == Waits(V, merge)
           c == Hasher!CountOnes
           S == {n \in Nat : \A row \in Row(V) : Len(waits[n][row]) = c[n]}
<1>1. WaitsByPairs(V, merge, waits)
  BY WaitsGrow
<1>2. \A n \in Nat : c[n] \in Nat /\ c[2 * n] = c[n] /\ c[2 * n + 1] = c[n] + 1
  BY OnesOfPairs
<1>3. c[0] = 0
  BY CountOnesIs
<1> HIDE DEF waits, c
<1>4. 0 \in S
  BY <1>1, <1>3, EmptyIs, Zenon DEF WaitsByPairs
<1>5. ASSUME NEW n \in Nat, n \in S PROVE 2 * n \in S /\ 2 * n + 1 \in S
  <2>1. ASSUME NEW row \in Row(V)
        PROVE  Len(waits[2 * n][row]) = c[2 * n] /\ Len(waits[2 * n + 1][row]) = c[2 * n + 1]
    <3> DEFINE a == Above(merge, row)
               w == waits[n][a]
    <3>1. a \in Row(V) /\ row[2 * n] \in V
      <4>1. 2 * n \in Nat
        OBVIOUS
      <4> QED
        BY <4>1, AboveIs DEF Row
    <3>2. Len(w) = c[n] /\ w \in Seq(V)
      BY <1>1, <1>5, <3>1 DEF WaitsByPairs
    <3>3. waits[2 * n][row] = w /\ waits[2 * n + 1][row] = Append(w, row[2 * n])
      BY <1>1, Zenon DEF WaitsByPairs
    <3> HIDE DEF w
    <3>4. Len(Append(w, row[2 * n])) = Len(w) + 1
      BY <3>1, <3>2
    <3> QED
      BY <1>2, <3>2, <3>3, <3>4, Zenon
  <2>2. 2 * n \in Nat /\ 2 * n + 1 \in Nat
    OBVIOUS
  <2> QED
    BY <2>1, <2>2
<1>6. \A n \in Nat : n \in S
  <2> HIDE DEF S
  <2> QED
    BY <1>4, <1>5, Doubling
<1> QED
  BY <1>6 DEF waits, c

\* TrailingZeros exists, and is defined by the half.
LEMMA TrailingZerosIs ==
  \A n \in Nat : /\ Hasher!Ref!TrailingZeros[2 * n + 1] = 0
                 /\ n # 0 => /\ Hasher!Ref!TrailingZeros[n] \in Nat
                             /\ Hasher!Ref!TrailingZeros[2 * n] = 1 + Hasher!Ref!TrailingZeros[n]
<1> DEFINE F(f) == [n \in Nat \ {0} |-> IF n % 2 = 1 THEN 0 ELSE 1 + f[n \div 2]]
           zeros == Hasher!Ref!TrailingZeros
           small == {n \in Nat : n = 0 \/ n % 2 = 1}
           base == [n \in Nat |-> 0]
           half == [n \in Nat |-> n \div 2]
           step == [n \in Nat |-> [x \in Nat |-> 1 + x]]
<1>1. PICK g : Halved(Nat, small, base, half, step, g)
  <2>1. \A n \in Nat : n \in small => base[n] \in Nat
    OBVIOUS
  <2>2. \A n \in Nat : n \notin small => half[n] \in Nat /\ half[n] < n
    OBVIOUS
  <2>3. \A n \in Nat : n \notin small => \A x \in Nat : step[n][x] \in Nat
    OBVIOUS
  <2> HIDE DEF small, base, half, step
  <2> QED
    BY <2>1, <2>2, <2>3, HalvesExist, Zenon DEF CanHalve
<1> DEFINE f == [n \in Nat \ {0} |-> g[n]]
<1>2. ASSUME NEW n \in Nat \ {0} PROVE f[n] = IF n % 2 = 1 THEN 0 ELSE 1 + f[n \div 2]
  <2>1. g[n] = IF n \in small THEN 0 ELSE step[n][g[n \div 2]]
    <3>1. g[n] = IF n \in small THEN base[n] ELSE step[n][g[half[n]]]
      BY <1>1, Zenon DEF Halved
    <3>2. base[n] = 0 /\ half[n] = n \div 2
      OBVIOUS
    <3> HIDE DEF small, base, half, step
    <3> QED
      BY <3>1, <3>2
  <2>2. CASE n % 2 = 1
    BY <2>1, <2>2
  <2>3. CASE n % 2 # 1
    <3>1. n \notin small /\ n \div 2 \in Nat \ {0}
      BY <2>3
    <3>2. g[n \div 2] \in Nat
      BY <1>1, <3>1 DEF Halved
    <3>3. step[n][g[n \div 2]] = 1 + g[n \div 2]
      BY <3>2
    <3> HIDE DEF small, step
    <3> QED
      BY <2>1, <2>3, <3>1, <3>3
  <2> QED
    BY <2>2, <2>3
<1>3. f = F(f)
  <2>1. f = [n \in Nat \ {0} |-> f[n]]
    OBVIOUS
  <2> HIDE DEF f
  <2> QED
    BY <1>2, <2>1, Zenon
<1>4. zeros = F(zeros)
  <2> HIDE DEF F, f
  <2>1. \E e : e = F(e)
    BY <1>3
  <2> QED
    BY <2>1 DEF Hasher!Ref!TrailingZeros, F
<1> HIDE DEF zeros
<1>5. \A n \in Nat \ {0} : zeros[n] = IF n % 2 = 1 THEN 0 ELSE 1 + zeros[n \div 2]
  <2>1. \A n \in Nat \ {0} : zeros[n] = F(zeros)[n]
    BY <1>4
  <2> QED
    BY <2>1
<1>6. ASSUME NEW n \in Nat
      PROVE  zeros[2 * n + 1] = 0 /\ (n # 0 => zeros[2 * n] = 1 + zeros[n])
  <2>1. 2 * n + 1 \in Nat \ {0} /\ (2 * n + 1) % 2 = 1
    OBVIOUS
  <2>2. n # 0 => 2 * n \in Nat \ {0} /\ (2 * n) % 2 # 1 /\ (2 * n) \div 2 = n
    OBVIOUS
  <2> QED
    BY <1>5, <2>1, <2>2
<1> DEFINE S == {n \in Nat : n # 0 => zeros[n] \in Nat}
<1>7. \A n \in Nat : n \in S
  <2>1. 0 \in S
    OBVIOUS
  <2>2. ASSUME NEW n \in Nat, n \in S PROVE 2 * n \in S /\ 2 * n + 1 \in S
    <3>1. 2 * n \in Nat /\ 2 * n + 1 \in Nat /\ (n = 0 => 2 * n = 0)
      OBVIOUS
    <3>2. n # 0 => zeros[2 * n] \in Nat
      <4> SUFFICES ASSUME n # 0 PROVE zeros[2 * n] \in Nat
        OBVIOUS
      <4>1. zeros[n] \in Nat /\ zeros[2 * n] = 1 + zeros[n]
        BY <1>6, <2>2
      <4> QED
        BY <4>1
    <3>3. 2 * n # 0 => zeros[2 * n] \in Nat
      BY <3>1, <3>2
    <3>4. zeros[2 * n + 1] \in Nat
      <4>1. zeros[2 * n + 1] = 0
        BY <1>6, Zenon
      <4> QED
        BY <4>1
    <3> DEFINE even == 2 * n
               odd == 2 * n + 1
    <3>5. even \in S
      <4> HIDE DEF zeros
      <4> QED
        BY <3>1, <3>3
    <3>6. odd \in S
      BY <3>1, <3>4
    <3> QED
      BY <3>5, <3>6
  <2> HIDE DEF S
  <2> QED
    BY <2>1, <2>2, Doubling
<1> QED
  BY <1>6, <1>7, Zenon DEF zeros

\* Counting one more turns the ones at the end into zeros and one one.
LEMMA OnesAndZeros ==
  \A n \in Nat : /\ Hasher!Ref!TrailingZeros[n + 1] \in Nat
                 /\ Hasher!CountOnes[n + 1] + Hasher!Ref!TrailingZeros[n + 1]
                      = Hasher!CountOnes[n] + 1
<1> DEFINE c == Hasher!CountOnes
           z == Hasher!Ref!TrailingZeros
           S == {n \in Nat : z[n + 1] \in Nat /\ c[n + 1] + z[n + 1] = c[n] + 1}
<1>1. \A n \in Nat : c[n] \in Nat /\ c[2 * n] = c[n] /\ c[2 * n + 1] = c[n] + 1
  BY OnesOfPairs
<1>2. \A n \in Nat : z[2 * n + 1] = 0 /\ (n # 0 => z[n] \in Nat /\ z[2 * n] = 1 + z[n])
  BY TrailingZerosIs
<1> HIDE DEF c, z
<1>3. ASSUME NEW n \in Nat PROVE 2 * n \in S
  <2>1. z[2 * n + 1] = 0 /\ c[2 * n + 1] = c[n] + 1 /\ c[2 * n] = c[n] /\ c[n] \in Nat
    BY <1>1, <1>2, Zenon
  <2> QED
    BY <2>1
<1>4. 0 \in S
  <2>1. 2 * 0 \in S
    BY <1>3
  <2> QED
    BY <2>1
<1>5. ASSUME NEW n \in Nat, n \in S PROVE 2 * n + 1 \in S
  <2> DEFINE m == n + 1
  <2>1. m \in Nat /\ m # 0 /\ (2 * n + 1) + 1 = 2 * m
    OBVIOUS
  <2>2. z[m] \in Nat /\ c[m] + z[m] = c[n] + 1
    BY <1>5
  <2> HIDE DEF m
  <2>3. z[2 * m] = 1 + z[m] /\ c[2 * m] = c[m] /\ c[m] \in Nat
    BY <1>1, <1>2, <2>1
  <2>4. c[2 * n + 1] = c[n] + 1 /\ c[n] \in Nat
    BY <1>1
  <2>5. z[(2 * n + 1) + 1] \in Nat /\ c[(2 * n + 1) + 1] + z[(2 * n + 1) + 1] = c[2 * n + 1] + 1
    BY <2>1, <2>2, <2>3, <2>4
  <2> QED
    BY <2>5
<1>6. \A n \in Nat : n \in S
  <2> HIDE DEF S
  <2> QED
    BY <1>3, <1>4, <1>5, Doubling
<1> QED
  BY <1>6 DEF c, z

\* When one leaf more is complete, its value is merged as often as there are
\* zeros at the end of the number of leaves.
Carries(V, merge, n, row) ==
  LET st == Waits(V, merge)[n][row]
      times == Hasher!Ref!TrailingZeros[n + 1]
  IN  /\ times \in 0 .. Len(st)
      /\ Merged(V, merge, st, row[n], times) = Waits(V, merge)[n + 1][row]

\* Merging as often as the reference does leaves what waits (lazy merging, reference_impl.rs).
LEMMA Carried ==
  ASSUME NEW V, NEW merge \in [V -> [V -> V]], NEW n \in Nat, NEW row \in Row(V)
  PROVE  Carries(V, merge, n, row)
<1> DEFINE waits == Waits(V, merge)
           z == Hasher!Ref!TrailingZeros
           Good(m, r) == /\ z[m + 1] \in 0 .. Len(waits[m][r])
                         /\ Merged(V, merge, waits[m][r], r[m], z[m + 1]) = waits[m + 1][r]
           S == {m \in Nat : \A r \in Row(V) : Good(m, r)}
<1>1. WaitsByPairs(V, merge, waits)
  BY WaitsGrow
<1>2. \A m \in Nat : z[2 * m + 1] = 0 /\ (m # 0 => z[m] \in Nat /\ z[2 * m] = 1 + z[m])
  BY TrailingZerosIs, Zenon
<1> HIDE DEF waits, z
<1>3. ASSUME NEW m \in Nat PROVE 2 * m \in S
  <2> SUFFICES ASSUME NEW r \in Row(V) PROVE Good(2 * m, r)
    <3>1. 2 * m \in Nat
      OBVIOUS
    <3> QED
      BY <3>1
  <2> DEFINE st == waits[2 * m][r]
             x == r[2 * m]
             f == Fold(V, merge, st, x)
  <2>1. 2 * m \in Nat
    OBVIOUS
  <2>2. st \in Seq(V) /\ x \in V
    BY <1>1, <2>1 DEF WaitsByPairs, Row
  <2>3. waits[2 * m + 1][r] = Append(st, x)
    BY <1>1, Zenon DEF WaitsByPairs
  <2> HIDE DEF st, x
  <2>4. f[0] = x
    BY <2>2, FoldIs DEF Folds
  <2>5. SubSeq(st, 1, Len(st) - 0) = st /\ Len(st) \in Nat
    BY <2>2
  <2> HIDE DEF f
  <2>6. Merged(V, merge, st, x, 0) = Append(st, x)
    BY <2>4, <2>5 DEF Merged, f
  <2>7. z[2 * m + 1] = 0
    BY <1>2, Zenon
  <2>8. z[2 * m + 1] \in 0 .. Len(st)
    BY <2>5, <2>7
  <2> QED
    BY <2>3, <2>6, <2>7, <2>8 DEF st, x
<1>4. 0 \in S
  <2>1. 2 * 0 \in S
    BY <1>3, Zenon
  <2>2. 2 * 0 = 0
    OBVIOUS
  <2> HIDE DEF S
  <2> QED
    BY <2>1, <2>2
<1>5. ASSUME NEW m \in Nat, m \in S PROVE 2 * m + 1 \in S
  <2> SUFFICES ASSUME NEW r \in Row(V) PROVE Good(2 * m + 1, r)
    <3>1. 2 * m + 1 \in Nat
      OBVIOUS
    <3> QED
      BY <3>1
  <2> DEFINE a == Above(merge, r)
             low == waits[m][a]
             st == waits[2 * m + 1][r]
             u == r[2 * m]
             x == r[2 * m + 1]
             j == z[m + 1]
  <2>1. u \in V /\ x \in V /\ a \in Row(V) /\ a[m] = merge[u][x]
    <3>1. 2 * m \in Nat /\ 2 * m + 1 \in Nat
      OBVIOUS
    <3>2. u \in V /\ x \in V
      BY <3>1 DEF Row
    <3> QED
      BY <3>2, AboveIs
  <2>2. j \in 0 .. Len(low) /\ Merged(V, merge, low, a[m], j) = waits[m + 1][a]
    <3> HIDE DEF a
    <3> QED
      BY <1>5, <2>1
  <2>3. low \in Seq(V) /\ st = Append(low, u)
    <3> HIDE DEF a
    <3>1. waits[2 * m + 1][r] = Append(waits[m][Above(merge, r)], r[2 * m])
      BY <1>1, Zenon DEF WaitsByPairs
    <3>2. waits[m][a] \in Seq(V)
      BY <1>1, <2>1 DEF WaitsByPairs
    <3> QED
      BY <3>1, <3>2 DEF a
  <2>4. z[(2 * m + 1) + 1] = j + 1 /\ waits[(2 * m + 1) + 1][r] = waits[m + 1][a]
    <3> DEFINE k == m + 1
    <3>1. k \in Nat /\ k # 0 /\ (2 * m + 1) + 1 = 2 * k
      OBVIOUS
    <3> HIDE DEF k
    <3>2. z[2 * k] = 1 + z[k] /\ z[k] \in Nat
      BY <1>2, <3>1
    <3>3. waits[2 * k][r] = waits[k][a]
      BY <1>1, <3>1 DEF WaitsByPairs
    <3>4. z[2 * k] = z[k] + 1
      BY <3>2
    <3> QED
      BY <3>1, <3>3, <3>4 DEF k
  <2> HIDE DEF a, low, st, u, x, j
  <2>5. Len(st) = Len(low) + 1 /\ Len(low) \in Nat
    BY <2>1, <2>3
  <2>6. j + 1 \in 0 .. Len(st)
    BY <2>2, <2>5
  <2>7. Fold(V, merge, st, x)[j + 1] = Fold(V, merge, low, a[m])[j]
    <3>1. Peels(V, merge, low, u, x)
      BY <2>1, <2>3, FoldPeels
    <3> QED
      BY <2>1, <2>2, <2>3, <3>1 DEF Peels
  <2>8. SubSeq(st, 1, Len(st) - (j + 1)) = SubSeq(low, 1, Len(low) - j)
    <3>1. Len(st) - (j + 1) = Len(low) - j /\ Len(low) - j \in 0 .. Len(low)
      BY <2>2, <2>5
    <3> DEFINE k == Len(low) - j
    <3>2. k \in 0 .. Len(low)
      BY <3>1
    <3> HIDE DEF k
    <3>3. SubSeq(Append(low, u), 1, k) = SubSeq(low, 1, k)
      BY <2>1, <2>3, <3>2
    <3> QED
      BY <2>3, <3>1, <3>3 DEF k
  <2>9. Merged(V, merge, st, x, j + 1) = Merged(V, merge, low, a[m], j)
    BY <2>7, <2>8, Zenon DEF Merged
  <2> QED
    BY <2>2, <2>4, <2>6, <2>9 DEF st, x
<1>6. \A m \in Nat : m \in S
  <2> HIDE DEF S
  <2> QED
    BY <1>3, <1>4, <1>5, Doubling
<1>7. Good(n, row)
  <2> HIDE DEF Good
  <2> QED
    BY <1>6
<1> QED
  BY <1>7 DEF waits, z, Carries

(***************************************************************************)
(* The values the compression function gives, for one key and the flags    *)
(* that it is called with.                                                 *)
(***************************************************************************)
\* The flags of any compression, when every one of them has flags
Marks(flags) == flags \cup {"CHUNK_START", "CHUNK_END", "PARENT", "ROOT"}

\* What the compression of members of U may give
Compressed(U, flags) ==
  {Hasher!Compress(x, block, len, c, f) :
     x \in U, block \in [1 .. 2 -> U], len \in Nat, c \in Nat, f \in SUBSET Marks(flags)}

\* Units of input and the key, and whatever is compressed from members
Closed(key, flags, V) ==
  /\ Nat \subseteq V
  /\ key \in V
  /\ \A x \in V, block \in [1 .. 2 -> V], len \in Nat, c \in Nat, f \in SUBSET Marks(flags) :
       Hasher!Compress(x, block, len, c, f) \in V

\* One such set
Vals(key, flags) == CHOOSE V : Closed(key, flags, V)

\* m compressions, one over the results of the other
Rung(key, flags, m, f) ==
  f = [i \in 0 .. m |-> IF i = 0 THEN Nat \cup {key}
                        ELSE f[i - 1] \cup Compressed(f[i - 1], flags)]

\* The same, compression by compression
Climbs(key, flags, m, f) ==
  /\ f[0] = Nat \cup {key}
  /\ \A i \in 0 .. m : i # 0 => f[i] = f[i - 1] \cup Compressed(f[i - 1], flags)

\* A rung is what it is defined to be.
LEMMA RungIs ==
  ASSUME NEW key, NEW flags, NEW m \in Nat, NEW f, Rung(key, flags, m, f)
  PROVE  Climbs(key, flags, m, f)
<1> DEFINE g == [i \in 0 .. m |-> IF i = 0 THEN Nat \cup {key}
                        ELSE f[i - 1] \cup Compressed(f[i - 1], flags)]
<1>1. f = g
  BY Zenon DEF Rung
<1>2. 0 \in 0 .. m
  OBVIOUS
<1>3. \A i \in 0 .. m : g[i] = IF i = 0 THEN Nat \cup {key}
                               ELSE f[i - 1] \cup Compressed(f[i - 1], flags)
  OBVIOUS
<1> HIDE DEF g
<1> QED
  BY <1>1, <1>2, <1>3, Zenon DEF Climbs

\* There are rungs of any height.
LEMMA RungsExist ==
  ASSUME NEW key, NEW flags
  PROVE  \A m \in Nat : \E f : Rung(key, flags, m, f)
<1> DEFINE S == {m \in Nat : \E f : Rung(key, flags, m, f)}
           Base == Nat \cup {key}
           More(U) == U \cup Compressed(U, flags)
<1>1. 0 \in S
  <2> DEFINE f == [i \in 0 .. 0 |-> Base]
  <2>1. f = [i \in 0 .. 0 |-> IF i = 0 THEN Base ELSE More(f[i - 1])]
    <3>1. \A i \in 0 .. 0 : i = 0
      OBVIOUS
    <3> HIDE DEF Base, More
    <3> QED
      BY <3>1
  <2> QED
    BY <2>1, Zenon DEF Rung
<1>2. ASSUME NEW m \in Nat, m \in S PROVE m + 1 \in S
  <2>1. PICK f : Rung(key, flags, m, f)
    BY <1>2
  <2>2. f[0] = Base /\ \A i \in 0 .. m : i # 0 => f[i] = More(f[i - 1])
    BY <2>1, RungIs DEF Climbs
  <2> HIDE DEF Base, More
  <2> DEFINE g == [i \in 0 .. m + 1 |-> IF i <= m THEN f[i] ELSE More(f[m])]
  <2>3. ASSUME NEW i \in 0 .. m + 1 PROVE g[i] = IF i = 0 THEN Base ELSE More(g[i - 1])
    <3>1. CASE i = 0
      BY <2>2, <3>1
    <3>2. CASE i # 0 /\ i <= m
      <4>1. i \in 0 .. m /\ i - 1 \in 0 .. m + 1 /\ i - 1 <= m
        BY <3>2
      <4> QED
        BY <2>2, <3>2, <4>1
    <3>3. CASE i = m + 1
      <4>1. i # 0 /\ ~(i <= m) /\ i - 1 = m /\ m \in 0 .. m + 1 /\ m <= m
        BY <3>3
      <4> QED
        BY <4>1
    <3> QED
      BY <3>1, <3>2, <3>3
  <2>4. g = [i \in 0 .. m + 1 |-> IF i = 0 THEN Base ELSE More(g[i - 1])]
    <3>1. g = [i \in 0 .. m + 1 |-> g[i]]
      OBVIOUS
    <3> HIDE DEF g
    <3> QED
      BY <2>3, <3>1, Zenon
  <2>5. Rung(key, flags, m + 1, g)
    <3> HIDE DEF g
    <3> QED
      BY <2>4, Zenon DEF Rung, Base, More
  <2> QED
    BY <2>5
<1>3. \A m \in Nat : m \in S
  <2> HIDE DEF S
  <2> QED
    BY <1>1, <1>2, Induction
<1> QED
  BY <1>3

\* The results of the first compressions do not depend on the later ones.
LEMMA RungsAgree ==
  ASSUME NEW key, NEW flags, NEW m \in Nat, NEW f, Rung(key, flags, m, f),
         NEW k \in Nat, NEW g, Rung(key, flags, k, g), NEW i \in Nat, i <= m, i <= k
  PROVE  f[i] = g[i]
<1> DEFINE S == {n \in Nat : n <= m /\ n <= k => f[n] = g[n]}
           Base == Nat \cup {key}
           More(U) == U \cup Compressed(U, flags)
<1>1. f[0] = Base /\ \A n \in 0 .. m : n # 0 => f[n] = More(f[n - 1])
  <2>1. Climbs(key, flags, m, f)
    BY RungIs, Zenon
  <2> QED
    BY <2>1, Zenon DEF Climbs
<1>2. g[0] = Base /\ \A n \in 0 .. k : n # 0 => g[n] = More(g[n - 1])
  <2>1. Climbs(key, flags, k, g)
    BY RungIs, Zenon
  <2> QED
    BY <2>1, Zenon DEF Climbs
<1> HIDE DEF Base, More
<1>3. 0 \in S
  BY <1>1, <1>2
<1>4. ASSUME NEW n \in Nat, n \in S PROVE n + 1 \in S
  <2> SUFFICES ASSUME n + 1 <= m, n + 1 <= k PROVE f[n + 1] = g[n + 1]
    OBVIOUS
  <2>1. f[n] = g[n]
    BY <1>4
  <2>2. n + 1 \in 0 .. m /\ n + 1 \in 0 .. k /\ n + 1 # 0 /\ (n + 1) - 1 = n
    OBVIOUS
  <2>3. f[n + 1] = More(f[n]) /\ g[n + 1] = More(g[n])
    BY <1>1, <1>2, <2>2
  <2> QED
    BY <2>1, <2>3
<1>5. \A n \in Nat : n \in S
  <2> HIDE DEF S
  <2> QED
    BY <1>3, <1>4, Induction
<1> QED
  BY <1>5

\* There is a set that the compression function does not lead out of.
LEMMA ValsAre ==
  ASSUME NEW key, NEW flags
  PROVE  Closed(key, flags, Vals(key, flags))
<1> DEFINE rung == [m \in Nat |-> CHOOSE f : Rung(key, flags, m, f)]
           U == [m \in Nat |-> rung[m][m]]
           V == UNION {U[m] : m \in Nat}
           Base == Nat \cup {key}
           More(X) == X \cup Compressed(X, flags)
<1>1. \A m \in Nat : Rung(key, flags, m, rung[m])
  BY RungsExist
<1> HIDE DEF rung
<1>2. U[0] = Base
  <2>1. rung[0][0] = Base
    BY <1>1, RungIs, Zenon DEF Climbs
  <2> HIDE DEF Base
  <2> QED
    BY <2>1
<1>3. ASSUME NEW m \in Nat PROVE U[m + 1] = More(U[m])
  <2>1. m + 1 \in Nat /\ m + 1 \in 0 .. m + 1 /\ m + 1 # 0 /\ (m + 1) - 1 = m /\ m <= m + 1 /\ m <= m
    OBVIOUS
  <2> DEFINE n == m + 1
  <2>2. rung[n][n] = More(rung[n][n - 1])
    <3> HIDE DEF n
    <3>1. n \in Nat /\ n \in 0 .. n /\ n # 0
      BY <2>1 DEF n
    <3>2. Rung(key, flags, n, rung[n])
      BY <1>1, <3>1
    <3>3. Climbs(key, flags, n, rung[n])
      BY <3>1, <3>2, RungIs
    <3> QED
      BY <3>1, <3>3 DEF Climbs
  <2>3. rung[m + 1][m] = rung[m][m]
    <3>1. m <= n /\ m <= m /\ n \in Nat
      BY <2>1
    <3> HIDE DEF n
    <3>2. Rung(key, flags, n, rung[n]) /\ Rung(key, flags, m, rung[m])
      BY <1>1, <3>1, Zenon
    <3>3. rung[n][m] = rung[m][m]
      BY <3>1, <3>2, RungsAgree
    <3> QED
      BY <3>3 DEF n
  <2> HIDE DEF More
  <2> QED
    BY <2>1, <2>2, <2>3
<1> HIDE DEF U
<1>4. ASSUME NEW m \in Nat PROVE \A n \in Nat : n <= m => U[n] \subseteq U[m]
  <2> DEFINE S == {k \in Nat : \A n \in Nat : n <= k => U[n] \subseteq U[k]}
  <2>1. 0 \in S
    OBVIOUS
  <2>2. ASSUME NEW k \in Nat, k \in S PROVE k + 1 \in S
    <3> SUFFICES ASSUME NEW n \in Nat, n <= k + 1 PROVE U[n] \subseteq U[k + 1]
      OBVIOUS
    <3>1. U[k] \subseteq U[k + 1]
      BY <1>3
    <3>2. CASE n = k + 1
      BY <3>2
    <3>3. CASE n <= k
      BY <2>2, <3>1, <3>3
    <3> QED
      BY <3>2, <3>3
  <2>3. \A k \in Nat : k \in S
    <3> HIDE DEF S
    <3> QED
      BY <2>1, <2>2, Induction
  <2> QED
    BY <2>3
<1>5. Nat \subseteq V /\ key \in V
  BY <1>2
<1>6. ASSUME NEW x \in V, NEW block \in [1 .. 2 -> V], NEW len \in Nat, NEW c \in Nat,
             NEW f \in SUBSET Marks(flags)
      PROVE  Hasher!Compress(x, block, len, c, f) \in V
  <2>1. block[1] \in V /\ block[2] \in V
    OBVIOUS
  <2>2. PICK i \in Nat, j \in Nat, k \in Nat : x \in U[i] /\ block[1] \in U[j] /\ block[2] \in U[k]
    BY <2>1
  <2> DEFINE m == i + j + k
  <2>3. m \in Nat /\ i <= m /\ j <= m /\ k <= m /\ m + 1 \in Nat
    OBVIOUS
  <2> HIDE DEF m
  <2>4. x \in U[m] /\ block[1] \in U[m] /\ block[2] \in U[m]
    BY <1>4, <2>2, <2>3
  <2>5. block \in [1 .. 2 -> U[m]]
    <3>1. \A n \in 1 .. 2 : block[n] \in U[m]
      <4>1. \A n \in 1 .. 2 : n = 1 \/ n = 2
        OBVIOUS
      <4> QED
        BY <2>4, <4>1
    <3>2. block = [n \in 1 .. 2 |-> block[n]]
      OBVIOUS
    <3> QED
      BY <3>1, <3>2
  <2>6. Hasher!Compress(x, block, len, c, f) \in Compressed(U[m], flags)
    <3>1. f \in SUBSET Marks(flags) /\ len \in Nat /\ c \in Nat
      BY <1>6
    <3> DEFINE W == U[m]
    <3>2. x \in W /\ block \in [1 .. 2 -> W]
      BY <2>4, <2>5
    <3> HIDE DEF W
    <3>3. Hasher!Compress(x, block, len, c, f) \in Compressed(W, flags)
      BY <3>1, <3>2 DEF Compressed
    <3> QED
      BY <3>3 DEF W
  <2>7. Hasher!Compress(x, block, len, c, f) \in U[m + 1]
    BY <1>3, <2>3, <2>6
  <2> QED
    BY <2>3, <2>7
<1>7. Closed(key, flags, V)
  <2> HIDE DEF V
  <2> QED
    BY <1>5, <1>6 DEF Closed
<1> QED
  <2> HIDE DEF V
  <2> QED
    BY <1>7 DEF Vals

\* A parent's value
Merge(key, flags) ==
  [a \in Vals(key, flags) |-> [b \in Vals(key, flags) |->
     Hasher!Compress(key, <<a, b>>, Hasher!BLOCK_LEN, 0, flags \cup {"PARENT"})]]

\* What Merge gives
Merges(key, flags, V, merge) ==
  /\ merge \in [V -> [V -> V]]
  /\ \A a, b \in V :
       merge[a][b] = Hasher!Compress(key, <<a, b>>, Hasher!BLOCK_LEN, 0, flags \cup {"PARENT"})

\* A parent's value is again one of those compression gives.
LEMMA MergeIs ==
  ASSUME NEW key, NEW flags
  PROVE  Merges(key, flags, Vals(key, flags), Merge(key, flags))
<1> DEFINE V == Vals(key, flags)
           v(a, b) == Hasher!Compress(key, <<a, b>>, Hasher!BLOCK_LEN, 0, flags \cup {"PARENT"})
<1>1. Closed(key, flags, V)
  BY ValsAre
<1> HIDE DEF V
<1>2. ASSUME NEW a \in V, NEW b \in V PROVE v(a, b) \in V
  <2>1. <<a, b>> \in [1 .. 2 -> V]
    OBVIOUS
  <2>2. Hasher!BLOCK_LEN \in Nat /\ 0 \in Nat
    BY DEF Hasher!BLOCK_LEN, Hasher!OUT_LEN
  <2>3. flags \cup {"PARENT"} \in SUBSET Marks(flags)
    BY DEF Marks
  <2>4. key \in V
    BY <1>1 DEF Closed
  <2> QED
    BY <1>1, <2>1, <2>2, <2>3, <2>4 DEF Closed
<1> HIDE DEF v
<1> DEFINE merge == [a \in V |-> [b \in V |-> v(a, b)]]
<1>3. Merge(key, flags) = merge
  BY DEF Merge, V, v
<1>4. merge \in [V -> [V -> V]] /\ \A a, b \in V : merge[a][b] = v(a, b)
  BY <1>2
<1> HIDE DEF merge
<1>5. Merges(key, flags, V, merge)
  BY <1>4, Zenon DEF Merges, v
<1> QED
  BY <1>3, <1>5 DEF V

\* Parents are alike only when their children are.
LEMMA MergeTells ==
  ASSUME NEW key, NEW flags, NEW a \in Vals(key, flags), NEW b \in Vals(key, flags),
         NEW x \in Vals(key, flags), NEW y \in Vals(key, flags),
         Merge(key, flags)[a][b] = Merge(key, flags)[x][y]
  PROVE  a = x /\ b = y
<1> DEFINE V == Vals(key, flags)
<1>1. Hasher!Compress(key, <<a, b>>, Hasher!BLOCK_LEN, 0, flags \cup {"PARENT"})
        = Hasher!Compress(key, <<x, y>>, Hasher!BLOCK_LEN, 0, flags \cup {"PARENT"})
  BY MergeIs DEF Merges
<1>2. <<a, b>> = <<x, y>>
  BY <1>1 DEF Hasher!Compress
<1> QED
  BY <1>2

(***************************************************************************)
(* Input, and parts of it.                                                 *)
(***************************************************************************)
\* The units of an input, without end
Units == [Nat -> Nat]

\* len of them, after the first from
Cut(u, from, len) == [i \in 1 .. len |-> u[from + i]]

\* A part's length and units
IsCut(u, from, len, s) ==
  /\ s \in Seq(Nat)
  /\ Len(s) = len
  /\ \A i \in 1 .. len : s[i] = u[from + i]
  /\ s = <<>> <=> len = 0

\* A part of an input is a sequence of its units.
LEMMA CutIs ==
  ASSUME NEW u \in Units, NEW from \in Nat, NEW len \in Nat
  PROVE  IsCut(u, from, len, Cut(u, from, len))
<1>1. \A i \in 1 .. len : u[from + i] \in Nat
  BY DEF Units
<1>2. Cut(u, from, len) \in Seq(Nat) /\ Len(Cut(u, from, len)) = len
  BY <1>1 DEF Cut
<1>3. Cut(u, from, len) = <<>> <=> len = 0
  BY <1>2
<1> QED
  BY <1>2, <1>3 DEF Cut, IsCut

\* A sequence of the units of a part is that part.
LEMMA CutOnly ==
  ASSUME NEW u \in Units, NEW from \in Nat, NEW len \in Nat, NEW s \in Seq(Nat), Len(s) = len,
         \A i \in 1 .. len : s[i] = u[from + i]
  PROVE  s = Cut(u, from, len)
<1> DEFINE t == Cut(u, from, len)
<1>1. IsCut(u, from, len, t)
  BY CutIs
<1> HIDE DEF t
<1>2. s = t
  BY <1>1, SameSeq, Zenon DEF IsCut
<1> QED
  BY <1>2 DEF t

\* Parts of a part
PartIs(u, from, len, a, k) ==
  SubSeq(Cut(u, from, len), a + 1, a + k) = Cut(u, from + a, k)

\* A part of a part is a part.
LEMMA CutParts ==
  ASSUME NEW u \in Units, NEW from \in Nat, NEW len \in Nat,
         NEW a \in Nat, NEW k \in Nat, a + k <= len
  PROVE  PartIs(u, from, len, a, k)
<1> DEFINE s == Cut(u, from, len)
           p == SubSeq(s, a + 1, a + k)
<1>1. IsCut(u, from, len, s)
  BY CutIs
<1> HIDE DEF s
<1>2. p \in Seq(Nat) /\ Len(p) = k /\ \A i \in 1 .. k : p[i] = s[(a + 1) + i - 1]
  <2>1. a + 1 \in Nat /\ a + k \in Nat /\ 1 <= a + 1 /\ a + 1 <= (a + k) + 1 /\ a + k <= Len(s)
        /\ (a + k) - (a + 1) + 1 = k /\ s \in Seq(Nat)
    BY <1>1 DEF IsCut
  <2> QED
    BY <2>1, Part
<1> HIDE DEF p
<1>3. \A i \in 1 .. k : p[i] = u[(from + a) + i]
  <2> SUFFICES ASSUME NEW i \in 1 .. k PROVE p[i] = u[(from + a) + i]
    OBVIOUS
  <2>1. (a + 1) + i - 1 = a + i /\ a + i \in 1 .. len /\ from + (a + i) = (from + a) + i
    OBVIOUS
  <2> QED
    BY <1>1, <1>2, <2>1, Zenon DEF IsCut
<1>4. p = Cut(u, from + a, k)
  <2> DEFINE f == from + a
  <2>1. f \in Nat
    OBVIOUS
  <2> HIDE DEF f
  <2>2. p = Cut(u, f, k)
    BY <1>2, <1>3, <2>1, CutOnly, Zenon DEF f
  <2> QED
    BY <2>2 DEF f
<1> QED
  BY <1>4 DEF p, s, PartIs

\* The first units, the others, and a piece
SplitIs(u, from, len, k) ==
  /\ Hasher!Taken(Cut(u, from, len), k) = Cut(u, from, k)
  /\ Hasher!Dropped(Cut(u, from, len), k) = Cut(u, from + k, len - k)

\* The first k units and the others are parts.
LEMMA CutSplit ==
  ASSUME NEW u \in Units, NEW from \in Nat, NEW len \in Nat, NEW k \in 0 .. len
  PROVE  SplitIs(u, from, len, k)
<1>1. PartIs(u, from, len, 0, k)
  <2>1. 0 + k <= len /\ 0 \in Nat /\ k \in Nat
    OBVIOUS
  <2> QED
    BY <2>1, CutParts
<1>2. PartIs(u, from, len, k, len - k)
  <2> DEFINE r == len - k
  <2>1. r \in Nat /\ k \in Nat /\ k + r <= len
    OBVIOUS
  <2> HIDE DEF r
  <2>2. PartIs(u, from, len, k, r)
    BY <2>1, CutParts
  <2> QED
    BY <2>2 DEF r
<1>3. 0 + 1 = 1 /\ 0 + k = k /\ from + 0 = from /\ k + (len - k) = len
  OBVIOUS
<1> DEFINE s == Cut(u, from, len)
<1>4. Len(s) = len
  BY CutIs DEF IsCut
<1>5. SubSeq(s, 1, k) = Cut(u, from, k)
  BY <1>1, <1>3 DEF PartIs
<1>6. SubSeq(s, k + 1, len) = Cut(u, from + k, len - k)
  BY <1>2, <1>3 DEF PartIs
<1> HIDE DEF s
<1>7. Hasher!Taken(s, k) = Cut(u, from, k) /\ Hasher!Dropped(s, k) = Cut(u, from + k, len - k)
  BY <1>4, <1>5, <1>6 DEF Hasher!Taken, Hasher!Dropped
<1> QED
  BY <1>7 DEF SplitIs, s

\* The pieces of n units that chunks_exact gives are parts.
PieceIs(u, from, len, n, i) ==
  Hasher!Piece(Cut(u, from, len), n, i + 1) = Cut(u, from + i * n, n)

\* They are where the code takes them.
LEMMA CutPiece ==
  ASSUME NEW u \in Units, NEW from \in Nat, NEW len \in Nat, NEW n \in Nat, NEW i \in Nat,
         (i + 1) * n <= len
  PROVE  PieceIs(u, from, len, n, i)
<1> DEFINE a == i * n
<1>1. a \in Nat /\ (i + 1) * n = a + n /\ ((i + 1) - 1) * n = a
  OBVIOUS
<1> HIDE DEF a
<1>2. PartIs(u, from, len, a, n)
  BY <1>1, CutParts
<1>3. SubSeq(Cut(u, from, len), a + 1, a + n) = Cut(u, from + a, n)
  BY <1>2 DEF PartIs
<1> QED
  BY <1>1, <1>3 DEF Hasher!Piece, a, PieceIs

\* Two parts that follow each other
JoinIs(u, from, a, b) == Cut(u, from, a) \o Cut(u, from + a, b) = Cut(u, from, a + b)

\* They are a part together.
LEMMA CutJoined ==
  ASSUME NEW u \in Units, NEW from \in Nat, NEW a \in Nat, NEW b \in Nat
  PROVE  JoinIs(u, from, a, b)
<1> DEFINE next == from + a
           s == Cut(u, from, a)
           t == Cut(u, next, b)
           j == s \o t
<1>0. next \in Nat /\ a + b \in Nat
  OBVIOUS
<1> HIDE DEF next
<1>1. IsCut(u, from, a, s)
  BY CutIs
<1>2. IsCut(u, next, b, t)
  BY <1>0, CutIs
<1> HIDE DEF s, t
<1>3. s \in Seq(Nat) /\ Len(s) = a /\ t \in Seq(Nat) /\ Len(t) = b
  BY <1>1, <1>2 DEF IsCut
<1>4. /\ j \in Seq(Nat) /\ Len(j) = a + b
      /\ \A i \in 1 .. a : j[i] = s[i]
      /\ \A i \in 1 .. b : j[i + a] = t[i]
  <2>1. j \in Seq(Nat) /\ Len(j) = a + b
    BY <1>3
  <2>2. \A i \in 1 .. a : j[i] = s[i]
    BY <1>3
  <2>3. \A i \in 1 .. b : j[i + a] = t[i]
    BY <1>3
  <2> QED
    BY <2>1, <2>2, <2>3
<1> HIDE DEF j
<1>5. ASSUME NEW i \in 1 .. a + b PROVE j[i] = u[from + i]
  <2>1. CASE i <= a
    BY <1>1, <1>4, <2>1 DEF IsCut
  <2>2. CASE i > a
    <3> DEFINE k == i - a
    <3>1. k \in 1 .. b /\ k + a = i /\ next + k = from + i
      BY <2>2 DEF next
    <3> HIDE DEF k
    <3>2. j[k + a] = t[k] /\ t[k] = u[next + k]
      BY <1>2, <1>4, <3>1 DEF IsCut
    <3> QED
      BY <3>1, <3>2
  <2> QED
    BY <2>1, <2>2
<1>6. j = Cut(u, from, a + b)
  <2> DEFINE l == a + b
  <2>1. Len(j) = l /\ l \in Nat /\ \A i \in 1 .. l : j[i] = u[from + i]
    BY <1>0, <1>4, <1>5
  <2> HIDE DEF l
  <2>2. j = Cut(u, from, l)
    BY <1>4, <2>1, CutOnly
  <2> QED
    BY <2>2 DEF l
<1> QED
  BY <1>6 DEF j, s, t, next, JoinIs

(***************************************************************************)
(* A chunk: the chaining values of its blocks, and the state that holds    *)
(* some of its units.                                                      *)
(***************************************************************************)
\* The chaining value of chunk c after k of its blocks
Chained(key, flags, V, u, c, f) ==
  /\ f \in [Nat -> V]
  /\ f[0] = key
  /\ \A k \in Nat :
       f[k + 1] = Hasher!Compress(f[k], Cut(u, c * CHUNK_LEN + 2 * k, 2), 2, c,
                                  flags \cup IF k = 0 THEN {"CHUNK_START"} ELSE {})

\* The chaining values after each block
BlockCv(key, flags, u, c) == CHOOSE f : Chained(key, flags, Vals(key, flags), u, c, f)

\* They exist for a chunk of any number of blocks.
LEMMA BlockCvIs ==
  ASSUME NEW key, NEW flags, NEW u \in Units, NEW c \in Nat, CHUNK_LEN \in Nat
  PROVE  Chained(key, flags, Vals(key, flags), u, c, BlockCv(key, flags, u, c))
<1> DEFINE V == Vals(key, flags)
           base == c * CHUNK_LEN
           one(x, k) == Hasher!Compress(x, Cut(u, base + 2 * k, 2), 2, c,
                                        flags \cup IF k = 0 THEN {"CHUNK_START"} ELSE {})
           small == {0}
           first == [n \in Nat |-> key]
           half == [n \in Nat |-> n - 1]
           step == [n \in Nat |-> [x \in V |-> one(x, n - 1)]]
<1>1. Closed(key, flags, V)
  BY ValsAre
<1>2. base \in Nat
  OBVIOUS
<1> HIDE DEF V, base
<1>3. ASSUME NEW x \in V, NEW k \in Nat PROVE one(x, k) \in V
  <2> DEFINE b == Cut(u, base + 2 * k, 2)
             f == flags \cup IF k = 0 THEN {"CHUNK_START"} ELSE {}
  <2>1. b \in Seq(Nat) /\ Len(b) = 2
    <3>1. base + 2 * k \in Nat
      BY <1>2
    <3>2. IsCut(u, base + 2 * k, 2, b)
      BY <3>1, CutIs
    <3> HIDE DEF b
    <3> QED
      BY <3>2 DEF IsCut
  <2>2. Nat \subseteq V
    BY <1>1 DEF Closed
  <2>3. b \in [1 .. 2 -> V]
    <3> HIDE DEF b
    <3>1. b = [i \in 1 .. 2 |-> b[i]]
      BY <2>1
    <3>2. \A i \in 1 .. 2 : b[i] \in V
      <4>1. \A i \in 1 .. 2 : b[i] \in Nat
        BY <2>1
      <4> QED
        BY <2>2, <4>1, Zenon
    <3> QED
      BY <3>1, <3>2, Zenon
  <2>4. f \in SUBSET Marks(flags)
    BY DEF Marks
  <2> HIDE DEF b, f
  <2>5. Hasher!Compress(x, b, 2, c, f) \in V
    BY <1>1, <2>3, <2>4 DEF Closed
  <2> QED
    BY <2>5 DEF b, f
<1> HIDE DEF one
<1>4. \A n \in Nat : n \in small => first[n] \in V
  BY <1>1 DEF Closed
<1>5. \A n \in Nat : n \notin small => half[n] \in Nat /\ half[n] < n
  OBVIOUS
<1>6. \A n \in Nat : n \notin small => \A x \in V : step[n][x] \in V
  <2> SUFFICES ASSUME NEW n \in Nat, n \notin small, NEW x \in V PROVE step[n][x] \in V
    OBVIOUS
  <2>1. n - 1 \in Nat
    OBVIOUS
  <2> QED
    BY <1>3, <2>1
<1>7. PICK f : Halved(V, small, first, half, step, f)
  <2> HIDE DEF small, first, half, step
  <2> QED
    BY <1>4, <1>5, <1>6, HalvesExist, Zenon DEF CanHalve
<1>8. f \in [Nat -> V] /\ f[0] = key
  BY <1>7, Zenon DEF Halved
<1>9. ASSUME NEW k \in Nat PROVE f[k + 1] = one(f[k], k)
  <2>1. k + 1 \in Nat /\ k + 1 \notin small /\ half[k + 1] = k /\ (k + 1) - 1 = k
    OBVIOUS
  <2>2. f[k + 1] = step[k + 1][f[k]] /\ f[k] \in V
    <3> HIDE DEF small, first, half, step
    <3> QED
      BY <1>7, <2>1 DEF Halved
  <2> QED
    BY <2>1, <2>2
<1>10. Chained(key, flags, V, u, c, f)
  BY <1>8, <1>9, Zenon DEF Chained, one, base
<1> QED
  BY <1>10 DEF BlockCv, V

\* The ChunkState with these fields
AChunk(cv, at, buf, blocks, flags, degree) ==
  [cv |-> cv, chunk_counter |-> at, buf |-> buf, blocks_compressed |-> blocks,
   flags |-> flags, simd_degree |-> degree]

\* After a block
WithBlock(s, cv, blocks) == [s EXCEPT !.cv = cv, !.blocks_compressed = blocks]

\* A compressed block changes the chaining value and the count of blocks only.
LEMMA BlockAdded ==
  ASSUME NEW cv, NEW at, NEW buf, NEW blocks, NEW flags, NEW degree, NEW newCv, NEW newBlocks
  PROVE  WithBlock(AChunk(cv, at, buf, blocks, flags, degree), newCv, newBlocks)
           = AChunk(newCv, at, buf, newBlocks, flags, degree)
<1> DEFINE c == AChunk(cv, at, buf, blocks, flags, degree)
           d == AChunk(newCv, at, buf, newBlocks, flags, degree)
           e == [c EXCEPT !.cv = newCv, !.blocks_compressed = newBlocks]
           Fields == {"cv", "chunk_counter", "buf", "blocks_compressed", "flags", "simd_degree"}
<1>1. DOMAIN c = Fields /\ DOMAIN d = Fields
  BY DEF AChunk
<1>2. \A x \in Fields : x # "cv" /\ x # "blocks_compressed" => c[x] = d[x]
  BY DEF AChunk
<1>3. d["cv"] = newCv /\ d["blocks_compressed"] = newBlocks
  BY DEF AChunk
<1>4. d = [x \in Fields |-> d[x]]
  BY DEF AChunk
<1> HIDE DEF c, d
<1>5. e = [x \in Fields |-> IF x = "blocks_compressed" THEN newBlocks
                          ELSE IF x = "cv" THEN newCv ELSE c[x]]
  BY <1>1, Zenon
<1> QED
  BY <1>1, <1>2, <1>3, <1>4, <1>5 DEF c, d, WithBlock

\* The chunk's state when k blocks are compressed and b units are waiting
Holding(key, flags, degree, u, c, k, b) ==
  AChunk(BlockCv(key, flags, u, c)[k], c, Cut(u, c * CHUNK_LEN + 2 * k, b), k, flags, degree)

\* A last block waits even when it is full.
Blocks(n) == IF n = 0 THEN 0 ELSE (n - 1) \div 2

\* The chunk's state when it was given n units
ChunkOf(key, flags, degree, u, c, n) ==
  Holding(key, flags, degree, u, c, Blocks(n), n - 2 * Blocks(n))

\* One block at most waits, and one waits unless nothing was given.
LEMMA BlocksAre ==
  ASSUME NEW n \in Nat
  PROVE  /\ Blocks(n) \in Nat /\ n - 2 * Blocks(n) \in 0 .. 2
         /\ n - 2 * Blocks(n) = 0 => n = 0 /\ Blocks(n) = 0
         /\ Blocks(n) = 0 <=> n <= 2
BY DEF Blocks

\* One more block
LEMMA BlockPasses ==
  ASSUME NEW key, NEW flags, NEW degree, NEW u \in Units, NEW c \in Nat,
         CHUNK_LEN \in Nat, Hasher!BLOCK_LEN = 2, NEW k \in Nat, NEW b
  PROVE  Hasher!CompressBlock(Holding(key, flags, degree, u, c, k, b),
                              Cut(u, c * CHUNK_LEN + 2 * k, 2))
           = [Holding(key, flags, degree, u, c, k + 1, 0)
                EXCEPT !.buf = Cut(u, c * CHUNK_LEN + 2 * k, b)]
<1> DEFINE cv == BlockCv(key, flags, u, c)
           block == Cut(u, c * CHUNK_LEN + 2 * k, 2)
           buf == Cut(u, c * CHUNK_LEN + 2 * k, b)
           more == Cut(u, c * CHUNK_LEN + 2 * (k + 1), 0)
           start == IF k = 0 THEN {"CHUNK_START"} ELSE {}
<1>1. cv[k + 1] = Hasher!Compress(cv[k], block, 2, c, flags \cup start)
  <2>1. Chained(key, flags, Vals(key, flags), u, c, cv)
    BY BlockCvIs
  <2> HIDE DEF cv
  <2> QED
    BY <2>1 DEF Chained
<1> DEFINE s == Holding(key, flags, degree, u, c, k, b)
           t == Holding(key, flags, degree, u, c, k + 1, 0)
<1>2. s = AChunk(cv[k], c, buf, k, flags, degree) /\ t = AChunk(cv[k + 1], c, more, k + 1, flags, degree)
  BY DEF Holding
<1> HIDE DEF cv, block, buf, more, s, t
<1>3. /\ s.cv = cv[k] /\ s.chunk_counter = c /\ s.flags = flags /\ s.blocks_compressed = k
      /\ Hasher!ChunkStartFlag(s) = start
  BY <1>2 DEF Hasher!ChunkStartFlag, AChunk
<1> HIDE DEF start
<1> DEFINE x == Hasher!Compress(s.cv, block, Hasher!BLOCK_LEN, s.chunk_counter,
                                s.flags \cup Hasher!ChunkStartFlag(s))
<1>4. Hasher!CompressBlock(s, block) = WithBlock(s, x, s.blocks_compressed + 1)
  BY Zenon DEF Hasher!CompressBlock, WithBlock
<1>5. x = cv[k + 1]
  BY <1>1, <1>3
<1> HIDE DEF x
<1>6. WithBlock(s, x, s.blocks_compressed + 1) = AChunk(cv[k + 1], c, buf, k + 1, flags, degree)
  BY <1>2, <1>3, <1>5, BlockAdded
<1>7. [t EXCEPT !.buf = buf] = AChunk(cv[k + 1], c, buf, k + 1, flags, degree)
  BY <1>2 DEF AChunk
<1>8. Hasher!CompressBlock(s, block) = [t EXCEPT !.buf = buf]
  BY <1>4, <1>6, <1>7
<1> QED
  BY <1>8 DEF block, buf, s, t

\* The buffer takes what it has room for.
BufTakesIs(key, flags, degree, u, c, k, b, m) ==
  Hasher!FillBuf(Holding(key, flags, degree, u, c, k, b), Cut(u, c * CHUNK_LEN + 2 * k + b, m))
    = Holding(key, flags, degree, u, c, k, IF m <= 2 - b THEN b + m ELSE 2)

\* fill_buf takes as much as a block has room for.
LEMMA BufTakes ==
  ASSUME NEW key, NEW flags, NEW degree, NEW u \in Units, NEW c \in Nat,
         CHUNK_LEN \in Nat, Hasher!BLOCK_LEN = 2, NEW k \in Nat, NEW b \in 0 .. 2, NEW m \in Nat
  PROVE  BufTakesIs(key, flags, degree, u, c, k, b, m)
<1> DEFINE at == c * CHUNK_LEN + 2 * k
           s == Holding(key, flags, degree, u, c, k, b)
           input == Cut(u, at + b, m)
           take == IF m <= 2 - b THEN m ELSE 2 - b
<1>1. at \in Nat /\ b \in Nat /\ take \in 0 .. m /\ at + b \in Nat /\ take \in Nat
  <2>1. c * CHUNK_LEN \in Nat
    OBVIOUS
  <2>2. at \in Nat
    BY <2>1
  <2> QED
    BY <2>2
<1>2. s.buf = Cut(u, at, b) /\ Len(s.buf) = b
  <2>1. s.buf = Cut(u, at, b)
    BY DEF Holding, AChunk
  <2> HIDE DEF at
  <2>2. IsCut(u, at, b, Cut(u, at, b))
    BY <1>1, CutIs
  <2> QED
    BY <2>1, <2>2 DEF IsCut
<1>3. Len(input) = m
  <2> HIDE DEF at
  <2>1. IsCut(u, at + b, m, input)
    BY <1>1, CutIs
  <2> QED
    BY <2>1 DEF IsCut
<1>4. Hasher!Shorter(2 - b, m) = take
  BY DEF Hasher!Shorter
<1>5. Hasher!Taken(input, take) = Cut(u, at + b, take)
  <2> HIDE DEF at, take
  <2>1. SplitIs(u, at + b, m, take)
    BY <1>1, CutSplit
  <2> QED
    BY <2>1 DEF SplitIs
<1>6. Cut(u, at, b) \o Cut(u, at + b, take) = Cut(u, at, b + take)
  <2> HIDE DEF at, take
  <2>1. JoinIs(u, at, b, take)
    BY <1>1, CutJoined
  <2> QED
    BY <2>1 DEF JoinIs
<1>7. Hasher!FillBuf(s, input) = [s EXCEPT !.buf = Cut(u, at, b + take)]
  <2> HIDE DEF at, take, s, input
  <2> QED
    BY <1>2, <1>3, <1>4, <1>5, <1>6, Zenon DEF Hasher!FillBuf
<1>8. b + take = IF m <= 2 - b THEN b + m ELSE 2
  OBVIOUS
<1>9. [s EXCEPT !.buf = Cut(u, at, b + take)] = Holding(key, flags, degree, u, c, k, b + take)
  <2> HIDE DEF take
  <2> QED
    BY DEF Holding, AChunk
<1> HIDE DEF s, input, take
<1> QED
  BY <1>7, <1>8, <1>9 DEF s, input, BufTakesIs

\* Blocks that are compressed from the input, and the rest in the buffer
WholeBlocksIs(key, flags, degree, u, c, k, m) ==
  Hasher!CompressWholeBlocks(Holding(key, flags, degree, u, c, k, 0),
                             Cut(u, c * CHUNK_LEN + 2 * k, m))
    = Holding(key, flags, degree, u, c, k + Blocks(m), m - 2 * Blocks(m))

\* The loop of ChunkState::update leaves a last block, full or not.
LEMMA WholeBlocks ==
  ASSUME NEW key, NEW flags, NEW degree, NEW u \in Units, NEW c \in Nat,
         CHUNK_LEN \in Nat, Hasher!BLOCK_LEN = 2, NEW k \in Nat, NEW m \in Nat
  PROVE  WholeBlocksIs(key, flags, degree, u, c, k, m)
<1> DEFINE hold(i) == Holding(key, flags, degree, u, c, i, 0)
           at == c * CHUNK_LEN
           input == Cut(u, at + 2 * k, m)
           blocks == IF input = <<>> THEN 0 ELSE (Len(input) - 1) \div 2
           F(f) == [n \in 0 .. blocks |->
                      IF n = 0 THEN hold(k)
                      ELSE Hasher!CompressBlock(f[n - 1], Hasher!Piece(input, 2, n))]
           g == [n \in 0 .. blocks |-> hold(k + n)]
           after == CHOOSE f : f = F(f)
<1>0. at \in Nat
  OBVIOUS
<1>1. Len(input) = m /\ (input = <<>> <=> m = 0)
  <2> HIDE DEF at
  <2>1. IsCut(u, at + 2 * k, m, input)
    BY <1>0, CutIs
  <2> HIDE DEF input
  <2> QED
    BY <2>1 DEF IsCut
<1>2. blocks = Blocks(m) /\ blocks \in Nat /\ 2 * blocks <= m
  BY <1>1 DEF Blocks
<1>3. ASSUME NEW n \in 0 .. blocks, n # 0
      PROVE  Hasher!CompressBlock(hold(k + (n - 1)), Hasher!Piece(input, 2, n)) = hold(k + n)
  <2> DEFINE i == n - 1
             j == k + i
  <2>1. i \in Nat /\ n = i + 1 /\ (i + 1) * 2 <= m /\ (at + 2 * k) + i * 2 = at + 2 * (k + i)
        /\ at + 2 * k \in Nat
    BY <1>0, <1>2, <1>3
  <2>2. PieceIs(u, at + 2 * k, m, 2, i)
    <3> HIDE DEF i, at
    <3> QED
      BY <2>1, CutPiece
  <2>3. Hasher!Piece(input, 2, n) = Cut(u, at + 2 * j, 2)
    <3>1. Hasher!Piece(input, 2, i + 1) = Cut(u, (at + 2 * k) + i * 2, 2)
      BY <2>2, Zenon DEF PieceIs
    <3> HIDE DEF i, at, input
    <3> QED
      BY <2>1, <3>1
  <2>4. j \in Nat /\ k + n = j + 1
    BY <2>1
  <2> HIDE DEF j
  <2>5. Hasher!CompressBlock(hold(j), Cut(u, at + 2 * j, 2))
          = [hold(j + 1) EXCEPT !.buf = Cut(u, at + 2 * j, 0)]
    BY <2>4, BlockPasses
  <2>6. hold(j + 1).buf = <<>> /\ Cut(u, at + 2 * j, 0) = <<>>
    <3>1. IsCut(u, at + 2 * (j + 1), 0, Cut(u, at + 2 * (j + 1), 0))
      <4> HIDE DEF at
      <4>1. at + 2 * (j + 1) \in Nat
        BY <1>0, <2>4
      <4> QED
        BY <4>1, CutIs
    <3>2. IsCut(u, at + 2 * j, 0, Cut(u, at + 2 * j, 0))
      <4> HIDE DEF at
      <4>1. at + 2 * j \in Nat
        BY <1>0, <2>4
      <4> QED
        BY <4>1, CutIs
    <3>3. hold(j + 1).buf = Cut(u, at + 2 * (j + 1), 0)
      BY DEF Holding, AChunk
    <3> QED
      BY <3>1, <3>2, <3>3 DEF IsCut
  <2>7. [hold(j + 1) EXCEPT !.buf = <<>>] = hold(j + 1)
    BY <2>6 DEF Holding, AChunk
  <2> HIDE DEF hold, at
  <2>8. Hasher!CompressBlock(hold(j), Cut(u, at + 2 * j, 2)) = hold(j + 1)
    BY <2>5, <2>6, <2>7
  <2> QED
    BY <2>3, <2>4, <2>8 DEF j
<1> HIDE DEF hold, input, at
<1>4. g = F(g)
  <2>1. ASSUME NEW n \in 0 .. blocks
        PROVE  g[n] = IF n = 0 THEN hold(k)
                      ELSE Hasher!CompressBlock(g[n - 1], Hasher!Piece(input, 2, n))
    <3>1. CASE n = 0
      BY <3>1
    <3>2. CASE n # 0
      <4>1. n - 1 \in 0 .. blocks
        BY <1>2, <3>2
      <4>2. g[n - 1] = hold(k + (n - 1)) /\ g[n] = hold(k + n)
        BY <4>1
      <4> QED
        BY <1>3, <3>2, <4>2
    <3> QED
      BY <3>1, <3>2
  <2>2. g = [n \in 0 .. blocks |-> g[n]]
    OBVIOUS
  <2> HIDE DEF g, blocks
  <2> QED
    BY <2>1, <2>2, Zenon
<1>5. after = F(after)
  <2> HIDE DEF F, g
  <2> QED
    BY <1>4
<1> HIDE DEF after
<1>6. \A n \in 0 .. blocks : after[n] = hold(k + n)
  <2> DEFINE S == {n \in Nat : n <= blocks => after[n] = hold(k + n)}
  <2>1. \A n \in 0 .. blocks :
          after[n] = IF n = 0 THEN hold(k)
                     ELSE Hasher!CompressBlock(after[n - 1], Hasher!Piece(input, 2, n))
    <3>1. \A n \in 0 .. blocks : after[n] = F(after)[n]
      BY <1>5, Zenon
    <3> HIDE DEF blocks
    <3> QED
      BY <3>1
  <2> HIDE DEF blocks
  <2>2. 0 \in S
    <3>1. 0 \in 0 .. blocks /\ k + 0 = k
      BY <1>2
    <3>2. after[0] = hold(k)
      BY <2>1, <3>1
    <3> QED
      BY <3>1, <3>2
  <2>3. ASSUME NEW n \in Nat, n \in S PROVE n + 1 \in S
    <3> SUFFICES ASSUME n + 1 <= blocks PROVE after[n + 1] = hold(k + (n + 1))
      OBVIOUS
    <3> DEFINE n1 == n + 1
    <3>1. n1 \in 0 .. blocks /\ n1 # 0 /\ n1 - 1 = n /\ n1 \in Nat
      BY <1>2
    <3>2. after[n] = hold(k + n)
      BY <1>2, <2>3
    <3> HIDE DEF n1
    <3>3. after[n1] = Hasher!CompressBlock(hold(k + (n1 - 1)), Hasher!Piece(input, 2, n1))
      BY <2>1, <3>1, <3>2
    <3>4. after[n1] = hold(k + n1)
      BY <1>3, <3>1, <3>3
    <3> QED
      BY <3>4 DEF n1
  <2>4. \A n \in Nat : n \in S
    <3> HIDE DEF S
    <3> QED
      BY <2>2, <2>3, Induction
  <2> QED
    BY <1>2, <2>4
<1>7. Hasher!CompressWholeBlocks(hold(k), input)
        = Hasher!FillBuf(after[blocks], Hasher!Dropped(input, blocks * 2))
  BY DEF Hasher!CompressWholeBlocks, after
<1>8. after[blocks] = hold(k + blocks)
  <2>1. blocks \in 0 .. blocks
    BY <1>2
  <2> HIDE DEF blocks
  <2> QED
    BY <1>6, <2>1
<1> HIDE DEF blocks
<1>9. Hasher!Dropped(input, blocks * 2) = Cut(u, at + 2 * (k + blocks) + 0, m - 2 * blocks)
  <2>1. blocks * 2 \in 0 .. m /\ at + 2 * k \in Nat
        /\ (at + 2 * k) + blocks * 2 = at + 2 * (k + blocks) + 0 /\ blocks * 2 = 2 * blocks
    BY <1>0, <1>2
  <2>2. SplitIs(u, at + 2 * k, m, blocks * 2)
    BY <2>1, CutSplit
  <2> QED
    BY <2>1, <2>2 DEF SplitIs, input
<1>10. m - 2 * blocks \in 0 .. 2 /\ k + blocks \in Nat
  <2>1. m - 2 * Blocks(m) \in 0 .. 2
    BY BlocksAre
  <2> QED
    BY <1>2, <2>1
<1> DEFINE r == m - 2 * blocks
           j == k + blocks
<1>11. Hasher!FillBuf(Holding(key, flags, degree, u, c, j, 0), Cut(u, c * CHUNK_LEN + 2 * j + 0, r))
         = Holding(key, flags, degree, u, c, j, IF r <= 2 - 0 THEN 0 + r ELSE 2)
  <2>1. r \in Nat /\ j \in Nat /\ 0 \in 0 .. 2
    BY <1>10
  <2> HIDE DEF r, j
  <2>2. BufTakesIs(key, flags, degree, u, c, j, 0, r)
    BY <2>1, BufTakes, Zenon
  <2> QED
    BY <2>2 DEF BufTakesIs
<1>12. (IF r <= 2 - 0 THEN 0 + r ELSE 2) = r
  BY <1>10
<1> HIDE DEF r, j
<1>13. Hasher!FillBuf(hold(j), Cut(u, at + 2 * j + 0, r)) = Holding(key, flags, degree, u, c, j, r)
  BY <1>11, <1>12 DEF hold, at
<1>14. Hasher!CompressWholeBlocks(hold(k), input) = Holding(key, flags, degree, u, c, j, r)
  BY <1>7, <1>8, <1>9, <1>13 DEF j, r
<1> QED
  BY <1>2, <1>14 DEF hold, input, at, j, r, WholeBlocksIs

\* What is in the state of a chunk of n units
ChunkIs(key, flags, degree, c, n, s, cv, buf) ==
  /\ s.cv = cv /\ s.chunk_counter = c /\ s.buf = buf /\ s.blocks_compressed = Blocks(n)
  /\ s.flags = flags /\ s.simd_degree = degree
  /\ buf \in Seq(Nat) /\ Len(buf) = n - 2 * Blocks(n) /\ (buf = <<>> <=> n = 0)
  /\ Hasher!ChunkCount(s) = n
  /\ Hasher!ChunkStartFlag(s) = IF Blocks(n) = 0 THEN {"CHUNK_START"} ELSE {}

\* The fields of a chunk's state
LEMMA ChunkOfIs ==
  ASSUME NEW key, NEW flags, NEW degree, NEW u \in Units, NEW c \in Nat,
         CHUNK_LEN \in Nat, Hasher!BLOCK_LEN = 2, NEW n \in Nat
  PROVE  ChunkIs(key, flags, degree, c, n, ChunkOf(key, flags, degree, u, c, n),
                 BlockCv(key, flags, u, c)[Blocks(n)],
                 Cut(u, c * CHUNK_LEN + 2 * Blocks(n), n - 2 * Blocks(n)))
<1> DEFINE k == Blocks(n)
           b == n - 2 * k
           at == c * CHUNK_LEN + 2 * k
           buf == Cut(u, at, b)
           s == ChunkOf(key, flags, degree, u, c, n)
           cv == BlockCv(key, flags, u, c)[k]
<1>1. k \in Nat /\ b \in 0 .. 2 /\ (b = 0 => n = 0) /\ (n = 0 => b = 0) /\ n = 2 * k + b
  <2>1. /\ Blocks(n) \in Nat /\ n - 2 * Blocks(n) \in 0 .. 2
        /\ n - 2 * Blocks(n) = 0 => n = 0 /\ Blocks(n) = 0
        /\ Blocks(n) = 0 <=> n <= 2
    BY BlocksAre
  <2>2. n = 0 => Blocks(n) = 0
    BY DEF Blocks
  <2> QED
    BY <2>1, <2>2
<1>2. s = AChunk(cv, c, buf, k, flags, degree)
  BY DEF ChunkOf, Holding
<1> HIDE DEF k, cv, s
<1>3. at \in Nat /\ b \in Nat
  <2>1. c * CHUNK_LEN \in Nat
    OBVIOUS
  <2> QED
    BY <1>1, <2>1
<1> HIDE DEF at, b
<1>4. IsCut(u, at, b, buf)
  BY <1>3, CutIs
<1> HIDE DEF buf
<1>5. /\ s.cv = cv /\ s.chunk_counter = c /\ s.buf = buf /\ s.blocks_compressed = k
      /\ s.flags = flags /\ s.simd_degree = degree
  BY <1>2 DEF AChunk
<1>6. buf \in Seq(Nat) /\ Len(buf) = b /\ (buf = <<>> <=> n = 0)
  BY <1>1, <1>4 DEF IsCut
<1>7. Hasher!ChunkCount(s) = n
  BY <1>1, <1>5, <1>6 DEF Hasher!ChunkCount
<1>8. Hasher!ChunkStartFlag(s) = IF k = 0 THEN {"CHUNK_START"} ELSE {}
  BY <1>5 DEF Hasher!ChunkStartFlag
<1> QED
  BY <1>5, <1>6, <1>7, <1>8 DEF ChunkIs, k, b, at, buf, s, cv

\* A chunk that was given nothing
LEMMA NewChunkIs ==
  ASSUME NEW key, NEW flags, NEW degree, NEW u \in Units, NEW c \in Nat, CHUNK_LEN \in Nat
  PROVE  Hasher!NewChunkState(key, c, flags, degree) = ChunkOf(key, flags, degree, u, c, 0)
<1> DEFINE at == c * CHUNK_LEN + 2 * 0
           cv == BlockCv(key, flags, u, c)
<1>1. at \in Nat
  OBVIOUS
<1>2. Cut(u, at, 0) = <<>>
  <2> HIDE DEF at
  <2>1. IsCut(u, at, 0, Cut(u, at, 0))
    BY <1>1, CutIs
  <2> QED
    BY <2>1 DEF IsCut
<1>3. cv[0] = key
  <2>1. Chained(key, flags, Vals(key, flags), u, c, cv)
    BY BlockCvIs
  <2> HIDE DEF cv
  <2> QED
    BY <2>1 DEF Chained
<1>4. Blocks(0) = 0 /\ 0 - 2 * 0 = 0
  BY DEF Blocks
<1>5. ChunkOf(key, flags, degree, u, c, 0) = AChunk(cv[0], c, Cut(u, at, 0), 0, flags, degree)
  BY <1>4 DEF ChunkOf, Holding
<1> HIDE DEF cv, at
<1> QED
  BY <1>2, <1>3, <1>5 DEF AChunk, Hasher!NewChunkState

\* An update of a chunk, with what the chunk has room for
UpdatesChunk(key, flags, degree, u, c, n, m) ==
  Hasher!UpdateChunk(ChunkOf(key, flags, degree, u, c, n), Cut(u, c * CHUNK_LEN + n, m))
    = ChunkOf(key, flags, degree, u, c, n + m)

\* ChunkState::update adds what it is given to what the chunk has, however it is cut.
LEMMA ChunkUpdated ==
  ASSUME NEW key, NEW flags, NEW degree, NEW u \in Units, NEW c \in Nat,
         CHUNK_LEN \in Nat, Hasher!BLOCK_LEN = 2, NEW n \in Nat, NEW m \in Nat, n + m <= CHUNK_LEN
  PROVE  UpdatesChunk(key, flags, degree, u, c, n, m)
<1> DEFINE hold(i, j) == Holding(key, flags, degree, u, c, i, j)
           k == Blocks(n)
           b == n - 2 * k
           at == c * CHUNK_LEN
           s == ChunkOf(key, flags, degree, u, c, n)
           input == Cut(u, at + n, m)
           want == 2 - b
           rest == Hasher!Dropped(input, want)
           full == Hasher!FillBuf(s, input).buf
           updated == IF s.buf = <<>> THEN Hasher!CompressWholeBlocks(s, input)
                      ELSE IF m <= want THEN Hasher!FillBuf(s, input)
                      ELSE Hasher!CompressWholeBlocks(
                             [Hasher!CompressBlock(s, full) EXCEPT !.buf = <<>>], rest)
           all == ChunkOf(key, flags, degree, u, c, n + m)
<1>1. /\ k \in Nat /\ b \in 0 .. 2 /\ n = 2 * k + b /\ (b = 0 => n = 0 /\ k = 0)
      /\ want \in 0 .. 2 /\ want + b = 2
  <2>1. Blocks(n) \in Nat /\ n - 2 * Blocks(n) \in 0 .. 2
        /\ (n - 2 * Blocks(n) = 0 => n = 0 /\ Blocks(n) = 0)
    BY BlocksAre
  <2> QED
    BY <2>1
<1>2. at \in Nat
  OBVIOUS
<1>3. s = hold(k, b)
  BY DEF ChunkOf
<1>4. Len(s.buf) = b /\ (s.buf = <<>> <=> n = 0)
  <2>1. ChunkIs(key, flags, degree, c, n, s, BlockCv(key, flags, u, c)[Blocks(n)],
                Cut(u, c * CHUNK_LEN + 2 * Blocks(n), n - 2 * Blocks(n)))
    BY ChunkOfIs
  <2> HIDE DEF s
  <2> QED
    BY <2>1 DEF ChunkIs
<1> HIDE DEF k, s, at
<1>5. Len(input) = m
  <2>1. IsCut(u, at + n, m, input)
    BY <1>2, CutIs
  <2> HIDE DEF input
  <2> QED
    BY <2>1 DEF IsCut
<1> HIDE DEF b
<1>6. updated = all
  <2>1. CASE n = 0
    <3>1. WholeBlocksIs(key, flags, degree, u, c, 0, m)
      BY WholeBlocks
    <3>2. k = 0 /\ b = 0 /\ at + n = at + 2 * 0 /\ n + m = m /\ 0 + Blocks(m) = Blocks(m)
      <4>1. Blocks(m) \in Nat
        BY BlocksAre
      <4>2. k = 0 /\ b = 0
        BY <1>1, <2>1
      <4> QED
        BY <1>2, <2>1, <4>1, <4>2
    <3>3. Hasher!CompressWholeBlocks(hold(0, 0), Cut(u, at + 2 * 0, m))
            = hold(0 + Blocks(m), m - 2 * Blocks(m))
      BY <3>1 DEF WholeBlocksIs, at
    <3>4. updated = Hasher!CompressWholeBlocks(s, input)
      BY <1>4, <2>1
    <3> HIDE DEF updated, hold
    <3>5. updated = hold(Blocks(m), m - 2 * Blocks(m))
      BY <1>3, <3>2, <3>3, <3>4
    <3> QED
      BY <3>2, <3>5 DEF ChunkOf, hold
  <2>2. CASE n # 0 /\ m <= want
    <3>1. b # 0 /\ Blocks(n + m) = k /\ m <= 2 - b /\ at + n = at + 2 * k + b
          /\ (n + m) - 2 * k = b + m
      <4>1. b # 0
        <5>1. b = 0 => n = 0
          BY <1>1
        <5> QED
          BY <2>2, <5>1
      <4>2. n + m - 1 = 2 * k + (b + m - 1) /\ b + m - 1 \in 0 .. 1 /\ n + m # 0
        BY <1>1, <2>2, <4>1
      <4>3. (n + m - 1) \div 2 = k
        BY <1>1, <4>2
      <4> QED
        BY <1>1, <1>2, <2>2, <4>1, <4>2, <4>3 DEF Blocks
    <3>2. BufTakesIs(key, flags, degree, u, c, k, b, m)
      BY <1>1, BufTakes
    <3>3. Hasher!FillBuf(hold(k, b), input) = hold(k, b + m)
      BY <3>1, <3>2 DEF BufTakesIs, at
    <3>4. updated = Hasher!FillBuf(s, input)
      BY <1>4, <2>2
    <3>5. all = hold(k, b + m)
      BY <3>1 DEF ChunkOf
    <3> HIDE DEF updated, hold, all, input
    <3> QED
      BY <1>3, <3>3, <3>4, <3>5
  <2>3. CASE n # 0 /\ ~(m <= want)
    <3> DEFINE r == m - want
               j == k + 1
    <3>1. r \in Nat /\ r >= 1 /\ j \in Nat /\ want \in 0 .. m /\ ~(m <= 2 - b)
          /\ at + n = at + 2 * k + b /\ (at + n) + want = at + 2 * j
      BY <1>1, <1>2, <2>3
    <3>2. Blocks(n + m) = j + Blocks(r) /\ (n + m) - 2 * (j + Blocks(r)) = r - 2 * Blocks(r)
      <4>1. n + m = 2 * j + r
        BY <1>1
      <4> HIDE DEF r, j
      <4>2. (2 * j + r - 1) \div 2 = j + (r - 1) \div 2
        BY <3>1
      <4>3. Blocks(n + m) = j + Blocks(r)
        BY <3>1, <4>1, <4>2 DEF Blocks
      <4>4. Blocks(r) \in Nat
        BY <3>1, BlocksAre, Zenon
      <4> QED
        BY <3>1, <4>1, <4>3, <4>4
    <3> HIDE DEF r
    <3>3. rest = Cut(u, at + 2 * j, r)
      <4>1. SplitIs(u, at + n, m, want)
        BY <1>2, <3>1, CutSplit
      <4> HIDE DEF want
      <4> QED
        BY <3>1, <4>1 DEF SplitIs, r
    <3>4. full = Cut(u, at + 2 * k, 2)
      <4>1. BufTakesIs(key, flags, degree, u, c, k, b, m)
        BY <1>1, BufTakes
      <4>2. Hasher!FillBuf(hold(k, b), input) = hold(k, 2)
        BY <3>1, <4>1 DEF BufTakesIs, at
      <4>3. hold(k, 2).buf = Cut(u, at + 2 * k, 2)
        BY DEF Holding, AChunk, at
      <4> HIDE DEF hold, input
      <4> QED
        BY <1>3, <4>2, <4>3
    <3>5. [Hasher!CompressBlock(s, full) EXCEPT !.buf = <<>>] = hold(j, 0)
      <4>1. Hasher!CompressBlock(hold(k, b), Cut(u, at + 2 * k, 2))
              = [hold(k + 1, 0) EXCEPT !.buf = Cut(u, at + 2 * k, b)]
        BY <1>1, BlockPasses DEF at
      <4>2. hold(k + 1, 0).buf = <<>>
        <5>1. hold(k + 1, 0).buf = Cut(u, at + 2 * (k + 1), 0)
          BY DEF Holding, AChunk, at
        <5>2. at + 2 * (k + 1) \in Nat
          BY <1>1, <1>2
        <5>3. IsCut(u, at + 2 * (k + 1), 0, Cut(u, at + 2 * (k + 1), 0))
          BY <5>2, CutIs
        <5> QED
          BY <5>1, <5>3 DEF IsCut
      <4>3. [[hold(k + 1, 0) EXCEPT !.buf = Cut(u, at + 2 * k, b)] EXCEPT !.buf = <<>>] = hold(k + 1, 0)
        BY <4>2, Zenon DEF Holding, AChunk
      <4> HIDE DEF hold, full, j
      <4> QED
        BY <1>3, <3>4, <4>1, <4>3, Zenon DEF j
    <3>6. WholeBlocksIs(key, flags, degree, u, c, j, r)
      <4> HIDE DEF j
      <4> QED
        BY <3>1, WholeBlocks
    <3> HIDE DEF j
    <3>7. Hasher!CompressWholeBlocks(hold(j, 0), Cut(u, at + 2 * j, r))
            = hold(j + Blocks(r), r - 2 * Blocks(r))
      BY <3>6 DEF WholeBlocksIs, at
    <3>8. updated = Hasher!CompressWholeBlocks([Hasher!CompressBlock(s, full) EXCEPT !.buf = <<>>], rest)
      BY <1>4, <2>3
    <3>9. all = hold(j + Blocks(r), r - 2 * Blocks(r))
      BY <3>2 DEF ChunkOf
    <3> HIDE DEF updated, hold, full, rest, all
    <3> QED
      BY <3>3, <3>5, <3>7, <3>8, <3>9
  <2> QED
    BY <2>1, <2>2, <2>3
<1>7. Hasher!ChunkCount(all) = n + m
  <2> DEFINE l == n + m
             t == ChunkOf(key, flags, degree, u, c, l)
  <2>1. l \in Nat
    OBVIOUS
  <2> HIDE DEF l
  <2>2. ChunkIs(key, flags, degree, c, l, t, BlockCv(key, flags, u, c)[Blocks(l)],
                Cut(u, c * CHUNK_LEN + 2 * Blocks(l), l - 2 * Blocks(l)))
    BY <2>1, ChunkOfIs
  <2> HIDE DEF t
  <2>3. Hasher!ChunkCount(t) = l
    BY <2>2 DEF ChunkIs
  <2> QED
    BY <2>3 DEF t, l
<1>8. Hasher!UpdateChunk(s, input)
        = Hasher!Asserting(Hasher!ChunkCount(updated) <= CHUNK_LEN, updated)
  <2> HIDE DEF s, input
  <2> QED
    BY <1>4, <1>5 DEF Hasher!UpdateChunk
<1> HIDE DEF updated, all, input
<1>9. Hasher!UpdateChunk(s, input) = all
  BY <1>6, <1>7, <1>8 DEF Hasher!Asserting
<1> QED
  BY <1>9 DEF s, input, all, at, UpdatesChunk

\* The node of a chunk of n units
LeafOut(key, flags, u, c, n) ==
  Hasher!Output(BlockCv(key, flags, u, c)[Blocks(n)],
    Hasher!Padded(Cut(u, c * CHUNK_LEN + 2 * Blocks(n), n - 2 * Blocks(n))),
    n - 2 * Blocks(n), c,
    flags \cup (IF Blocks(n) = 0 THEN {"CHUNK_START"} ELSE {}) \cup {"CHUNK_END"})

\* Its chaining value
Leaf(key, flags, u, c, n) == Hasher!ChainingValue(LeafOut(key, flags, u, c, n))

\* ChunkState::output is the node of the units that the chunk was given.
LEMMA LeafOutIs ==
  ASSUME NEW key, NEW flags, NEW degree, NEW u \in Units, NEW c \in Nat,
         CHUNK_LEN \in Nat, Hasher!BLOCK_LEN = 2, NEW n \in Nat
  PROVE  Hasher!ChunkOutput(ChunkOf(key, flags, degree, u, c, n)) = LeafOut(key, flags, u, c, n)
<1> DEFINE s == ChunkOf(key, flags, degree, u, c, n)
           cv == BlockCv(key, flags, u, c)[Blocks(n)]
           buf == Cut(u, c * CHUNK_LEN + 2 * Blocks(n), n - 2 * Blocks(n))
<1>1. ChunkIs(key, flags, degree, c, n, s, cv, buf)
  BY ChunkOfIs
<1>2. LeafOut(key, flags, u, c, n)
        = Hasher!Output(cv, Hasher!Padded(buf), n - 2 * Blocks(n), c,
            flags \cup (IF Blocks(n) = 0 THEN {"CHUNK_START"} ELSE {}) \cup {"CHUNK_END"})
  BY DEF LeafOut
<1> HIDE DEF s, cv, buf
<1> QED
  BY <1>1, <1>2 DEF ChunkIs, Hasher!ChunkOutput, s

\* The last compression of a chunk
LeafCompressed(key, flags, u, c, n) ==
  Leaf(key, flags, u, c, n)
    = Hasher!Compress(BlockCv(key, flags, u, c)[Blocks(n)],
        Hasher!Padded(Cut(u, c * CHUNK_LEN + 2 * Blocks(n), n - 2 * Blocks(n))),
        n - 2 * Blocks(n), c,
        flags \cup (IF Blocks(n) = 0 THEN {"CHUNK_START"} ELSE {}) \cup {"CHUNK_END"})

\* A chunk's value comes of that compression.
LEMMA LeafIs ==
  ASSUME NEW key, NEW flags, NEW u \in Units, NEW c \in Nat,
         CHUNK_LEN \in Nat, Hasher!BLOCK_LEN = 2, NEW n \in Nat
  PROVE  Leaf(key, flags, u, c, n) \in Vals(key, flags) /\ LeafCompressed(key, flags, u, c, n)
<1> DEFINE V == Vals(key, flags)
           k == Blocks(n)
           b == n - 2 * k
           x == BlockCv(key, flags, u, c)[k]
           at == c * CHUNK_LEN + 2 * k
           buf == Cut(u, at, b)
           block == Hasher!Padded(buf)
           f == flags \cup (IF k = 0 THEN {"CHUNK_START"} ELSE {}) \cup {"CHUNK_END"}
<1>1. Closed(key, flags, V)
  BY ValsAre
<1>2. Chained(key, flags, V, u, c, BlockCv(key, flags, u, c))
  BY BlockCvIs
<1>3. k \in Nat /\ b \in Nat
  <2>1. k \in Nat /\ b \in 0 .. 2
    BY BlocksAre
  <2> QED
    BY <2>1
<1>4. at \in Nat
  <2>1. c * CHUNK_LEN \in Nat
    OBVIOUS
  <2> QED
    BY <1>3, <2>1
<1>5. x \in V
  <2> HIDE DEF V
  <2> QED
    BY <1>2, <1>3 DEF Chained
<1>6. Leaf(key, flags, u, c, n) = Hasher!Compress(x, block, b, c, f)
  <2> HIDE DEF x, block, b, f
  <2> QED
    BY DEF Leaf, LeafOut, Hasher!ChainingValue, Hasher!Output, x, block, b, f
<1> HIDE DEF at, k, b, x, V
<1>7. IsCut(u, at, b, buf)
  BY <1>3, <1>4, CutIs
<1> HIDE DEF buf
<1>8. block \in [1 .. 2 -> V]
  <2>1. \A i \in 1 .. 2 : (IF i <= Len(buf) THEN buf[i] ELSE 0) \in Nat
    BY <1>3, <1>7 DEF IsCut
  <2>2. Nat \subseteq V
    BY <1>1 DEF Closed
  <2> QED
    BY <2>1, <2>2 DEF Hasher!Padded
<1>9. f \in SUBSET Marks(flags)
  BY DEF Marks
<1> HIDE DEF block, f
<1>10. Hasher!Compress(x, block, b, c, f) \in V
  BY <1>1, <1>3, <1>5, <1>8, <1>9 DEF Closed
<1> QED
  BY <1>6, <1>10 DEF V, x, block, b, f, k, buf, at, LeafCompressed

\* A whole chunk, hashed with others at a time
HashIsLeaf(key, flags, u, c) ==
  Hasher!Hash1(Cut(u, c * CHUNK_LEN, CHUNK_LEN), key, c, flags, {"CHUNK_START"}, {"CHUNK_END"})
    = Leaf(key, flags, u, c, CHUNK_LEN)

\* hash1, over a whole chunk, gives the value that ChunkState gives.
LEMMA ChunkHashed ==
  ASSUME NEW key, NEW flags, NEW u \in Units, NEW c \in Nat, Hasher!SizesAssumption
  PROVE  HashIsLeaf(key, flags, u, c)
<1> DEFINE at == c * CHUNK_LEN
           input == Cut(u, at, CHUNK_LEN)
           B == CHUNK_LEN \div 2
           bc == BlockCv(key, flags, u, c)
           leaf == Leaf(key, flags, u, c, CHUNK_LEN)
           blocks == Len(input) \div 2
           one(x, n) == Hasher!Compress(x, Hasher!Piece(input, 2, n), 2, c,
                          flags \cup (IF n = 1 THEN {"CHUNK_START"} ELSE {})
                                \cup (IF n = blocks THEN {"CHUNK_END"} ELSE {}))
           F(f) == [n \in 0 .. blocks |-> IF n = 0 THEN key ELSE one(f[n - 1], n)]
           g == [n \in 0 .. B |-> IF n = B THEN leaf ELSE bc[n]]
           cv == CHOOSE f : f = F(f)
<1>1. /\ CHUNK_LEN \in Nat /\ CHUNK_LEN >= 2 /\ Hasher!BLOCK_LEN = 2 /\ CHUNK_LEN = 2 * B
      /\ B \in Nat /\ B >= 1 /\ at \in Nat
  <2>1. CHUNK_LEN \in Nat /\ CHUNK_LEN >= 2 /\ Hasher!BLOCK_LEN = 2 /\ CHUNK_LEN = 2 * B
    BY SizesAre
  <2> QED
    BY <2>1
<1> HIDE DEF at, B
<1>2. blocks = B
  <2>1. IsCut(u, at, CHUNK_LEN, input)
    BY <1>1, CutIs
  <2> HIDE DEF input
  <2> QED
    BY <1>1, <2>1 DEF IsCut
<1>3. Chained(key, flags, Vals(key, flags), u, c, bc)
  BY <1>1, BlockCvIs
<1>4. Blocks(CHUNK_LEN) = B - 1 /\ CHUNK_LEN - 2 * (B - 1) = 2 /\ B - 1 \in Nat
  BY <1>1 DEF Blocks
<1>5. leaf = Hasher!Compress(bc[B - 1], Cut(u, at + 2 * (B - 1), 2), 2, c,
               flags \cup (IF B - 1 = 0 THEN {"CHUNK_START"} ELSE {}) \cup {"CHUNK_END"})
  <2> DEFINE buf == Cut(u, at + 2 * (B - 1), 2)
  <2>1. Hasher!Padded(buf) = buf
    <3>1. at + 2 * (B - 1) \in Nat
      BY <1>1
    <3>2. IsCut(u, at + 2 * (B - 1), 2, buf)
      BY <3>1, CutIs
    <3>3. buf = [i \in 1 .. 2 |-> u[(at + 2 * (B - 1)) + i]]
      BY DEF Cut
    <3>4. Hasher!Padded(buf) = [i \in 1 .. 2 |-> buf[i]]
      <4> HIDE DEF buf
      <4> QED
        BY <1>1, <3>2 DEF IsCut, Hasher!Padded
    <3> QED
      BY <3>3, <3>4
  <2>2. leaf = Hasher!Compress(bc[B - 1], Hasher!Padded(buf), 2, c,
               flags \cup (IF B - 1 = 0 THEN {"CHUNK_START"} ELSE {}) \cup {"CHUNK_END"})
    <3>1. LeafCompressed(key, flags, u, c, CHUNK_LEN)
      BY <1>1, LeafIs, Zenon
    <3> HIDE DEF bc, leaf, buf
    <3> QED
      BY <1>4, <3>1 DEF LeafCompressed, bc, leaf, at, buf
  <2> QED
    BY <2>1, <2>2
<1> HIDE DEF leaf, bc
<1>6. ASSUME NEW n \in 0 .. B, n # 0 PROVE one(g[n - 1], n) = g[n]
  <2> DEFINE i == n - 1
  <2>1. i \in Nat /\ n = i + 1 /\ (i + 1) * 2 <= CHUNK_LEN /\ i * 2 = 2 * i /\ i \in 0 .. B /\ i # B
        /\ (n = 1 <=> i = 0)
    BY <1>1, <1>6
  <2> HIDE DEF i
  <2>2. PieceIs(u, at, CHUNK_LEN, 2, i)
    BY <1>1, <2>1, CutPiece
  <2>3. Hasher!Piece(input, 2, n) = Cut(u, at + 2 * i, 2)
    BY <2>1, <2>2 DEF PieceIs
  <2>4. g[i] = bc[i]
    BY <2>1
  <2>5. CASE n = B
    <3>1. i = B - 1
      BY <1>1, <2>1, <2>5
    <3>2. g[n] = leaf
      BY <2>5
    <3>3. one(bc[i], n) = Hasher!Compress(bc[i], Cut(u, at + 2 * i, 2), 2, c,
            flags \cup (IF i = 0 THEN {"CHUNK_START"} ELSE {}) \cup {"CHUNK_END"})
      BY <1>2, <2>1, <2>3, <2>5, Zenon
    <3> HIDE DEF g, one
    <3> QED
      BY <1>5, <2>4, <3>1, <3>2, <3>3, Zenon DEF i
  <2>6. CASE n # B
    <3>1. g[n] = bc[i + 1]
      BY <2>1, <2>6
    <3>2. one(bc[i], n) = Hasher!Compress(bc[i], Cut(u, at + 2 * i, 2), 2, c,
            flags \cup (IF i = 0 THEN {"CHUNK_START"} ELSE {}) \cup {})
      BY <1>2, <2>1, <2>3, <2>6, Zenon
    <3>3. bc[i + 1] = Hasher!Compress(bc[i], Cut(u, at + 2 * i, 2), 2, c,
            flags \cup (IF i = 0 THEN {"CHUNK_START"} ELSE {}))
      BY <1>3, <2>1 DEF Chained, at
    <3>4. flags \cup (IF i = 0 THEN {"CHUNK_START"} ELSE {}) \cup {}
            = flags \cup (IF i = 0 THEN {"CHUNK_START"} ELSE {})
      OBVIOUS
    <3> HIDE DEF g, one
    <3> QED
      BY <2>4, <3>1, <3>2, <3>3, <3>4 DEF i
  <2> QED
    BY <2>5, <2>6
<1>7. g[0] = key
  BY <1>1, <1>3 DEF Chained
<1> HIDE DEF one, input, blocks
<1>8. g = F(g)
  <2>1. \A n \in 0 .. B : g[n] = IF n = 0 THEN key ELSE one(g[n - 1], n)
    BY <1>6, <1>7
  <2>2. g = [n \in 0 .. B |-> g[n]]
    OBVIOUS
  <2> HIDE DEF g
  <2> QED
    BY <1>2, <2>1, <2>2, Zenon
<1>9. cv = F(cv)
  <2> HIDE DEF F, g
  <2> QED
    BY <1>8
<1> HIDE DEF cv
<1>10. \A n \in 0 .. B : cv[n] = IF n = 0 THEN key ELSE one(cv[n - 1], n)
  <2>1. \A n \in 0 .. blocks : cv[n] = F(cv)[n]
    BY <1>9, Zenon
  <2> QED
    BY <1>2, <2>1
<1>11. cv[B] = g[B]
  <2> DEFINE S == {n \in Nat : n <= B => cv[n] = g[n]}
  <2>1. 0 \in S
    BY <1>1, <1>7, <1>10
  <2>2. ASSUME NEW n \in Nat, n \in S PROVE n + 1 \in S
    <3> SUFFICES ASSUME n + 1 <= B PROVE cv[n + 1] = g[n + 1]
      OBVIOUS
    <3> DEFINE n1 == n + 1
    <3>1. n1 \in 0 .. B /\ n1 # 0 /\ n1 - 1 = n
      BY <1>1
    <3>2. cv[n] = g[n]
      BY <1>1, <2>2
    <3> HIDE DEF n1, g
    <3>3. cv[n1] = one(g[n1 - 1], n1)
      BY <1>10, <3>1, <3>2
    <3>4. cv[n1] = g[n1]
      BY <1>6, <3>1, <3>3
    <3> QED
      BY <3>4 DEF n1
  <2>3. \A n \in Nat : n \in S
    <3> HIDE DEF S
    <3> QED
      BY <2>1, <2>2, Induction
  <2>4. B \in S
    <3> HIDE DEF S
    <3> QED
      BY <1>1, <2>3
  <2> HIDE DEF g
  <2> QED
    BY <1>1, <2>4
<1>12. g[B] = leaf
  BY <1>1
<1>13. Hasher!Hash1(input, key, c, flags, {"CHUNK_START"}, {"CHUNK_END"}) = cv[blocks]
  BY <1>1 DEF Hasher!Hash1, cv, one, blocks
<1> HIDE DEF g
<1> QED
  BY <1>2, <1>11, <1>12, <1>13 DEF input, at, leaf, HashIsLeaf

\* A pair, hashed with others at a time
PairIs(key, flags, a, b) ==
  Hasher!Hash1(<<a, b>>, key, 0, flags \cup {"PARENT"}, {}, {}) = Merge(key, flags)[a][b]

\* hash1, over two chaining values, gives their parent.
LEMMA PairHashed ==
  ASSUME NEW key, NEW flags, NEW a \in Vals(key, flags), NEW b \in Vals(key, flags),
         Hasher!BLOCK_LEN = 2
  PROVE  PairIs(key, flags, a, b)
<1> DEFINE input == <<a, b>>
           blocks == Len(input) \div 2
           one(x, n) == Hasher!Compress(x, Hasher!Piece(input, 2, n), 2, 0,
                          (flags \cup {"PARENT"}) \cup (IF n = 1 THEN {} ELSE {})
                                                  \cup (IF n = blocks THEN {} ELSE {}))
           F(f) == [n \in 0 .. blocks |-> IF n = 0 THEN key ELSE one(f[n - 1], n)]
           cv == CHOOSE f : f = F(f)
<1>1. blocks = 1
  OBVIOUS
<1>2. Hasher!Piece(input, 2, 1) = input
  <2> DEFINE V == Vals(key, flags)
  <2> HIDE DEF V
  <2>1. input \in Seq(V) /\ Len(input) = 2
    BY DEF V
  <2> HIDE DEF input
  <2>2. SubSeq(input, 1, 2) = input
    BY <2>1
  <2>3. (1 - 1) * 2 + 1 = 1 /\ 1 * 2 = 2
    OBVIOUS
  <2> QED
    BY <2>2, <2>3 DEF Hasher!Piece
<1>3. one(key, 1) = Merge(key, flags)[a][b]
  <2>1. (flags \cup {"PARENT"}) \cup (IF 1 = 1 THEN {} ELSE {}) \cup (IF 1 = blocks THEN {} ELSE {})
          = flags \cup {"PARENT"}
    OBVIOUS
  <2>2. Merge(key, flags)[a][b] = Hasher!Compress(key, <<a, b>>, 2, 0, flags \cup {"PARENT"})
    <3>1. Merges(key, flags, Vals(key, flags), Merge(key, flags))
      BY MergeIs
    <3> QED
      BY <3>1, Zenon DEF Merges
  <2> HIDE DEF input, blocks
  <2> QED
    BY <1>2, <2>1, <2>2 DEF input
<1> HIDE DEF one, blocks, input
<1> DEFINE g == [n \in 0 .. 1 |-> IF n = 0 THEN key ELSE one(key, 1)]
<1>4. g = F(g)
  <2>1. \A n \in 0 .. 1 : n = 0 \/ n = 1
    OBVIOUS
  <2>2. g[0] = key /\ g[1] = one(g[0], 1)
    OBVIOUS
  <2>3. \A n \in 0 .. 1 : g[n] = IF n = 0 THEN key ELSE one(g[n - 1], n)
    BY <2>1, <2>2
  <2>4. g = [n \in 0 .. 1 |-> g[n]]
    OBVIOUS
  <2> HIDE DEF g
  <2> QED
    BY <1>1, <2>3, <2>4
<1>5. cv = F(cv)
  <2> HIDE DEF F, g
  <2> QED
    BY <1>4
<1> HIDE DEF cv
<1>6. cv[0] = key /\ cv[1] = one(cv[0], 1)
  <2>1. cv[0] = F(cv)[0] /\ cv[1] = F(cv)[1]
    BY <1>5, Zenon
  <2> QED
    BY <1>1, <2>1
<1>7. Hasher!Hash1(input, key, 0, flags \cup {"PARENT"}, {}, {}) = cv[blocks]
  BY DEF Hasher!Hash1, cv, one, blocks
<1> QED
  BY <1>1, <1>3, <1>6, <1>7 DEF input, PairIs

(***************************************************************************)
(* The chunk of the reference implementation.                              *)
(***************************************************************************)
\* The ChunkState of the reference with these fields
ARefChunk(cv, at, block, blocks, flags) ==
  [chaining_value |-> cv, chunk_counter |-> at, block |-> block,
   blocks_compressed |-> blocks, flags |-> flags]

\* After a block
WithRefBlock(s, cv, blocks) ==
  [s EXCEPT !.chaining_value = cv, !.blocks_compressed = blocks, !.block = <<>>]

\* A compressed block changes nothing else.
LEMMA RefBlockAdded ==
  ASSUME NEW cv, NEW at, NEW block, NEW blocks, NEW flags, NEW newCv, NEW newBlocks
  PROVE  WithRefBlock(ARefChunk(cv, at, block, blocks, flags), newCv, newBlocks)
           = ARefChunk(newCv, at, <<>>, newBlocks, flags)
<1> DEFINE c == ARefChunk(cv, at, block, blocks, flags)
           d == ARefChunk(newCv, at, <<>>, newBlocks, flags)
           e == [c EXCEPT !.chaining_value = newCv, !.blocks_compressed = newBlocks, !.block = <<>>]
           Fields == {"chaining_value", "chunk_counter", "block", "blocks_compressed", "flags"}
<1>1. DOMAIN c = Fields /\ DOMAIN d = Fields
  BY DEF ARefChunk
<1>2. \A x \in Fields : x # "chaining_value" /\ x # "blocks_compressed" /\ x # "block" => c[x] = d[x]
  BY DEF ARefChunk
<1>3. d["chaining_value"] = newCv /\ d["blocks_compressed"] = newBlocks /\ d["block"] = <<>>
  BY DEF ARefChunk
<1>4. d = [x \in Fields |-> d[x]]
  BY DEF ARefChunk
<1> HIDE DEF c, d
<1>5. e = [x \in Fields |-> IF x = "block" THEN <<>> ELSE IF x = "blocks_compressed" THEN newBlocks
                          ELSE IF x = "chaining_value" THEN newCv ELSE c[x]]
  BY <1>1, Zenon
<1> QED
  BY <1>1, <1>2, <1>3, <1>4, <1>5 DEF c, d, WithRefBlock

\* Its state when k blocks are compressed and b units are waiting
RefHolding(key, flags, u, c, k, b) ==
  ARefChunk(BlockCv(key, flags, u, c)[k], c, Cut(u, c * CHUNK_LEN + 2 * k, b), k, flags)

\* Its state when it was given n units
RefChunkOf(key, flags, u, c, n) == RefHolding(key, flags, u, c, Blocks(n), n - 2 * Blocks(n))

\* A full block
LEMMA BlockFlushed ==
  ASSUME NEW key, NEW flags, NEW u \in Units, NEW c \in Nat,
         CHUNK_LEN \in Nat, Hasher!BLOCK_LEN = 2, NEW k \in Nat, NEW b \in Nat
  PROVE  Hasher!Ref!FlushBlock(RefHolding(key, flags, u, c, k, b))
           = IF b = 2 THEN RefHolding(key, flags, u, c, k + 1, 0)
             ELSE RefHolding(key, flags, u, c, k, b)
<1> DEFINE cv == BlockCv(key, flags, u, c)
           at == c * CHUNK_LEN
           block == Cut(u, at + 2 * k, b)
           start == IF k = 0 THEN {"CHUNK_START"} ELSE {}
           s == RefHolding(key, flags, u, c, k, b)
           t == RefHolding(key, flags, u, c, k + 1, 0)
           more == Cut(u, at + 2 * (k + 1), 0)
<1>0. at \in Nat
  OBVIOUS
<1>1. b = 2 => cv[k + 1] = Hasher!Compress(cv[k], block, 2, c, flags \cup start)
  <2>1. Chained(key, flags, Vals(key, flags), u, c, cv)
    BY BlockCvIs
  <2> HIDE DEF cv
  <2> QED
    BY <2>1 DEF Chained
<1>2. s = ARefChunk(cv[k], c, block, k, flags) /\ t = ARefChunk(cv[k + 1], c, more, k + 1, flags)
  BY DEF RefHolding
<1> HIDE DEF cv, at, s, t
<1>3. more = <<>>
  <2>1. at + 2 * (k + 1) \in Nat
    BY <1>0
  <2>2. IsCut(u, at + 2 * (k + 1), 0, more)
    BY <2>1, CutIs
  <2> HIDE DEF more
  <2> QED
    BY <2>2 DEF IsCut
<1>4. Len(block) = b
  <2>1. at + 2 * k \in Nat
    BY <1>0
  <2>2. IsCut(u, at + 2 * k, b, block)
    BY <2>1, CutIs
  <2> HIDE DEF block
  <2> QED
    BY <2>2 DEF IsCut
<1> HIDE DEF block, more
<1>5. /\ s.chaining_value = cv[k] /\ s.block = block /\ s.chunk_counter = c
      /\ s.flags = flags /\ s.blocks_compressed = k /\ Hasher!Ref!StartFlag(s) = start
  BY <1>2 DEF Hasher!Ref!StartFlag, ARefChunk
<1>6. Hasher!Ref!BLOCK_LEN = 2
  BY DEF Hasher!Ref!BLOCK_LEN, Hasher!Ref!OUT_LEN
<1>7. CASE b # 2
  BY <1>4, <1>5, <1>6, <1>7, Zenon DEF Hasher!Ref!FlushBlock, s
<1>8. CASE b = 2
  <2> HIDE DEF start
  <2> DEFINE x == Hasher!Ref!Compress(s.chaining_value, s.block, Hasher!Ref!BLOCK_LEN, s.chunk_counter,
                                  s.flags \cup Hasher!Ref!StartFlag(s))
  <2>1. Hasher!Ref!FlushBlock(s) = WithRefBlock(s, x, s.blocks_compressed + 1)
    <3>1. Len(s.block) = Hasher!Ref!BLOCK_LEN
      BY <1>4, <1>5, <1>6, <1>8
    <3>2. Hasher!Ref!FlushBlock(s)
            = [s EXCEPT !.chaining_value =
                   Hasher!Ref!Compress(@, s.block, Hasher!Ref!BLOCK_LEN, s.chunk_counter,
                                       s.flags \cup Hasher!Ref!StartFlag(s)),
                 !.blocks_compressed = @ + 1,
                 !.block = <<>>]
      BY <3>1, Zenon DEF Hasher!Ref!FlushBlock
    <3> QED
      BY <3>2, Zenon DEF WithRefBlock
  <2>2. x = cv[k + 1]
    BY <1>1, <1>5, <1>6, <1>8 DEF Hasher!Compress, Hasher!Ref!Compress
  <2> HIDE DEF x
  <2>3. WithRefBlock(s, x, k + 1) = ARefChunk(cv[k + 1], c, <<>>, k + 1, flags)
    BY <1>2, <2>2, RefBlockAdded
  <2> QED
    BY <1>2, <1>3, <1>5, <1>8, <2>1, <2>3 DEF s, t
<1> QED
  BY <1>7, <1>8

\* A turn of its update takes some of the input.
FillsBlock(key, flags, u, c, n, m, x) ==
  /\ x \in 1 .. m
  /\ Hasher!Ref!FillBlock(RefChunkOf(key, flags, u, c, n), Cut(u, c * CHUNK_LEN + n, m))
       = [chunk |-> RefChunkOf(key, flags, u, c, n + x),
          input |-> Cut(u, c * CHUNK_LEN + n + x, m - x)]

\* It takes what the block has room for, at least one unit.
LEMMA BlockFills ==
  ASSUME NEW key, NEW flags, NEW u \in Units, NEW c \in Nat,
         CHUNK_LEN \in Nat, Hasher!BLOCK_LEN = 2, NEW n \in Nat, NEW m \in Nat, m # 0
  PROVE  \E x \in Nat : FillsBlock(key, flags, u, c, n, m, x)
<1> DEFINE hold(i, j) == RefHolding(key, flags, u, c, i, j)
           k == Blocks(n)
           b == n - 2 * k
           at == c * CHUNK_LEN
           s == RefChunkOf(key, flags, u, c, n)
           input == Cut(u, at + n, m)
           t == Hasher!Ref!FlushBlock(s)
           k1 == IF b = 2 THEN k + 1 ELSE k
           b1 == IF b = 2 THEN 0 ELSE b
           x == IF 2 - b1 < m THEN 2 - b1 ELSE m
<1>1. k \in Nat /\ b \in 0 .. 2 /\ n = 2 * k + b /\ (b = 0 => n = 0 /\ k = 0)
  <2>1. Blocks(n) \in Nat /\ n - 2 * Blocks(n) \in 0 .. 2
        /\ (n - 2 * Blocks(n) = 0 => n = 0 /\ Blocks(n) = 0)
    BY BlocksAre
  <2> QED
    BY <2>1
<1>2. at \in Nat
  OBVIOUS
<1>3. s = hold(k, b)
  BY DEF RefChunkOf
<1> HIDE DEF k, at, s, b
<1>4. t = hold(k1, b1)
  <2> HIDE DEF s, t
  <2>1. Hasher!Ref!FlushBlock(hold(k, b)) = IF b = 2 THEN hold(k + 1, 0) ELSE hold(k, b)
    BY <1>1, BlockFlushed
  <2> HIDE DEF hold
  <2> QED
    BY <1>3, <2>1 DEF t
<1>5. /\ k1 \in Nat /\ b1 \in 0 .. 1 /\ n = 2 * k1 + b1 /\ x \in 1 .. m /\ b1 + x \in 1 .. 2
  BY <1>1
<1>6. Blocks(n + x) = k1 /\ (n + x) - 2 * k1 = b1 + x
  <2> HIDE DEF k1, b1, x
  <2>1. n + x - 1 = 2 * k1 + (b1 + x - 1) /\ b1 + x - 1 \in 0 .. 1 /\ n + x # 0
    BY <1>5
  <2>2. (n + x - 1) \div 2 = k1
    BY <1>5, <2>1
  <2> QED
    BY <1>5, <2>1, <2>2 DEF Blocks
<1> HIDE DEF t, k1, b1
<1>7. t.block = Cut(u, at + 2 * k1, b1) /\ Len(t.block) = b1
  <2>1. t.block = Cut(u, at + 2 * k1, b1)
    BY <1>4 DEF RefHolding, ARefChunk, at
  <2>2. at + 2 * k1 \in Nat /\ b1 \in Nat
    BY <1>2, <1>5
  <2>3. IsCut(u, at + 2 * k1, b1, Cut(u, at + 2 * k1, b1))
    BY <2>2, CutIs
  <2> QED
    BY <2>1, <2>3 DEF IsCut
<1>8. Len(input) = m
  <2>1. at + n \in Nat
    BY <1>2
  <2>2. IsCut(u, at + n, m, input)
    BY <2>1, CutIs
  <2> HIDE DEF input
  <2> QED
    BY <2>2 DEF IsCut
<1>9. Hasher!Ref!Shorter(Hasher!Ref!BLOCK_LEN - Len(t.block), Len(input)) = x
  <2> HIDE DEF input
  <2> QED
    BY <1>7, <1>8 DEF Hasher!Ref!Shorter, Hasher!Ref!BLOCK_LEN, Hasher!Ref!OUT_LEN
<1> HIDE DEF x
<1>10. /\ Hasher!Ref!Taken(input, x) = Cut(u, at + n, x)
       /\ Hasher!Ref!Dropped(input, x) = Cut(u, at + n + x, m - x)
  <2>1. SplitIs(u, at + n, m, x)
    <3>1. at + n \in Nat /\ x \in 0 .. m
      BY <1>2, <1>5
    <3> QED
      BY <3>1, CutSplit
  <2> QED
    BY <2>1 DEF SplitIs, Hasher!Taken, Hasher!Dropped, Hasher!Ref!Taken, Hasher!Ref!Dropped
<1>11. Cut(u, at + 2 * k1, b1) \o Cut(u, at + n, x) = Cut(u, at + 2 * k1, b1 + x)
  <2>1. JoinIs(u, at + 2 * k1, b1, x)
    <3>1. at + 2 * k1 \in Nat /\ b1 \in Nat /\ x \in Nat
      BY <1>2, <1>5
    <3> QED
      BY <3>1, CutJoined
  <2>2. (at + 2 * k1) + b1 = at + n
    BY <1>2, <1>5
  <2> QED
    BY <2>1, <2>2 DEF JoinIs
<1>12. [t EXCEPT !.block = Cut(u, at + 2 * k1, b1 + x)] = RefChunkOf(key, flags, u, c, n + x)
  <2>1. RefChunkOf(key, flags, u, c, n + x) = hold(k1, b1 + x)
    BY <1>6 DEF RefChunkOf
  <2>2. [hold(k1, b1) EXCEPT !.block = Cut(u, at + 2 * k1, b1 + x)] = hold(k1, b1 + x)
    BY DEF RefHolding, ARefChunk, at
  <2> HIDE DEF hold
  <2> QED
    BY <1>4, <2>1, <2>2
<1> HIDE DEF input
<1>13. Hasher!Ref!FillBlock(s, input)
         = [chunk |-> RefChunkOf(key, flags, u, c, n + x), input |-> Cut(u, at + n + x, m - x)]
  <2>1. Hasher!Ref!FillBlock(s, input)
          = [chunk |-> [t EXCEPT !.block = @ \o Hasher!Ref!Taken(input, x)],
             input |-> Hasher!Ref!Dropped(input, x)]
    BY <1>9, Zenon DEF Hasher!Ref!FillBlock, t
  <2>2. [t EXCEPT !.block = @ \o Hasher!Ref!Taken(input, x)]
          = [t EXCEPT !.block = Cut(u, at + 2 * k1, b1 + x)]
    BY <1>7, <1>10, <1>11, Zenon
  <2> QED
    BY <1>10, <1>12, <2>1, <2>2, Zenon
<1>14. FillsBlock(key, flags, u, c, n, m, x)
  BY <1>5, <1>13 DEF FillsBlock, s, input, at
<1> QED
  BY <1>5, <1>14

\* An update of a chunk of the reference implementation
RefUpdatesChunk(key, flags, u, c, n, m) ==
  Hasher!Ref!UpdateChunk(RefChunkOf(key, flags, u, c, n), Cut(u, c * CHUNK_LEN + n, m))
    = RefChunkOf(key, flags, u, c, n + m)

\* The reference's ChunkState adds what it is given, in turns of a block at most.
LEMMA RefChunkUpdated ==
  ASSUME NEW key, NEW flags, NEW u \in Units, NEW c \in Nat,
         CHUNK_LEN \in Nat, Hasher!BLOCK_LEN = 2, NEW n \in Nat, NEW m \in Nat
  PROVE  RefUpdatesChunk(key, flags, u, c, n, m)
<1> DEFINE at == c * CHUNK_LEN
           St(x) == [chunk |-> RefChunkOf(key, flags, u, c, n + x), input |-> Cut(u, at + n + x, m - x)]
           Takes(x, y) == y \in x + 1 .. m /\ Hasher!Ref!FillBlock(St(x).chunk, St(x).input) = St(y)
           next == [x \in 0 .. m |-> IF x = m THEN m ELSE CHOOSE y \in 0 .. m : Takes(x, y)]
           s == RefChunkOf(key, flags, u, c, n)
           input == Cut(u, at + n, m)
           Body(t) == IF t.input = <<>> THEN t ELSE Hasher!Ref!FillBlock(t.chunk, t.input)
           F(f) == [i \in 0 .. Len(input) |->
                      IF i = 0 THEN [chunk |-> s, input |-> input] ELSE Body(f[i - 1])]
           turn == CHOOSE f : f = F(f)
<1>0. at \in Nat
  OBVIOUS
<1>1. ASSUME NEW x \in 0 .. m PROVE Len(St(x).input) = m - x /\ (St(x).input = <<>> <=> x = m)
  <2> DEFINE t == Cut(u, at + n + x, m - x)
  <2>1. at + n + x \in Nat /\ m - x \in Nat
    BY <1>0
  <2>2. IsCut(u, at + n + x, m - x, t)
    BY <2>1, CutIs
  <2> HIDE DEF t
  <2>3. Len(t) = m - x /\ (t = <<>> <=> x = m)
    BY <2>1, <2>2 DEF IsCut
  <2> QED
    BY <2>3 DEF t
<1>2. ASSUME NEW x \in 0 .. m, x # m PROVE \E y \in 0 .. m : Takes(x, y)
  <2> DEFINE n1 == n + x
             m1 == m - x
  <2>1. n1 \in Nat /\ m1 \in Nat /\ m1 # 0
    BY <1>2
  <2>2. PICK z \in Nat : FillsBlock(key, flags, u, c, n1, m1, z)
    <3> HIDE DEF n1, m1
    <3> QED
      BY <2>1, BlockFills, Zenon
  <2>3. z \in 1 .. m1
    BY <2>2 DEF FillsBlock
  <2> DEFINE y == x + z
  <2>4. y \in x + 1 .. m /\ y \in 0 .. m /\ n1 + z = n + y /\ m1 - z = m - y
        /\ at + n1 = at + n + x /\ at + n1 + z = at + n + y
    BY <1>0, <2>3
  <2>5. Hasher!Ref!FillBlock(RefChunkOf(key, flags, u, c, n1), Cut(u, at + n1, m1))
          = [chunk |-> RefChunkOf(key, flags, u, c, n1 + z), input |-> Cut(u, at + n1 + z, m1 - z)]
    BY <2>2 DEF FillsBlock
  <2> HIDE DEF y, at
  <2>6. Hasher!Ref!FillBlock(RefChunkOf(key, flags, u, c, n + x), Cut(u, at + n + x, m - x)) = St(y)
    BY <2>4, <2>5
  <2> QED
    BY <2>4, <2>6
<1>3. \A x \in 0 .. m : next[x] = IF x = m THEN m ELSE CHOOSE y \in 0 .. m : Takes(x, y)
  OBVIOUS
<1>4. \A x \in 0 .. m : x # m => next[x] \in 0 .. m /\ Takes(x, next[x])
  <2> HIDE DEF Takes, next
  <2> QED
    BY <1>2, <1>3
<1>5. next \in [0 .. m -> 0 .. m] /\ next[m] = m /\ \A x \in 0 .. m : x # m => next[x] > x
  <2>1. next[m] = m
    BY <1>3
  <2>2. \A x \in 0 .. m : x # m => next[x] > x
    <3> HIDE DEF next, St
    <3> QED
      BY <1>4
  <2>3. next = [x \in 0 .. m |-> next[x]]
    OBVIOUS
  <2> HIDE DEF next, Takes
  <2>4. \A x \in 0 .. m : next[x] \in 0 .. m
    BY <1>4, <2>1
  <2> QED
    BY <2>1, <2>2, <2>3, <2>4
<1> HIDE DEF next
<1>6. PICK p : Advance(m, next, p)
  BY <1>5, Advances
<1> DEFINE g == [i \in 0 .. m |-> St(p[i])]
<1>7. p \in [0 .. m -> 0 .. m] /\ p[0] = 0 /\ p[m] = m /\ \A i \in 1 .. m : p[i] = next[p[i - 1]]
  BY <1>6 DEF Advance
<1>8. ASSUME NEW x \in 0 .. m PROVE Body(St(x)) = St(next[x])
  <2>1. CASE x = m
    <3>1. St(x).input = <<>> /\ next[x] = x
      BY <1>1, <1>5, <2>1
    <3> HIDE DEF St
    <3> QED
      BY <3>1
  <2>2. CASE x # m
    <3>1. St(x).input # <<>> /\ Takes(x, next[x])
      BY <1>1, <1>4, <2>2, Zenon
    <3> HIDE DEF St
    <3> QED
      BY <3>1
  <2> QED
    BY <2>1, <2>2
<1>9. Len(input) = m /\ St(0) = [chunk |-> s, input |-> input]
  <2>1. IsCut(u, at + n, m, input)
    <3>1. at + n \in Nat
      BY <1>0
    <3> QED
      BY <3>1, CutIs
  <2>2. Len(input) = m
    <3> HIDE DEF input
    <3> QED
      BY <2>1 DEF IsCut
  <2>3. n + 0 = n /\ at + n + 0 = at + n /\ m - 0 = m
    BY <1>0
  <2> HIDE DEF at
  <2> QED
    BY <2>2, <2>3
<1> HIDE DEF St, Body, s, input, at, Takes
<1>10. g = F(g)
  <2>1. ASSUME NEW i \in 0 .. m PROVE g[i] = IF i = 0 THEN St(0) ELSE Body(g[i - 1])
    <3>1. CASE i = 0
      BY <1>7, <3>1
    <3>2. CASE i # 0
      <4>1. i \in 1 .. m /\ i - 1 \in 0 .. m
        BY <3>2
      <4>2. g[i] = St(p[i]) /\ g[i - 1] = St(p[i - 1]) /\ p[i] = next[p[i - 1]] /\ p[i - 1] \in 0 .. m
        BY <1>7, <4>1, Zenon
      <4> QED
        BY <1>8, <3>2, <4>2
    <3> QED
      BY <3>1, <3>2
  <2>2. g = [i \in 0 .. m |-> g[i]]
    OBVIOUS
  <2> HIDE DEF g
  <2> QED
    BY <1>9, <2>1, <2>2, Zenon
<1>11. turn = F(turn)
  <2> HIDE DEF F, g
  <2> QED
    BY <1>10
<1> HIDE DEF turn
<1>12. \A i \in 0 .. m : turn[i] = IF i = 0 THEN St(0) ELSE Body(turn[i - 1])
  <2>1. \A i \in 0 .. Len(input) : turn[i] = F(turn)[i]
    BY <1>11, Zenon
  <2> QED
    BY <1>9, <2>1
<1>13. turn[m] = g[m]
  <2> DEFINE S == {i \in Nat : i <= m => turn[i] = g[i]}
  <2>0. \A i \in 0 .. m : g[i] = IF i = 0 THEN St(0) ELSE Body(g[i - 1])
    <3>1. \A i \in 0 .. Len(input) : g[i] = F(g)[i]
      <4> HIDE DEF g
      <4> QED
        BY <1>10, Zenon
    <3> HIDE DEF g
    <3> QED
      BY <1>9, <3>1
  <2> HIDE DEF g
  <2>1. 0 \in S
    BY <1>12, <2>0
  <2>2. ASSUME NEW i \in Nat, i \in S PROVE i + 1 \in S
    <3> SUFFICES ASSUME i + 1 <= m PROVE turn[i + 1] = g[i + 1]
      OBVIOUS
    <3> DEFINE j == i + 1
    <3>1. j \in 0 .. m /\ j # 0 /\ j - 1 = i /\ turn[i] = g[i]
      BY <2>2
    <3> HIDE DEF j
    <3>2. turn[j] = Body(turn[j - 1]) /\ g[j] = Body(g[j - 1])
      BY <1>12, <2>0, <3>1
    <3>3. turn[j] = g[j]
      BY <3>1, <3>2
    <3> QED
      BY <3>3 DEF j
  <2>3. \A i \in Nat : i \in S
    <3> HIDE DEF S
    <3> QED
      BY <2>1, <2>2, Induction
  <2>4. m \in S
    BY <2>3
  <2> QED
    BY <2>4
<1>14. turn[m] = St(m)
  <2>1. g[m] = St(p[m])
    OBVIOUS
  <2> HIDE DEF g
  <2> QED
    BY <1>7, <1>13, <2>1
<1>15. Hasher!Ref!UpdateChunk(s, input) = turn[Len(input)].chunk
  BY DEF Hasher!Ref!UpdateChunk, turn, Body
<1>16. Hasher!Ref!UpdateChunk(s, input) = RefChunkOf(key, flags, u, c, n + m)
  BY <1>9, <1>14, <1>15 DEF St
<1> QED
  BY <1>16 DEF s, input, at, RefUpdatesChunk

\* What is in the state of a chunk of the reference
RefChunkIs(key, flags, u, c, n, s) ==
  /\ s.chunk_counter = c
  /\ Hasher!Ref!ChunkSize(s) = n
  /\ Hasher!Ref!ChunkOutput(s) = LeafOut(key, flags, u, c, n)

\* Its size, and its node: that of the chunk of the incremental hasher.
LEMMA RefChunkOfIs ==
  ASSUME NEW key, NEW flags, NEW u \in Units, NEW c \in Nat,
         CHUNK_LEN \in Nat, Hasher!BLOCK_LEN = 2, NEW n \in Nat
  PROVE  RefChunkIs(key, flags, u, c, n, RefChunkOf(key, flags, u, c, n))
<1> DEFINE k == Blocks(n)
           b == n - 2 * k
           at == c * CHUNK_LEN + 2 * k
           block == Cut(u, at, b)
           s == RefChunkOf(key, flags, u, c, n)
           cv == BlockCv(key, flags, u, c)[k]
           start == IF k = 0 THEN {"CHUNK_START"} ELSE {}
<1>1. k \in Nat /\ b \in Nat /\ n = 2 * k + b
  <2>1. /\ Blocks(n) \in Nat /\ n - 2 * Blocks(n) \in 0 .. 2
    BY BlocksAre
  <2> QED
    BY <2>1
<1>2. s = ARefChunk(cv, c, block, k, flags)
  BY DEF RefChunkOf, RefHolding
<1>3. LeafOut(key, flags, u, c, n)
        = Hasher!Output(cv, Hasher!Padded(block), b, c, flags \cup start \cup {"CHUNK_END"})
  BY DEF LeafOut
<1> HIDE DEF k, cv, s
<1>4. at \in Nat
  <2>1. c * CHUNK_LEN \in Nat
    OBVIOUS
  <2> QED
    BY <1>1, <2>1
<1> HIDE DEF at, b
<1>5. Len(block) = b
  <2>1. IsCut(u, at, b, block)
    BY <1>1, <1>4, CutIs
  <2> HIDE DEF block
  <2> QED
    BY <2>1 DEF IsCut
<1> HIDE DEF block, start
<1>6. /\ s.chaining_value = cv /\ s.chunk_counter = c /\ s.block = block
      /\ s.blocks_compressed = k /\ s.flags = flags
  BY <1>2 DEF ARefChunk
<1>7. Hasher!Ref!StartFlag(s) = start
  BY <1>6 DEF Hasher!Ref!StartFlag, start
<1>8. Hasher!Ref!ChunkSize(s) = n
  BY <1>1, <1>5, <1>6 DEF Hasher!Ref!ChunkSize, Hasher!Ref!BLOCK_LEN, Hasher!Ref!OUT_LEN
<1>9. Hasher!Ref!ChunkOutput(s)
        = Hasher!Ref!Output(cv, Hasher!Ref!Padded(block), b, c, flags \cup start \cup {"CHUNK_END"})
  BY <1>5, <1>6, <1>7 DEF Hasher!Ref!ChunkOutput
<1>10. Hasher!Ref!Output(cv, Hasher!Ref!Padded(block), b, c, flags \cup start \cup {"CHUNK_END"})
         = Hasher!Output(cv, Hasher!Padded(block), b, c, flags \cup start \cup {"CHUNK_END"})
  <2>1. Hasher!Ref!Padded(block) = Hasher!Padded(block)
    BY DEF Hasher!Ref!Padded, Hasher!Padded, Hasher!Ref!BLOCK_LEN, Hasher!Ref!OUT_LEN,
           Hasher!BLOCK_LEN, Hasher!OUT_LEN
  <2> QED
    BY <2>1 DEF Hasher!Ref!Output, Hasher!Output
<1> QED
  BY <1>3, <1>6, <1>8, <1>9, <1>10 DEF s, RefChunkIs

\* A new one was given nothing.
LEMMA RefNewChunkIs ==
  ASSUME NEW key, NEW flags, NEW u \in Units, NEW c \in Nat, CHUNK_LEN \in Nat
  PROVE  Hasher!Ref!NewChunk(key, c, flags) = RefChunkOf(key, flags, u, c, 0)
<1> DEFINE at == c * CHUNK_LEN + 2 * 0
           cv == BlockCv(key, flags, u, c)
<1>1. at \in Nat
  OBVIOUS
<1>2. Cut(u, at, 0) = <<>>
  <2> HIDE DEF at
  <2>1. IsCut(u, at, 0, Cut(u, at, 0))
    BY <1>1, CutIs
  <2> QED
    BY <2>1 DEF IsCut
<1>3. cv[0] = key
  <2>1. Chained(key, flags, Vals(key, flags), u, c, cv)
    BY BlockCvIs
  <2> HIDE DEF cv
  <2> QED
    BY <2>1 DEF Chained
<1>4. Blocks(0) = 0 /\ 0 - 2 * 0 = 0
  BY DEF Blocks
<1>5. RefChunkOf(key, flags, u, c, 0) = ARefChunk(cv[0], c, Cut(u, at, 0), 0, flags)
  BY <1>4 DEF RefChunkOf, RefHolding
<1> HIDE DEF cv, at
<1> QED
  BY <1>2, <1>3, <1>5 DEF ARefChunk, Hasher!Ref!NewChunk

(***************************************************************************)
(* The value of a part of the input: the tree over its chunks.             *)
(***************************************************************************)
\* The whole chunks before the last chunk of len units, which may be whole too
Full(len) == IF len = 0 THEN 0 ELSE (len - 1) \div CHUNK_LEN

\* The units of the last chunk
LastOf(len) == len - Full(len) * CHUNK_LEN

\* An input is its whole chunks and its last one, which is empty only when all is.
LEMMA FullIs ==
  ASSUME CHUNK_LEN \in Nat \ {0}, NEW len \in Nat
  PROVE  /\ Full(len) \in Nat /\ LastOf(len) \in 0 .. CHUNK_LEN
         /\ len = Full(len) * CHUNK_LEN + LastOf(len)
         /\ LastOf(len) = 0 <=> len = 0
         /\ len <= CHUNK_LEN => Full(len) = 0 /\ LastOf(len) = len
<1>1. CASE len = 0
  BY <1>1 DEF Full, LastOf
<1>2. CASE len # 0
  <2> DEFINE a == len - 1
             q == a \div CHUNK_LEN
             r == a - q * CHUNK_LEN
  <2>1. a \in Nat /\ len = a + 1
    BY <1>2
  <2> HIDE DEF a
  <2>2. q \in Nat /\ r \in 0 .. CHUNK_LEN - 1
    BY <2>1, DivideIs, Zenon
  <2>3. a < CHUNK_LEN => q = 0
    BY <2>1
  <2>4. Full(len) = q
    BY <1>2 DEF Full, a
  <2> HIDE DEF q
  <2> DEFINE p == q * CHUNK_LEN
  <2>5. p \in Nat /\ (q = 0 => p = 0)
    BY <2>2
  <2> HIDE DEF p
  <2>6. a - p \in 0 .. CHUNK_LEN - 1
    BY <2>2 DEF p
  <2>7. LastOf(len) = len - p
    BY <2>4 DEF LastOf, p
  <2>8. Full(len) * CHUNK_LEN = p
    BY <2>4 DEF p
  <2> QED
    BY <2>1, <2>2, <2>3, <2>4, <2>5, <2>6, <2>7, <2>8
<1> QED
  BY <1>1, <1>2

\* They are the only ones.
LEMMA FullOnly ==
  ASSUME CHUNK_LEN \in Nat \ {0}, NEW t \in Nat, NEW x \in 1 .. CHUNK_LEN
  PROVE  Full(t * CHUNK_LEN + x) = t /\ LastOf(t * CHUNK_LEN + x) = x
<1> DEFINE p == t * CHUNK_LEN
           y == x - 1
<1>1. p \in Nat
  OBVIOUS
<1>2. y \in 0 .. CHUNK_LEN - 1
  OBVIOUS
<1>3. (p + y) \div CHUNK_LEN = t
  <2> HIDE DEF y
  <2> QED
    BY <1>2, DivideOnly
<1>4. p = t * CHUNK_LEN
  OBVIOUS
<1> HIDE DEF p
<1>5. p + x - 1 = p + y /\ p + x # 0
  BY <1>1
<1>6. Full(p + x) = t
  <2> HIDE DEF y
  <2>1. p + x - 1 = p + y /\ p + x # 0
    BY <1>5
  <2> DEFINE len == p + x
             m == p + y
  <2>2. len # 0 /\ len - 1 = m
    BY <1>1, <1>2 DEF y
  <2>3. m \div CHUNK_LEN = t
    BY <1>3
  <2> HIDE DEF len, m
  <2>4. Full(len) = (len - 1) \div CHUNK_LEN
    BY <2>2 DEF Full
  <2>5. Full(len) = t
    BY <2>2, <2>3, <2>4
  <2> QED
    BY <2>5 DEF len
<1>7. LastOf(p + x) = x
  BY <1>1, <1>4, <1>6 DEF LastOf
<1> QED
  BY <1>6, <1>7 DEF p

\* The values of the whole chunks from c on
Leaves(key, flags, u, c) == [i \in Nat |-> Leaf(key, flags, u, c + i, CHUNK_LEN)]

\* The value of the tree over the chunks of len units from chunk c on
Subtree(key, flags, u, c, len) ==
  Tree(Vals(key, flags), Merge(key, flags))[Full(len)][Leaves(key, flags, u, c)]
    [Leaf(key, flags, u, c + Full(len), LastOf(len))]

\* A row of values, also from a later chunk on
LEMMA LeavesAre ==
  ASSUME NEW key, NEW flags, NEW u \in Units, NEW c \in Nat,
         CHUNK_LEN \in Nat, Hasher!BLOCK_LEN = 2
  PROVE  /\ Leaves(key, flags, u, c) \in Row(Vals(key, flags))
         /\ \A k \in Nat : Shifted(Leaves(key, flags, u, c), k) = Leaves(key, flags, u, c + k)
<1> DEFINE leaf(i) == Leaf(key, flags, u, i, CHUNK_LEN)
<1>1. \A i \in Nat : leaf(i) \in Vals(key, flags)
  BY LeafIs
<1> HIDE DEF leaf
<1> DEFINE row(i) == [j \in Nat |-> leaf(i + j)]
<1>2. \A i \in Nat : Leaves(key, flags, u, i) = row(i)
  BY DEF Leaves, leaf
<1>3. ASSUME NEW k \in Nat PROVE Shifted(row(c), k) = row(c + k)
  <2>1. \A i \in Nat : row(c)[k + i] = leaf(c + (k + i)) /\ c + (k + i) = (c + k) + i
    OBVIOUS
  <2>2. \A i \in Nat : row(c)[k + i] = leaf((c + k) + i)
    BY <2>1
  <2> HIDE DEF row
  <2>3. [i \in Nat |-> row(c)[k + i]] = [i \in Nat |-> leaf((c + k) + i)]
    BY <2>2
  <2> QED
    BY <2>3 DEF Shifted, row
<1>4. row(c) \in Row(Vals(key, flags))
  <2>1. \A j \in Nat : leaf(c + j) \in Vals(key, flags)
    BY <1>1
  <2> QED
    BY <2>1 DEF Row
<1>5. ASSUME NEW k \in Nat
      PROVE  Shifted(Leaves(key, flags, u, c), k) = Leaves(key, flags, u, c + k)
  <2>1. c + k \in Nat
    OBVIOUS
  <2> HIDE DEF row
  <2> QED
    BY <1>2, <1>3, <2>1
<1> HIDE DEF row
<1> QED
  BY <1>2, <1>4, <1>5

\* What is waiting and the last leaf of t whole chunks and x units more
SubtreeOver(key, flags, u, c, t, x) ==
  /\ Subtree(key, flags, u, c, t * CHUNK_LEN + x) \in Vals(key, flags)
  /\ Subtree(key, flags, u, c, t * CHUNK_LEN + x)
       = Tree(Vals(key, flags), Merge(key, flags))[t][Leaves(key, flags, u, c)]
           [Leaf(key, flags, u, c + t, x)]

\* A part that ends with x units of its last chunk
LEMMA SubtreeIs ==
  ASSUME NEW key, NEW flags, NEW u \in Units, NEW c \in Nat,
         CHUNK_LEN \in Nat \ {0}, Hasher!BLOCK_LEN = 2, NEW t \in Nat, NEW x \in 1 .. CHUNK_LEN
  PROVE  SubtreeOver(key, flags, u, c, t, x)
<1> DEFINE V == Vals(key, flags)
           merge == Merge(key, flags)
           len == t * CHUNK_LEN + x
           row == Leaves(key, flags, u, c)
           last == Leaf(key, flags, u, c + t, x)
<1>1. merge \in [V -> [V -> V]]
  BY MergeIs, Zenon DEF Merges
<1>2. row \in Row(V)
  BY LeavesAre
<1>3. last \in V
  <2>1. x \in Nat /\ c + t \in Nat
    OBVIOUS
  <2> QED
    BY <2>1, LeafIs
<1>4. Full(len) = t /\ LastOf(len) = x
  BY FullOnly
<1> HIDE DEF len, V, merge, row, last
<1>5. Subtree(key, flags, u, c, len) = Tree(V, merge)[t][row][last]
  BY <1>4 DEF Subtree, V, merge, row, last
<1>6. Tree(V, merge)[t][row][last] \in V
  <2>1. ByPairs(V, merge, Tree(V, merge))
    BY <1>1, TreeGrows
  <2> QED
    BY <1>2, <1>3, <2>1 DEF ByPairs
<1> QED
  BY <1>5, <1>6 DEF SubtreeOver, V, merge, row, last, len

\* A part of one chunk at most
SubtreeOfLeaf(key, flags, u, c, x) ==
  Subtree(key, flags, u, c, x) = Leaf(key, flags, u, c, x)

\* A single chunk is its own tree.
LEMMA SubtreeLeaf ==
  ASSUME NEW key, NEW flags, NEW u \in Units, NEW c \in Nat,
         CHUNK_LEN \in Nat \ {0}, Hasher!BLOCK_LEN = 2, NEW x \in 0 .. CHUNK_LEN
  PROVE  SubtreeOfLeaf(key, flags, u, c, x)
<1> DEFINE V == Vals(key, flags)
           merge == Merge(key, flags)
           row == Leaves(key, flags, u, c)
           last == Leaf(key, flags, u, c, x)
<1>1. merge \in [V -> [V -> V]] /\ row \in Row(V) /\ last \in V
  <2>1. merge \in [V -> [V -> V]]
    BY MergeIs, Zenon DEF Merges
  <2>2. row \in Row(V)
    BY LeavesAre
  <2>3. last \in V
    BY LeafIs
  <2> QED
    BY <2>1, <2>2, <2>3
<1>2. Full(x) = 0 /\ LastOf(x) = x /\ c + 0 = c
  BY FullIs
<1> HIDE DEF V, merge, row, last
<1>3. Subtree(key, flags, u, c, x) = Tree(V, merge)[0][row][last]
  BY <1>2 DEF Subtree, V, merge, row, last
<1>4. Tree(V, merge)[0][row][last] = last
  <2>1. ByPairs(V, merge, Tree(V, merge))
    BY <1>1, TreeGrows
  <2> QED
    BY <1>1, <2>1 DEF ByPairs
<1> QED
  BY <1>3, <1>4 DEF last, SubtreeOfLeaf

\* The rows above the leaves hold the values of the complete subtrees.
UpIsSubtree(key, flags, u, c, h, q) ==
  Up(Vals(key, flags), Merge(key, flags))[h][Leaves(key, flags, u, c)][q]
    = Subtree(key, flags, u, c + q * 2 ^ h, Tall(h))

\* By induction on the height: a parent has the next two complete subtrees.
LEMMA UpIsSubtrees ==
  ASSUME NEW key, NEW flags, NEW u \in Units, NEW c \in Nat, Hasher!SizesAssumption,
         NEW h \in Nat, NEW q \in Nat
  PROVE  UpIsSubtree(key, flags, u, c, h, q)
<1> DEFINE V == Vals(key, flags)
           merge == Merge(key, flags)
           row == Leaves(key, flags, u, c)
           p == 2 ^ h
           d == c + q * p
           high == Leaves(key, flags, u, d)
           n == (0 + 1) * p - 1
           up == Up(V, merge)[h]
<1>1. CHUNK_LEN \in Nat \ {0} /\ Hasher!BLOCK_LEN = 2
  BY SizesAre
<1>2. p \in Nat \ {0} /\ Tall(h) = CHUNK_LEN * p
  BY TallIs
<1>3. merge \in [V -> [V -> V]]
  BY MergeIs, Zenon DEF Merges
<1> HIDE DEF p
<1>4. n = p - 1 /\ n \in Nat /\ q * p \in Nat /\ d \in Nat
  BY <1>2
<1>5. row \in Row(V) /\ high \in Row(V) /\ Shifted(row, q * p) = high
  <2>1. row \in Row(V) /\ \A k \in Nat : Shifted(row, k) = Leaves(key, flags, u, c + k)
    BY <1>1, LeavesAre
  <2> HIDE DEF d
  <2>2. high \in Row(V)
    BY <1>1, <1>4, LeavesAre
  <2> QED
    BY <1>4, <2>1, <2>2 DEF d
<1> HIDE DEF d, n, V, merge, row
<1>6. up[row][q] = up[high][0]
  <2>1. up[Shifted(row, q * p)] = Shifted(up[row], q)
    BY <1>3, <1>5, UpShifted DEF p
  <2>2. Shifted(up[row], q)[0] = up[row][q + 0]
    BY DEF Shifted
  <2>3. q + 0 = q
    OBVIOUS
  <2> QED
    BY <1>5, <2>1, <2>2, <2>3
<1>7. up[high][0] = Tree(V, merge)[n][high][high[n]]
  <2>1. Tree(V, merge)[0][up[high]][up[high][0]] = Tree(V, merge)[n][high][high[n]]
    <3>1. Raised(V, merge, h, 0, high)
      BY <1>3, <1>5, TreeRaised
    <3> QED
      BY <3>1 DEF Raised, n, p
  <2>2. up[high] \in Row(V)
    <3>1. UpByRows(V, merge, Up(V, merge))
      BY <1>3, UpAbove
    <3> QED
      BY <1>5, <3>1 DEF UpByRows
  <2>3. up[high][0] \in V
    BY <2>2 DEF Row
  <2>4. Tree(V, merge)[0][up[high]][up[high][0]] = up[high][0]
    <3>1. ByPairs(V, merge, Tree(V, merge))
      BY <1>3, TreeGrows
    <3> QED
      BY <2>2, <2>3, <3>1, Zenon DEF ByPairs
  <2> QED
    BY <2>1, <2>4
<1>8. high[n] = Leaf(key, flags, u, d + n, CHUNK_LEN)
  BY <1>4 DEF Leaves
<1>9. n * CHUNK_LEN + CHUNK_LEN = Tall(h)
  BY <1>1, <1>2, <1>4
<1>10. Subtree(key, flags, u, d, Tall(h)) = Tree(V, merge)[n][high][high[n]]
  <2>1. SubtreeOver(key, flags, u, d, n, CHUNK_LEN)
    BY <1>1, <1>4, SubtreeIs
  <2> HIDE DEF high
  <2> QED
    BY <1>8, <1>9, <2>1 DEF SubtreeOver, V, merge, high
<1> QED
  BY <1>6, <1>7, <1>10 DEF UpIsSubtree, V, merge, row, d, p

\* A part of 2^j chunks and more: its left child is over the 2^j.
SubtreeParent(key, flags, u, c, j, len) ==
  Subtree(key, flags, u, c, Tall(j) + len)
    = Merge(key, flags)[Subtree(key, flags, u, c, Tall(j))]
                       [Subtree(key, flags, u, c + 2 ^ j, len)]

\* A part's value has the two values of the split that left_subtree_len makes.
LEMMA SubtreeSplits ==
  ASSUME NEW key, NEW flags, NEW u \in Units, NEW c \in Nat, Hasher!SizesAssumption,
         NEW j \in Nat, NEW len \in 1 .. Tall(j)
  PROVE  SubtreeParent(key, flags, u, c, j, len)
<1> DEFINE V == Vals(key, flags)
           merge == Merge(key, flags)
           row == Leaves(key, flags, u, c)
           p == 2 ^ j
           d == c + p
           n == Full(len)
           x == LastOf(len)
           t == p + n
           last == Leaf(key, flags, u, c + t, x)
           tree == Tree(V, merge)
<1>1. CHUNK_LEN \in Nat \ {0} /\ Hasher!BLOCK_LEN = 2
  BY SizesAre
<1>2. p \in Nat \ {0} /\ Tall(j) = CHUNK_LEN * p /\ Tall(j) \in Nat
  BY TallIs
<1>3. len \in Nat /\ len >= 1 /\ len <= Tall(j)
  BY <1>2
<1>4. n \in Nat /\ x \in 1 .. CHUNK_LEN /\ len = n * CHUNK_LEN + x
  <2>1. n \in Nat /\ x \in 0 .. CHUNK_LEN /\ len = n * CHUNK_LEN + x /\ (x = 0 <=> len = 0)
    BY <1>1, <1>3, FullIs
  <2> QED
    BY <1>3, <2>1
<1> HIDE DEF n, x, p
<1>5. n < p
  <2>1. n * CHUNK_LEN < p * CHUNK_LEN
    <3> DEFINE a == n * CHUNK_LEN
               b == p * CHUNK_LEN
    <3>1. a \in Nat /\ b \in Nat /\ Tall(j) = b
      BY <1>1, <1>2, <1>4
    <3>2. len = a + x
      BY <1>4
    <3> HIDE DEF a, b
    <3>3. a < b
      BY <1>1, <1>3, <1>4, <3>1, <3>2
    <3> QED
      BY <3>3 DEF a, b
  <2> QED
    BY <1>1, <1>2, <1>4, <2>1
<1>6. t \in Nat /\ d \in Nat /\ c + t = d + n /\ t * CHUNK_LEN + x = Tall(j) + len
  BY <1>1, <1>2, <1>4
<1>7. merge \in [V -> [V -> V]] /\ row \in Row(V) /\ Shifted(row, p) = Leaves(key, flags, u, d)
  <2>1. merge \in [V -> [V -> V]]
    BY MergeIs, Zenon DEF Merges
  <2>2. row \in Row(V) /\ \A k \in Nat : Shifted(row, k) = Leaves(key, flags, u, c + k)
    BY <1>1, LeavesAre
  <2> QED
    BY <1>2, <2>1, <2>2
<1>8. Subtree(key, flags, u, c, Tall(j) + len) = tree[t][row][last]
  <2>1. SubtreeOver(key, flags, u, c, t, x)
    BY <1>1, <1>4, <1>6, SubtreeIs
  <2> QED
    BY <1>6, <2>1 DEF SubtreeOver
<1>9. Subtree(key, flags, u, d, len) = tree[n][Leaves(key, flags, u, d)][last]
  <2>1. SubtreeOver(key, flags, u, d, n, x)
    BY <1>1, <1>4, <1>6, SubtreeIs
  <2> QED
    BY <1>4, <1>6, <2>1 DEF SubtreeOver
<1>10. last \in V
  <2>1. x \in Nat /\ c + t \in Nat
    BY <1>4, <1>6
  <2> QED
    BY <1>1, <2>1, LeafIs
<1>11. Up(V, merge)[j][row][0] = Subtree(key, flags, u, c, Tall(j))
  <2>1. UpIsSubtree(key, flags, u, c, j, 0)
    BY UpIsSubtrees
  <2>2. c + 0 * 2 ^ j = c
    BY <1>2 DEF p
  <2> QED
    BY <2>1, <2>2 DEF UpIsSubtree
<1> HIDE DEF V, merge, row, last, d
<1>12. tree[t][row][last] = merge[Up(V, merge)[j][row][0]][tree[n][Shifted(row, p)][last]]
  <2>1. n < 2 ^ j
    BY <1>4, <1>5 DEF p
  <2>2. SplitsAt(V, merge, j, n, row, last)
    BY <1>4, <1>7, <1>10, <2>1, TreeSplits
  <2> QED
    BY <1>4, <1>5, <2>2 DEF SplitsAt, p
<1> QED
  BY <1>7, <1>8, <1>9, <1>11, <1>12 DEF SubtreeParent, V, merge, d, p

(***************************************************************************)
(* Lists of chaining values, and the tree over a list.                     *)
(***************************************************************************)
\* A function on 1 .. n is a sequence of n.
LEMMA FunIsSeq ==
  ASSUME NEW V, NEW n \in Nat, NEW f \in [1 .. n -> V]
  PROVE  f \in Seq(V) /\ Len(f) = n
OBVIOUS

\* Pairs, hashed at a time
PairsAre(key, flags, list, h) ==
  /\ h \in Seq(Vals(key, flags))
  /\ Len(h) = Len(list) \div 2
  /\ \A i \in 1 .. Len(list) \div 2 : h[i] = Merge(key, flags)[list[2 * i - 1]][list[2 * i]]

\* hash_many over pairs of chaining values gives their parents.
LEMMA PairsHashed ==
  ASSUME NEW key, NEW flags, NEW list \in Seq(Vals(key, flags)), Hasher!BLOCK_LEN = 2
  PROVE  PairsAre(key, flags, list,
           Hasher!HashMany(Hasher!ChunksExact(list, 2), key, 0, FALSE, flags \cup {"PARENT"}, {}, {}))
<1> DEFINE V == Vals(key, flags)
           merge == Merge(key, flags)
           m == Len(list) \div 2
           pairs == Hasher!ChunksExact(list, 2)
           one(x) == Hasher!Hash1(x, key, 0, flags \cup {"PARENT"}, {}, {})
           h == Hasher!HashMany(pairs, key, 0, FALSE, flags \cup {"PARENT"}, {}, {})
<1>1. m \in Nat
  OBVIOUS
<1>2. \A a, b \in V : one(<<a, b>>) = merge[a][b]
  <2> SUFFICES ASSUME NEW a \in V, NEW b \in V PROVE one(<<a, b>>) = merge[a][b]
    BY Zenon
  <2>1. PairIs(key, flags, a, b)
    BY PairHashed
  <2> QED
    BY <2>1 DEF PairIs
<1>3. merge \in [V -> [V -> V]]
  BY MergeIs, Zenon DEF Merges
<1> HIDE DEF merge, one
<1>4. ASSUME NEW i \in 1 .. m
      PROVE  /\ list[2 * i - 1] \in V /\ list[2 * i] \in V
             /\ Hasher!Piece(list, 2, i) = <<list[2 * i - 1], list[2 * i]>>
  <2> DEFINE a == 2 * i - 1
             b == 2 * i
             t == SubSeq(list, a, b)
  <2>1. a \in 1 .. Len(list) /\ b \in 1 .. Len(list) /\ (i - 1) * 2 + 1 = a /\ i * 2 = b
        /\ a + 1 = b /\ b - a + 1 = 2 /\ a + 1 - 1 = a /\ a + 2 - 1 = b
    OBVIOUS
  <2> HIDE DEF V
  <2> HIDE DEF a, b
  <2>2. t \in Seq(V) /\ Len(t) = 2 /\ t[1] = list[a] /\ t[2] = list[b]
    <3>1. a \in Nat /\ b \in Nat /\ 1 <= a /\ a <= b + 1 /\ b <= Len(list) /\ list \in Seq(V)
      BY <2>1 DEF V
    <3>2. /\ t \in Seq(V) /\ Len(t) = b - a + 1
          /\ \A j \in 1 .. b - a + 1 : t[j] = list[a + j - 1]
      BY <3>1, Part
    <3>3. 1 \in 1 .. b - a + 1 /\ 2 \in 1 .. b - a + 1
      BY <2>1
    <3> HIDE DEF t
    <3> QED
      BY <2>1, <3>2, <3>3
  <2> HIDE DEF t
  <2>3. t = <<list[a], list[b]>>
    BY <2>2
  <2>4. list[a] \in V /\ list[b] \in V
    BY <2>1 DEF V
  <2>5. Hasher!Piece(list, 2, i) = t
    BY <2>1 DEF Hasher!Piece, t
  <2> QED
    BY <2>3, <2>4, <2>5 DEF a, b
<1>5. pairs = [i \in 1 .. m |-> Hasher!Piece(list, 2, i)]
  BY DEF Hasher!ChunksExact
<1>6. Len(pairs) = m
  <2> DEFINE P == {Hasher!Piece(list, 2, i) : i \in 1 .. m}
  <2>1. pairs \in [1 .. m -> P]
    BY <1>5
  <2> HIDE DEF P, m, pairs
  <2> QED
    BY <1>1, <2>1, FunIsSeq
<1> HIDE DEF pairs, m, V
<1> DEFINE g == [i \in 1 .. m |-> merge[list[2 * i - 1]][list[2 * i]]]
<1>7. h = g
  <2>1. h = [i \in 1 .. m |-> Hasher!Hash1(pairs[i], key, 0 + (IF FALSE THEN i - 1 ELSE 0),
                                          flags \cup {"PARENT"}, {}, {})]
    BY <1>6 DEF Hasher!HashMany
  <2>2. ASSUME NEW i \in 1 .. m
        PROVE  Hasher!Hash1(pairs[i], key, 0 + (IF FALSE THEN i - 1 ELSE 0), flags \cup {"PARENT"}, {}, {})
                 = merge[list[2 * i - 1]][list[2 * i]]
    <3>1. 0 + (IF FALSE THEN i - 1 ELSE 0) = 0
      OBVIOUS
    <3> DEFINE a == list[2 * i - 1]
               b == list[2 * i]
    <3>2. pairs[i] = <<a, b>> /\ a \in V /\ b \in V
      BY <1>4, <1>5
    <3> HIDE DEF a, b
    <3>3. one(pairs[i]) = merge[a][b]
      BY <1>2, <3>2
    <3>4. Hasher!Hash1(pairs[i], key, 0 + (IF FALSE THEN i - 1 ELSE 0), flags \cup {"PARENT"}, {}, {})
            = one(pairs[i])
      BY <3>1 DEF one
    <3> QED
      BY <3>3, <3>4 DEF a, b
  <2> QED
    BY <2>1, <2>2, Zenon
<1>8. \A i \in 1 .. m : merge[list[2 * i - 1]][list[2 * i]] \in V
  BY <1>3, <1>4
<1>9. g \in [1 .. m -> V]
  BY <1>8
<1>10. \A i \in 1 .. m : g[i] = merge[list[2 * i - 1]][list[2 * i]]
  OBVIOUS
<1> HIDE DEF g, h
<1>11. g \in Seq(V) /\ Len(g) = m
  BY <1>1, <1>9, FunIsSeq
<1>12. PairsAre(key, flags, list, h)
  BY <1>7, <1>10, <1>11 DEF PairsAre, V, merge, m
<1> QED
  BY <1>12, Zenon DEF h, pairs

\* One row of parents for a list
ParentsAre(key, flags, list, v) ==
  LET parents == Hasher!CompressParentsParallel(list, key, flags)
  IN  /\ Listed(Vals(key, flags), Merge(key, flags), parents, v)
      /\ Len(parents) = (Len(list) + 1) \div 2

\* compress_parents_parallel: half as many values, of the same tree
LEMMA ParentsListed ==
  ASSUME NEW key, NEW flags, Hasher!BLOCK_LEN = 2, NEW list, NEW v,
         Listed(Vals(key, flags), Merge(key, flags), list, v),
         2 <= Len(list), Len(list) <= 2 * Hasher!MaxSimdDegreeOr2
  PROVE  ParentsAre(key, flags, list, v)
<1> DEFINE V == Vals(key, flags)
           merge == Merge(key, flags)
           m == Len(list) \div 2
           h == Hasher!HashMany(Hasher!ChunksExact(list, 2), key, 0, FALSE, flags \cup {"PARENT"}, {}, {})
           parents == Hasher!CompressParentsParallel(list, key, flags)
           tree == Tree(V, merge)
<1>1. PICK row : OnRow(V, merge, list, row, v)
  BY DEF Listed
<1>2. /\ list \in Seq(V) /\ row \in Row(V)
      /\ \A i \in 1 .. Len(list) : list[i] = row[i - 1]
      /\ v = tree[Len(list) - 1][row][row[Len(list) - 1]]
  BY <1>1 DEF OnRow
<1>3. merge \in [V -> [V -> V]]
  BY MergeIs, Zenon DEF Merges
<1>4. PairsAre(key, flags, list, h)
  BY <1>2, PairsHashed, Zenon
<1>5. parents = h \o Hasher!Remainder(list, 2)
  BY Zenon DEF Hasher!CompressParentsParallel, Hasher!Asserting
<1>6. /\ ByPairs(V, merge, tree) /\ Above(merge, row) \in Row(V)
      /\ \A i \in Nat : Above(merge, row)[i] = merge[row[2 * i]][row[2 * i + 1]]
  <2> HIDE DEF V, merge
  <2>1. row \in Row(V) /\ merge \in [V -> [V -> V]]
    BY <1>2, <1>3
  <2>2. ByPairs(V, merge, tree)
    BY <2>1, TreeGrows
  <2>3. /\ Above(merge, row) \in Row(V)
        /\ \A i \in Nat : Above(merge, row)[i] = merge[row[2 * i]][row[2 * i + 1]]
    <3>1. Above(merge, row) \in Row(V)
      BY <2>1, AboveIs
    <3>2. \A i \in Nat : Above(merge, row)[i] = merge[row[2 * i]][row[2 * i + 1]]
      BY DEF Above
    <3> QED
      BY <3>1, <3>2
  <2> QED
    BY <2>2, <2>3
<1> DEFINE up == Above(merge, row)
<1>7. h \in Seq(V) /\ Len(h) = m /\ \A i \in 1 .. m : h[i] = merge[list[2 * i - 1]][list[2 * i]]
  BY <1>4, Zenon DEF PairsAre
<1>8. m \in Nat /\ m >= 1 /\ (Len(list) = 2 * m \/ Len(list) = 2 * m + 1) /\ Len(list) \in Nat
  BY <1>2
<1> HIDE DEF V, merge, h, parents, tree, up, m
<1>9. \A i \in 1 .. m : h[i] = up[i - 1]
  <2> SUFFICES ASSUME NEW i \in 1 .. m PROVE h[i] = up[i - 1]
    OBVIOUS
  <2> DEFINE j == i - 1
  <2>1. j \in Nat /\ 2 * i - 1 \in 1 .. Len(list) /\ 2 * i \in 1 .. Len(list)
        /\ (2 * i - 1) - 1 = 2 * j /\ 2 * i - 1 = 2 * j + 1
    BY <1>8
  <2> HIDE DEF j
  <2>2. list[2 * i - 1] = row[2 * j] /\ list[2 * i] = row[2 * j + 1]
    BY <1>2, <2>1, Zenon
  <2>3. up[j] = merge[row[2 * j]][row[2 * j + 1]]
    BY <1>6, <2>1 DEF up
  <2>4. h[i] = merge[list[2 * i - 1]][list[2 * i]]
    BY <1>7, Zenon
  <2> QED
    BY <2>2, <2>3, <2>4 DEF j
<1>10. Hasher!Remainder(list, 2) = SubSeq(list, 2 * m + 1, Len(list))
  BY <1>8 DEF Hasher!Remainder, Hasher!Dropped, m
<1> DEFINE n == Len(list)
<1>11. CASE n = 2 * m
  <2> DEFINE j == m - 1
  <2>1. j \in Nat /\ n - 1 = 2 * j + 1 /\ m = j + 1 /\ (n + 1) \div 2 = m
    BY <1>8, <1>11
  <2>2. parents = h
    <3>1. SubSeq(list, 2 * m + 1, Len(list)) = <<>>
      BY <1>2, <1>8, <1>11
    <3>2. h \o <<>> = h
      BY <1>7
    <3> QED
      BY <1>5, <1>10, <3>1, <3>2, Zenon
  <2>3. v = tree[j][up][up[j]]
    <3> DEFINE last == row[2 * j + 1]
    <3>1. last \in V /\ row[2 * j] \in V
      BY <1>2, <2>1 DEF Row
    <3>2. v = tree[2 * j + 1][row][last]
      BY <1>2, <2>1
    <3>3. up[j] = merge[row[2 * j]][last]
      BY <1>6, <2>1, Zenon DEF up
    <3> HIDE DEF last, j
    <3>4. \A i \in Nat : tree[2 * i + 1][row][last] = tree[i][up][merge[row[2 * i]][last]]
      BY <1>2, <1>6, <3>1 DEF ByPairs, up
    <3> QED
      BY <2>1, <3>2, <3>3, <3>4, Zenon
  <2>4. Len(parents) - 1 = j /\ Len(parents) # 0 /\ Len(parents) = m
    BY <1>7, <1>8, <2>1, <2>2
  <2>5. OnRow(V, merge, parents, up, v)
    <3> HIDE DEF j
    <3>1. up \in Row(V)
      BY <1>6 DEF up
    <3> QED
      BY <1>7, <1>9, <2>2, <2>3, <2>4, <3>1 DEF OnRow, tree
  <2>6. Listed(V, merge, parents, v)
    BY <2>5 DEF Listed
  <2> QED
    BY <2>1, <2>4, <2>6 DEF ParentsAre, V, merge, parents
<1>12. CASE n = 2 * m + 1
  <2> DEFINE last == row[2 * m]
             w == Changed(up, m, last)
             rest == SubSeq(list, 2 * m + 1, Len(list))
  <2>1. last \in V /\ n - 1 = 2 * m /\ (n + 1) \div 2 = m + 1 /\ list[n] = last /\ n \in 1 .. Len(list)
        /\ list[n] \in V
    BY <1>2, <1>8, <1>12 DEF Row
  <2>2. v = tree[m][up][last]
    <3>1. v = tree[2 * m][row][last]
      BY <1>2, <2>1
    <3> HIDE DEF last
    <3>2. \A i \in Nat : tree[2 * i][row][last] = tree[i][up][last]
      BY <1>2, <1>6, <2>1 DEF ByPairs, up
    <3> QED
      BY <1>8, <3>1, <3>2
  <2>3. up \in Row(V)
    BY <1>6 DEF up
  <2>4. ChangedIs(V, merge, up, m, last)
    <3> HIDE DEF last
    <3> QED
      BY <1>3, <1>8, <2>1, <2>3, LastChanged
  <2>5. rest \in Seq(V) /\ Len(rest) = 1 /\ rest[1] = last
    <3> DEFINE a == 2 * m + 1
    <3>1. a \in Nat /\ n \in Nat /\ 1 <= a /\ a <= n + 1 /\ n <= Len(list) /\ n - a + 1 = 1
          /\ a + 1 - 1 = n /\ 1 \in 1 .. n - a + 1
      BY <1>8, <1>12
    <3> HIDE DEF a, last
    <3>2. SubSeq(list, a, n) \in Seq(V) /\ Len(SubSeq(list, a, n)) = n - a + 1
          /\ \A i \in 1 .. n - a + 1 : SubSeq(list, a, n)[i] = list[a + i - 1]
      BY <1>2, <3>1, Part
    <3> DEFINE r == SubSeq(list, a, n)
    <3>3. rest = r
      BY DEF a
    <3> HIDE DEF r, rest, n
    <3>4. r[1] = list[a + 1 - 1]
      BY <3>1, <3>2 DEF r
    <3> QED
      BY <2>1, <3>1, <3>2, <3>3, <3>4 DEF r
  <2> HIDE DEF rest, last, w, n
  <2>6. /\ parents \in Seq(V) /\ Len(parents) = m + 1
        /\ \A i \in 1 .. m : parents[i] = h[i]
        /\ parents[m + 1] = last
    <3>1. Joins(V, h, rest)
      BY <1>7, <2>5, SeqsJoin
    <3>2. parents = h \o rest
      BY <1>5, <1>10, Zenon DEF rest
    <3>3. 1 \in 1 .. Len(rest) /\ 1 + m = m + 1
      BY <1>8, <2>5
    <3>4. parents[1 + Len(h)] = rest[1]
      BY <3>1, <3>2, <3>3 DEF Joins
    <3> QED
      BY <1>7, <2>5, <3>1, <3>2, <3>3, <3>4 DEF Joins
  <2>7. ASSUME NEW i \in 1 .. m + 1 PROVE parents[i] = w[i - 1]
    <3>1. CASE i = m + 1
      <4>1. w[m] = last
        BY <2>4 DEF ChangedIs, w
      <4>2. i - 1 = m
        BY <1>8, <3>1
      <4> QED
        BY <2>6, <3>1, <4>1, <4>2
    <3>2. CASE i # m + 1
      <4> DEFINE j == i - 1
      <4>1. j \in Nat /\ j # m /\ i \in 1 .. m
        BY <1>8, <3>2
      <4>2. w[j] = up[j]
        <5> HIDE DEF j
        <5> QED
          BY <2>4, <4>1 DEF ChangedIs, w
      <4>3. h[i] = up[j]
        BY <1>9, <4>1
      <4> QED
        BY <2>6, <4>1, <4>2, <4>3
    <3> QED
      BY <3>1, <3>2
  <2>8. OnRow(V, merge, parents, w, v)
    <3>1. w \in Row(V) /\ w[m] = last /\ tree[m][w][last] = tree[m][up][last]
      BY <2>4 DEF ChangedIs, w, tree
    <3>2. Len(parents) - 1 = m /\ Len(parents) # 0
      BY <1>8, <2>6
    <3>3. v = tree[Len(parents) - 1][w][w[Len(parents) - 1]]
      BY <2>2, <3>1, <3>2
    <3>4. \A i \in 1 .. Len(parents) : parents[i] = w[i - 1]
      BY <2>6, <2>7
    <3> QED
      BY <2>6, <3>1, <3>2, <3>3, <3>4 DEF OnRow, tree
  <2>9. Listed(V, merge, parents, v)
    BY <2>8 DEF Listed
  <2>10. Len(parents) = (Len(list) + 1) \div 2
    BY <2>1, <2>6 DEF n
  <2> QED
    BY <2>9, <2>10 DEF ParentsAre, V, merge, parents
<1> QED
  BY <1>8, <1>11, <1>12

\* The chaining values of the chunks of an input, hashed at a time
LeavesOf(key, flags, u, c, len, list) ==
  /\ list \in Seq(Vals(key, flags))
  /\ Len(list) = Full(len) + 1
  /\ \A i \in 1 .. Full(len) : list[i] = Leaf(key, flags, u, c + (i - 1), CHUNK_LEN)
  /\ list[Full(len) + 1] = Leaf(key, flags, u, c + Full(len), LastOf(len))

\* The whole chunks
WholeOf(key, flags, u, c, w, h) ==
  /\ h \in Seq(Vals(key, flags))
  /\ Len(h) = w
  /\ \A i \in 1 .. w : h[i] = Leaf(key, flags, u, c + (i - 1), CHUNK_LEN)

\* hash_many over the whole chunks gives their values.
LEMMA WholeHashed ==
  ASSUME NEW key, NEW flags, NEW u \in Units, NEW c \in Nat, Hasher!SizesAssumption, NEW len \in Nat
  PROVE  LET whole == Hasher!ChunksExact(Cut(u, c * CHUNK_LEN, len), CHUNK_LEN)
         IN  /\ Len(whole) = len \div CHUNK_LEN
             /\ WholeOf(key, flags, u, c, len \div CHUNK_LEN,
                  Hasher!HashMany(whole, key, c, TRUE, flags, {"CHUNK_START"}, {"CHUNK_END"}))
<1> DEFINE V == Vals(key, flags)
           at == c * CHUNK_LEN
           input == Cut(u, at, len)
           w == len \div CHUNK_LEN
           whole == Hasher!ChunksExact(input, CHUNK_LEN)
           leaf(i) == Leaf(key, flags, u, c + (i - 1), CHUNK_LEN)
           one(x, i) == Hasher!Hash1(x, key, c + (IF TRUE THEN i - 1 ELSE 0), flags,
                                     {"CHUNK_START"}, {"CHUNK_END"})
           h == Hasher!HashMany(whole, key, c, TRUE, flags, {"CHUNK_START"}, {"CHUNK_END"})
           piece(i) == Hasher!Piece(input, CHUNK_LEN, i)
<1>1. CHUNK_LEN \in Nat \ {0} /\ Hasher!BLOCK_LEN = 2
  BY SizesAre
<1>2. at \in Nat /\ w \in Nat /\ w * CHUNK_LEN <= len
  <2>1. w \in Nat /\ len - w * CHUNK_LEN \in 0 .. CHUNK_LEN - 1
    BY <1>1, DivideIs, Zenon
  <2> DEFINE p == w * CHUNK_LEN
  <2>2. p \in Nat
    BY <1>1, <2>1
  <2> HIDE DEF p
  <2>3. p <= len
    <3>1. len - p \in 0 .. CHUNK_LEN - 1
      BY <2>1 DEF p
    <3> QED
      BY <1>1, <2>2, <3>1
  <2>4. at \in Nat
    BY <1>1
  <2> QED
    BY <2>1, <2>3, <2>4 DEF p
<1>3. Len(input) = len
  <2> HIDE DEF at
  <2>1. IsCut(u, at, len, input)
    BY <1>2, CutIs
  <2> HIDE DEF input
  <2> QED
    BY <2>1 DEF IsCut
<1>4. ASSUME NEW i \in 1 .. w PROVE piece(i) = Cut(u, (c + (i - 1)) * CHUNK_LEN, CHUNK_LEN)
  <2> DEFINE j == i - 1
  <2>1. j \in Nat /\ i = j + 1 /\ i <= w
    BY <1>2
  <2> HIDE DEF j, w
  <2>2. (j + 1) * CHUNK_LEN <= len
    <3>1. (j + 1) * CHUNK_LEN <= w * CHUNK_LEN
      BY <1>1, <1>2, <2>1
    <3> DEFINE a == (j + 1) * CHUNK_LEN
               b == w * CHUNK_LEN
    <3>2. a \in Nat /\ b \in Nat /\ a <= b /\ b <= len
      BY <1>1, <1>2, <2>1, <3>1
    <3> HIDE DEF a, b
    <3>3. a <= len
      BY <3>2
    <3> QED
      BY <3>3 DEF a
  <2>3. PieceIs(u, at, len, CHUNK_LEN, j)
    BY <1>1, <1>2, <2>1, <2>2, CutPiece
  <2>4. at + j * CHUNK_LEN = (c + j) * CHUNK_LEN
    BY <1>1, <2>1
  <2>5. Hasher!Piece(input, CHUNK_LEN, j + 1) = Cut(u, at + j * CHUNK_LEN, CHUNK_LEN)
    BY <2>3 DEF PieceIs
  <2> HIDE DEF input
  <2> QED
    BY <2>1, <2>4, <2>5 DEF j
<1>5. whole = [i \in 1 .. w |-> piece(i)]
  BY <1>3 DEF Hasher!ChunksExact
<1>6. Len(whole) = w
  <2> DEFINE P == {piece(i) : i \in 1 .. w}
  <2>1. whole \in [1 .. w -> P]
    BY <1>5
  <2> HIDE DEF P, w, whole
  <2> QED
    BY <1>2, <2>1, FunIsSeq
<1>7. ASSUME NEW i \in 1 .. w PROVE one(piece(i), i) = leaf(i) /\ leaf(i) \in V
  <2> DEFINE d == c + (i - 1)
  <2>1. d \in Nat
    BY <1>2
  <2>2. piece(i) = Cut(u, d * CHUNK_LEN, CHUNK_LEN)
    BY <1>4
  <2> HIDE DEF d
  <2>3. HashIsLeaf(key, flags, u, d)
    BY <2>1, ChunkHashed
  <2>4. Leaf(key, flags, u, d, CHUNK_LEN) \in V
    BY <1>1, <2>1, LeafIs
  <2> QED
    BY <2>2, <2>3, <2>4 DEF HashIsLeaf, d
<1>8. h = [i \in 1 .. w |-> leaf(i)]
  <2>1. h = [i \in 1 .. w |-> one(whole[i], i)]
    <3> HIDE DEF whole, w
    <3> QED
      BY <1>6 DEF Hasher!HashMany
  <2>2. \A i \in 1 .. w : one(whole[i], i) = leaf(i)
    <3>1. \A i \in 1 .. w : whole[i] = piece(i)
      <4> HIDE DEF whole, w, piece
      <4> QED
        BY <1>5
    <3> HIDE DEF whole, one, leaf, w, piece
    <3> QED
      BY <1>7, <3>1
  <2> HIDE DEF whole, one, leaf, h, w
  <2> QED
    BY <2>1, <2>2
<1> HIDE DEF leaf, w, V, h
<1>9. h \in Seq(V) /\ Len(h) = w /\ \A i \in 1 .. w : h[i] = leaf(i)
  <2> DEFINE g == [i \in 1 .. w |-> leaf(i)]
  <2>1. g \in [1 .. w -> V] /\ \A i \in 1 .. w : g[i] = leaf(i)
    BY <1>7
  <2> HIDE DEF g
  <2>2. g \in Seq(V) /\ Len(g) = w
    BY <1>2, <2>1, FunIsSeq
  <2>3. h = g
    BY <1>8 DEF g
  <2> QED
    BY <2>1, <2>2, <2>3
<1>10. WholeOf(key, flags, u, c, w, h)
  BY <1>9 DEF WholeOf, V, leaf
<1> QED
  BY <1>6, <1>10, Zenon DEF h, w

\* compress_chunks_parallel gives the values of all chunks, the last one's too.
LEMMA LeavesHashed ==
  ASSUME NEW key, NEW flags, NEW degree, NEW u \in Units, NEW c \in Nat, Hasher!SizesAssumption,
         NEW len \in Nat, len # 0, MaxSimdDegree \in Nat, len <= MaxSimdDegree * CHUNK_LEN
  PROVE  LeavesOf(key, flags, u, c, len,
           Hasher!CompressChunksParallel(Cut(u, c * CHUNK_LEN, len), key, c, flags, degree))
<1> DEFINE V == Vals(key, flags)
           at == c * CHUNK_LEN
           input == Cut(u, at, len)
           w == len \div CHUNK_LEN
           whole == Hasher!ChunksExact(input, CHUNK_LEN)
           h == Hasher!HashMany(whole, key, c, TRUE, flags, {"CHUNK_START"}, {"CHUNK_END"})
           partial == Hasher!Remainder(input, CHUNK_LEN)
           state == Hasher!NewChunkState(key, Hasher!PartialCounter(c, whole), flags, degree)
           t == Full(len)
           x == LastOf(len)
           r == len - w * CHUNK_LEN
           list == Hasher!CompressChunksParallel(input, key, c, flags, degree)
           close == Hasher!ChainingValue(Hasher!ChunkOutput(Hasher!UpdateChunk(state, partial)))
           leaf(i, n) == Leaf(key, flags, u, i, n)
<1>1. CHUNK_LEN \in Nat \ {0} /\ Hasher!BLOCK_LEN = 2
  BY SizesAre
<1>2. at \in Nat /\ w \in Nat /\ r \in 0 .. CHUNK_LEN - 1
  <2>1. at \in Nat
    BY <1>1
  <2>2. w \in Nat /\ r \in 0 .. CHUNK_LEN - 1
    BY <1>1, DivideIs, Zenon
  <2> QED
    BY <2>1, <2>2
<1>3. t \in Nat /\ x \in 1 .. CHUNK_LEN /\ len = t * CHUNK_LEN + x
  <2>1. t \in Nat /\ x \in 0 .. CHUNK_LEN /\ len = t * CHUNK_LEN + x /\ (x = 0 <=> len = 0)
    BY <1>1, FullIs
  <2> HIDE DEF t, x
  <2> QED
    BY <2>1
<1> HIDE DEF t, x
<1>4. IF x = CHUNK_LEN THEN w = t + 1 /\ r = 0 ELSE w = t /\ r = x
  <2>1. CASE x = CHUNK_LEN
    <3>1. t + 1 \in Nat /\ 0 \in 0 .. CHUNK_LEN - 1 /\ len = (t + 1) * CHUNK_LEN + 0
      BY <1>1, <1>3, <2>1
    <3> DEFINE q == t + 1
    <3>2. (q * CHUNK_LEN + 0) \div CHUNK_LEN = q
      <4> HIDE DEF q
      <4> QED
        BY <1>1, <3>1, DivideOnly DEF q
    <3>3. w = q
      BY <3>1, <3>2
    <3> QED
      BY <1>1, <1>3, <2>1, <3>1, <3>3
  <2>2. CASE x # CHUNK_LEN
    <3>1. x \in 0 .. CHUNK_LEN - 1
      BY <1>1, <1>3, <2>2
    <3>2. (t * CHUNK_LEN + x) \div CHUNK_LEN = t
      BY <1>1, <1>3, <3>1, DivideOnly
    <3>3. w = t
      BY <1>3, <3>2
    <3>4. r = x
      <4> HIDE DEF w
      <4> DEFINE p == t * CHUNK_LEN
      <4>1. p \in Nat /\ len = p + x
        BY <1>1, <1>3
      <4>2. r = len - p
        BY <3>3
      <4> HIDE DEF p, r
      <4> QED
        BY <1>3, <4>1, <4>2
    <3> QED
      BY <2>2, <3>3, <3>4
  <2> QED
    BY <2>1, <2>2
<1>5. Len(input) = len /\ input # <<>>
  <2> HIDE DEF at
  <2>1. IsCut(u, at, len, input)
    BY <1>2, CutIs
  <2> HIDE DEF input
  <2> QED
    BY <2>1 DEF IsCut
<1>6. Len(whole) = w /\ WholeOf(key, flags, u, c, w, h)
  BY WholeHashed, Zenon
<1>7. partial = Cut(u, (c + w) * CHUNK_LEN + 0, r)
  <2> DEFINE p == w * CHUNK_LEN
  <2>1. partial = Hasher!Dropped(input, p)
    <3> HIDE DEF input
    <3> QED
      BY <1>5 DEF Hasher!Remainder
  <2>2. p \in 0 .. len
    <3>1. p \in Nat
      BY <1>1, <1>2
    <3>2. len - p \in 0 .. CHUNK_LEN - 1
      BY <1>2
    <3> HIDE DEF p
    <3> QED
      BY <1>1, <3>1, <3>2
  <2>3. at + p = (c + w) * CHUNK_LEN + 0
    <3> HIDE DEF w
    <3> QED
      BY <1>1, <1>2
  <2> HIDE DEF at
  <2>4. SplitIs(u, at, len, p)
    <3> HIDE DEF p
    <3> QED
      BY <1>2, <2>2, CutSplit
  <2>5. Hasher!Dropped(input, p) = Cut(u, at + p, len - p)
    BY <2>4 DEF SplitIs
  <2> QED
    BY <2>1, <2>3, <2>5
<1> HIDE DEF w
<1>8. partial = <<>> <=> r = 0
  <2>1. r \in Nat /\ (c + w) * CHUNK_LEN + 0 \in Nat
    BY <1>1, <1>2
  <2> DEFINE b == (c + w) * CHUNK_LEN + 0
  <2> HIDE DEF b, r
  <2>2. IsCut(u, b, r, Cut(u, b, r))
    BY <2>1, CutIs DEF b
  <2> QED
    BY <1>7, <2>2 DEF IsCut, b
<1>9. close = leaf(c + w, r)
  <2> DEFINE d == c + w
  <2>1. d \in Nat /\ r \in Nat /\ r <= CHUNK_LEN
    BY <1>1, <1>2
  <2>2. state = Hasher!NewChunkState(key, d, flags, degree)
    BY <1>6 DEF Hasher!PartialCounter
  <2> HIDE DEF d, r, state, partial
  <2>3. state = ChunkOf(key, flags, degree, u, d, 0)
    BY <1>1, <2>1, <2>2, NewChunkIs
  <2>4. UpdatesChunk(key, flags, degree, u, d, 0, r)
    BY <1>1, <2>1, ChunkUpdated
  <2>5. Hasher!UpdateChunk(state, partial) = ChunkOf(key, flags, degree, u, d, r)
    BY <1>7, <2>1, <2>3, <2>4 DEF UpdatesChunk, d
  <2>6. Hasher!ChunkOutput(ChunkOf(key, flags, degree, u, d, r)) = LeafOut(key, flags, u, d, r)
    BY <1>1, <2>1, LeafOutIs
  <2> QED
    BY <2>5, <2>6 DEF Leaf, d
<1>10. list = IF r = 0 THEN h ELSE Append(h, leaf(c + w, r))
  <2>1. list = Hasher!Asserting(input # <<>> /\ Len(input) <= MaxSimdDegree * CHUNK_LEN,
                                IF partial = <<>> THEN h ELSE Append(h, close))
    BY DEF Hasher!CompressChunksParallel
  <2> HIDE DEF input, partial, h, close, r, leaf, list
  <2> QED
    BY <1>5, <1>8, <1>9, <2>1 DEF Hasher!Asserting
<1>11. h \in Seq(V) /\ Len(h) = w /\ \A i \in 1 .. w : h[i] = leaf(c + (i - 1), CHUNK_LEN)
  BY <1>6, Zenon DEF WholeOf
<1>12. leaf(c + w, r) \in V
  <2>1. c + w \in Nat /\ r \in Nat
    BY <1>2
  <2> HIDE DEF r
  <2> QED
    BY <1>1, <2>1, LeafIs
<1> HIDE DEF h, list, leaf, V, r
<1>13. /\ list \in Seq(V) /\ Len(list) = t + 1
       /\ \A i \in 1 .. t : list[i] = leaf(c + (i - 1), CHUNK_LEN)
       /\ list[t + 1] = leaf(c + t, x)
  <2>1. CASE x = CHUNK_LEN
    <3>1. list = h /\ w = t + 1 /\ t + 1 \in 1 .. w /\ (t + 1) - 1 = t
      BY <1>3, <1>4, <1>10, <2>1
    <3>2. list[t + 1] = leaf(c + ((t + 1) - 1), CHUNK_LEN)
      BY <1>11, <3>1
    <3>3. \A i \in 1 .. t : i \in 1 .. w
      BY <1>3, <3>1
    <3> QED
      BY <1>11, <2>1, <3>1, <3>2, <3>3
  <2>2. CASE x # CHUNK_LEN
    <3>1. w = t /\ r = x /\ r # 0
      BY <1>3, <1>4, <2>2
    <3> DEFINE y == leaf(c + w, r)
    <3>2. list = Append(h, y)
      BY <1>10, <3>1
    <3>3. y \in V
      BY <1>12
    <3> HIDE DEF y
    <3>4. list \in Seq(V) /\ Len(list) = t + 1 /\ list[t + 1] = y /\ \A i \in 1 .. t : list[i] = h[i]
      BY <1>3, <1>11, <3>1, <3>2, <3>3
    <3> QED
      BY <1>11, <3>1, <3>4 DEF y
  <2> QED
    BY <2>1, <2>2
<1>14. LeavesOf(key, flags, u, c, len, list)
  BY <1>13 DEF LeavesOf, V, leaf, t, x
<1> QED
  BY <1>14 DEF list, input, at

\* The tree over them is the part's.
LEMMA LeavesListed ==
  ASSUME NEW key, NEW flags, NEW u \in Units, NEW c \in Nat, Hasher!SizesAssumption,
         NEW len \in Nat, len # 0, NEW list, LeavesOf(key, flags, u, c, len, list)
  PROVE  Listed(Vals(key, flags), Merge(key, flags), list, Subtree(key, flags, u, c, len))
<1> DEFINE V == Vals(key, flags)
           merge == Merge(key, flags)
           t == Full(len)
           last == Leaf(key, flags, u, c + t, LastOf(len))
           row == Leaves(key, flags, u, c)
           w == Changed(row, t, last)
           v == Subtree(key, flags, u, c, len)
<1>1. CHUNK_LEN \in Nat \ {0} /\ Hasher!BLOCK_LEN = 2
  BY SizesAre
<1>2. t \in Nat /\ LastOf(len) \in Nat
  <2>1. t \in Nat /\ LastOf(len) \in 0 .. CHUNK_LEN
    BY <1>1, FullIs
  <2> QED
    BY <1>1, <2>1
<1>3. merge \in [V -> [V -> V]]
  BY MergeIs, Zenon DEF Merges
<1>4. row \in Row(V)
  BY <1>1, LeavesAre
<1> HIDE DEF t
<1>5. last \in V
  <2>1. c + t \in Nat
    BY <1>2
  <2> QED
    BY <1>1, <1>2, <2>1, LeafIs
<1>6. v = Tree(V, merge)[t][row][last]
  BY DEF Subtree, t
<1>7. /\ list \in Seq(V) /\ Len(list) = t + 1
      /\ \A i \in 1 .. t : list[i] = Leaf(key, flags, u, c + (i - 1), CHUNK_LEN)
      /\ list[t + 1] = last
  BY DEF LeavesOf, t
<1>8. \A i \in Nat : row[i] = Leaf(key, flags, u, c + i, CHUNK_LEN)
  BY DEF Leaves
<1> HIDE DEF last, row, V, merge, w, v
<1>9. ChangedIs(V, merge, row, t, last)
  BY <1>2, <1>3, <1>4, <1>5, LastChanged
<1>10. /\ w \in Row(V) /\ w[t] = last /\ \A i \in Nat : i # t => w[i] = row[i]
       /\ Tree(V, merge)[t][w][last] = Tree(V, merge)[t][row][last]
  BY <1>9 DEF ChangedIs, w
<1>11. ASSUME NEW i \in 1 .. t + 1 PROVE list[i] = w[i - 1]
  <2>1. CASE i = t + 1
    <3>1. i - 1 = t
      BY <1>2, <2>1
    <3> QED
      BY <1>7, <1>10, <2>1, <3>1
  <2>2. CASE i # t + 1
    <3>1. i \in 1 .. t /\ i - 1 \in Nat /\ i - 1 # t
      BY <1>2, <2>2
    <3> QED
      BY <1>7, <1>8, <1>10, <3>1, Zenon
  <2> QED
    BY <2>1, <2>2
<1>12. Len(list) # 0 /\ Len(list) - 1 = t
  BY <1>2, <1>7
<1>13. OnRow(V, merge, list, w, v)
  <2>1. v = Tree(V, merge)[Len(list) - 1][w][w[Len(list) - 1]]
    BY <1>6, <1>10, <1>12
  <2>2. \A i \in 1 .. Len(list) : list[i] = w[i - 1]
    BY <1>7, <1>11
  <2> QED
    BY <1>7, <1>10, <1>12, <2>1, <2>2 DEF OnRow
<1> QED
  BY <1>13 DEF Listed, V, merge, v

\* The left part of more than a chunk: the longest complete subtree that
\* leaves something.
LeftIs(len, j) ==
  /\ Hasher!LeftSubtreeLen(len) = Tall(j) /\ Tall(j) \in Nat /\ Tall(j) >= CHUNK_LEN
  /\ Tall(j) < len /\ len <= 2 * Tall(j)

\* left_subtree_len gives such a part for any input that is longer than a chunk.
LEMMA LeftParts ==
  ASSUME Hasher!SizesAssumption, NEW len \in Nat, len > CHUNK_LEN
  PROVE  \E j \in Nat : LeftIs(len, j)
<1> DEFINE m == (len + 1) \div 2
<1>1. CHUNK_LEN \in Nat /\ CHUNK_LEN >= 2 /\ CHUNK_LEN = 2 * (CHUNK_LEN \div 2)
  BY SizesAre
<1>2. m \in Nat /\ (len = 2 * m \/ len + 1 = 2 * m)
  OBVIOUS
<1>3. CHUNK_LEN < 2 * m
  BY <1>1, <1>2
<1> HIDE DEF m
<1>4. PICK j \in Nat : m <= Tall(j) /\ Tall(j) < 2 * m
  BY <1>2, <1>3, TallAbove
<1>5. Tall(j) \in Nat /\ Tall(j) >= CHUNK_LEN
  BY TallIs, Zenon
<1>6. Hasher!NextPowerOfTwo[m] = Tall(j)
  BY <1>2, <1>4, NextPowerIsTall
<1>7. Hasher!LeftSubtreeLen(len) = Tall(j)
  BY <1>6 DEF Hasher!LeftSubtreeLen, Hasher!Asserting, m
<1>8. \E h \in Nat : Tall(j) = 2 * h
  <2> DEFINE half == CHUNK_LEN \div 2
             p == 2 ^ j
  <2>1. half \in Nat /\ p \in Nat /\ CHUNK_LEN = 2 * half
    <3>1. p \in Nat
      BY PowerIsCount, Zenon
    <3>2. half \in Nat /\ CHUNK_LEN = 2 * half
      BY <1>1
    <3> QED
      BY <3>1, <3>2
  <2>2. Tall(j) = CHUNK_LEN * p
    BY DEF Tall
  <2> HIDE DEF half, p
  <2>3. Tall(j) = 2 * (half * p) /\ half * p \in Nat
    BY <2>1, <2>2
  <2> QED
    BY <2>3
<1>9. Tall(j) < len /\ len <= 2 * Tall(j)
  BY <1>2, <1>4, <1>5, <1>8
<1> QED
  BY <1>5, <1>7, <1>9 DEF LeftIs

(***************************************************************************)
(* Subtrees, compressed with the degree of the machine.                    *)
(***************************************************************************)
\* What CompressSubtreeWide has for the parts of len units, from what it has
\* for the left and the right part
WideTurn(input, key, first, flags, degree, len, lefts, rights) ==
  [at \in 0 .. Len(input) - len |->
     IF len <= degree * CHUNK_LEN
     THEN Hasher!CompressChunksParallel(SubSeq(input, at + 1, at + len), key,
                                 first + at \div CHUNK_LEN, flags, degree)
     ELSE LET left == Hasher!LeftSubtreeLen(len)
              expected == IF left = CHUNK_LEN THEN 1 ELSE Hasher!Longer(degree, 2)
              leftCvs == lefts[at]
              rightCvs == rights[at + left]
          IN  Hasher!Asserting(Len(leftCvs) = expected /\ Len(rightCvs) \in 1 .. Len(leftCvs),
                IF Len(leftCvs) = 1 THEN leftCvs \o rightCvs
                ELSE Hasher!CompressParentsParallel(leftCvs \o rightCvs, key, flags))]

\* The values for the parts of every length, the shorter ones first
WideOf(input, key, first, flags, degree, f) ==
  \A len \in 1 .. Len(input) :
    LET left == Hasher!LeftSubtreeLen(len)
    IN  f[len] = WideTurn(input, key, first, flags, degree, len, f[left], f[len - left])

\* CompressSubtreeWide is what its recursion over lengths gives.
LEMMA WideIs ==
  ASSUME NEW key, NEW flags, NEW degree \in Nat \ {0}, NEW first \in Nat, Hasher!SizesAssumption,
         NEW input, Len(input) \in Nat \ {0}
  PROVE  \E f : /\ WideOf(input, key, first, flags, degree, f)
                /\ Hasher!CompressSubtreeWide(input, key, first, flags, degree) = f[Len(input)][0]
<1> DEFINE n == Len(input)
           W(len, x, y) == WideTurn(input, key, first, flags, degree, len, x, y)
           left(len) == Hasher!LeftSubtreeLen(len)
           R(f, len) == W(len, f[left(len)], f[len - left(len)])
           F(f) == [len \in 1 .. n |-> R(f, len)]
           Upto(f, m) == \A len \in 1 .. m : f[len] = R(f, len)
           S == {m \in Nat : m <= n => \E f : Upto(f, m)}
           wide == CHOOSE f : f = F(f)
<1>0. CHUNK_LEN \in Nat \ {0} /\ n \in Nat \ {0}
  BY SizesAre
<1>1. ASSUME NEW f, NEW g, NEW len \in 1 .. n, \A i \in 1 .. len - 1 : f[i] = g[i]
      PROVE  R(f, len) = R(g, len)
  <2>1. CASE len <= degree * CHUNK_LEN
    <3>1. \A x, y : W(len, x, y) = [at \in 0 .. Len(input) - len |->
             Hasher!CompressChunksParallel(SubSeq(input, at + 1, at + len), key,
                                 first + at \div CHUNK_LEN, flags, degree)]
      BY <2>1 DEF WideTurn
    <3> HIDE DEF W, left
    <3> QED
      BY <3>1
  <2>2. CASE ~(len <= degree * CHUNK_LEN)
    <3>1. len \in Nat /\ len > CHUNK_LEN
      <4> DEFINE p == degree * CHUNK_LEN
      <4>1. p \in Nat /\ p >= CHUNK_LEN
        BY <1>0
      <4> HIDE DEF p
      <4> QED
        BY <1>0, <2>2, <4>1 DEF p
    <3>2. PICK j \in Nat : LeftIs(len, j)
      BY <3>1, LeftParts
    <3>3. left(len) \in 1 .. len - 1 /\ len - left(len) \in 1 .. len - 1
      BY <1>0, <3>1, <3>2 DEF LeftIs
    <3> HIDE DEF W, left
    <3>4. f[left(len)] = g[left(len)] /\ f[len - left(len)] = g[len - left(len)]
      BY <1>1, <3>3
    <3> QED
      BY <3>4
  <2> QED
    BY <2>1, <2>2
<1> HIDE DEF R
<1>2. 0 \in S
  BY <1>0
<1>3. ASSUME NEW m \in Nat, m \in S PROVE m + 1 \in S
  <2> SUFFICES ASSUME m + 1 <= n PROVE \E f : Upto(f, m + 1)
    OBVIOUS
  <2> HIDE DEF n
  <2>1. PICK f : Upto(f, m)
    <3>1. m <= n
      BY <1>0
    <3> HIDE DEF Upto
    <3> QED
      BY <1>3, <3>1
  <2> DEFINE g == [len \in 1 .. m + 1 |-> IF len <= m THEN f[len] ELSE R(f, m + 1)]
  <2>2. \A i \in 1 .. m : g[i] = f[i]
    OBVIOUS
  <2>3. g[m + 1] = R(f, m + 1)
    OBVIOUS
  <2> HIDE DEF g
  <2>4. ASSUME NEW len \in 1 .. m + 1 PROVE g[len] = R(g, len)
    <3>1. len \in 1 .. n /\ \A i \in 1 .. len - 1 : f[i] = g[i]
      BY <1>0, <2>2
    <3>2. R(f, len) = R(g, len)
      BY <1>1, <3>1
    <3>3. CASE len <= m
      <4>1. len \in 1 .. m
        BY <3>3
      <4> QED
        BY <2>1, <2>2, <3>2, <4>1
    <3>4. CASE ~(len <= m)
      <4>1. len = m + 1
        BY <3>4
      <4> QED
        BY <2>3, <3>2, <4>1
    <3> QED
      BY <3>3, <3>4
  <2>5. Upto(g, m + 1)
    BY <2>4
  <2> QED
    BY <2>5
<1>4. \A m \in Nat : m \in S
  <2> HIDE DEF S
  <2> QED
    BY <1>2, <1>3, Induction
<1>5. PICK f : Upto(f, n)
  <2>1. n \in S
    <3> HIDE DEF S, n
    <3> QED
      BY <1>0, <1>4
  <2> HIDE DEF Upto
  <2> QED
    BY <1>0, <2>1
<1> DEFINE g == [len \in 1 .. n |-> f[len]]
<1>6. g = F(g)
  <2>1. ASSUME NEW len \in 1 .. n PROVE f[len] = R(g, len)
    <3>1. \A i \in 1 .. len - 1 : f[i] = g[i]
      <4>1. \A i \in 1 .. len - 1 : i \in 1 .. n
        BY <1>0
      <4> HIDE DEF n
      <4> QED
        BY <4>1
    <3> HIDE DEF g
    <3>2. R(f, len) = R(g, len)
      BY <1>1, <3>1
    <3> QED
      BY <1>5, <3>2
  <2> DEFINE h == g
  <2>2. \A len \in 1 .. n : f[len] = R(h, len)
    BY <2>1
  <2> HIDE DEF h
  <2>3. g = F(h)
    BY <2>2
  <2> QED
    BY <2>3 DEF h
<1>7. wide = F(wide)
  <2> HIDE DEF F, g
  <2> QED
    BY <1>6
<1>8. Hasher!CompressSubtreeWide(input, key, first, flags, degree) = wide[n][0]
  BY DEF Hasher!CompressSubtreeWide, wide, R, WideTurn
<1> HIDE DEF wide
<1>9. \A len \in 1 .. n : wide[len] = R(wide, len)
  <2>1. \A len \in 1 .. n : wide[len] = F(wide)[len]
    BY <1>7
  <2> QED
    BY <2>1
<1>10. WideOf(input, key, first, flags, degree, wide)
  BY <1>9 DEF WideOf, R
<1> QED
  BY <1>8, <1>10

\* A SIMD degree the build can use
Fits(degree) ==
  /\ MaxSimdDegree \in Nat
  /\ \E d \in Nat : degree = 2 ^ d /\ degree <= MaxSimdDegree

\* A machine with one lane compresses two at a time.
Wide(degree) == Hasher!Longer(degree, 2)

\* What the code takes for granted of degrees
WideIsPower(degree) ==
  /\ degree \in Nat \ {0} /\ Wide(degree) \in Nat /\ Wide(degree) >= 2 /\ Wide(degree) >= degree
  /\ Wide(degree) = degree \/ (Wide(degree) = 2 /\ degree = 1)
  /\ Wide(degree) <= Hasher!MaxSimdDegreeOr2
  /\ Wide(degree) = 2 * (Wide(degree) \div 2)
  /\ \E e \in Nat : Wide(degree) = 2 ^ e

\* Degrees are powers of two, and so are the widths.
LEMMA WidePower ==
  ASSUME NEW degree, Fits(degree)
  PROVE  WideIsPower(degree)
<1>1. MaxSimdDegree \in Nat
  BY DEF Fits
<1>2. PICK d \in Nat : degree = 2 ^ d /\ degree <= MaxSimdDegree
  BY DEF Fits
<1>3. degree \in Nat \ {0}
  <2>1. 2 ^ d \in Nat \ {0}
    BY PowerIsCount, Zenon
  <2> QED
    BY <1>2, <2>1
<1>4. CASE d = 0
  <2>1. degree = 1
    <3>1. 2 ^ 0 = 1
      BY PowerIsCount, SMT
    <3> QED
      BY <1>2, <1>4, <3>1
  <2>2. Wide(degree) = 2
    BY <2>1 DEF Wide, Hasher!Longer
  <2>3. 2 = 2 ^ 1
    <3>1. 2 ^ (0 + 1) = 2 * 2 ^ 0 /\ 2 ^ 0 = 1
      BY PowerDoubles, SMT
    <3> QED
      BY <3>1
  <2>4. 2 <= Hasher!MaxSimdDegreeOr2
    BY <1>1 DEF Hasher!MaxSimdDegreeOr2, Hasher!Longer
  <2> HIDE DEF Wide
  <2>5. \E e \in Nat : 2 = 2 ^ e
    BY <2>3, Zenon
  <2> QED
    BY <1>3, <2>1, <2>2, <2>4, <2>5 DEF WideIsPower
<1>5. CASE d # 0
  <2> DEFINE i == d - 1
             q == 2 ^ i
  <2>1. i \in Nat /\ d = i + 1
    BY <1>5
  <2>2. 2 ^ d = 2 * q /\ q \in Nat \ {0}
    <3> HIDE DEF i
    <3> QED
      BY <2>1, PowerDoubles
  <2> HIDE DEF q
  <2>3. degree = 2 * q
    BY <1>2, <2>2
  <2>4. Wide(degree) = degree
    BY <2>2, <2>3 DEF Wide, Hasher!Longer
  <2>5. degree <= Hasher!MaxSimdDegreeOr2
    BY <1>1, <1>2, <1>3 DEF Hasher!MaxSimdDegreeOr2, Hasher!Longer
  <2>6. degree \div 2 = q
    BY <2>2, <2>3
  <2> HIDE DEF Wide
  <2>7. \E e \in Nat : degree = 2 ^ e
    BY <1>2
  <2>8. degree >= 2
    BY <2>2, <2>3
  <2> QED
    BY <1>3, <2>3, <2>4, <2>5, <2>6, <2>7, <2>8 DEF WideIsPower
<1> QED
  BY <1>4, <1>5

\* What CompressSubtreeWide has for a part of len units from chunk c on
WideClaim(key, flags, u, c, len, wide, list) ==
  /\ Listed(Vals(key, flags), Merge(key, flags), list, Subtree(key, flags, u, c, len))
  /\ Len(list) \in 1 .. wide
  /\ len <= CHUNK_LEN => Len(list) = 1
  /\ len > CHUNK_LEN => Len(list) >= 2
  /\ \A i \in Nat : len = Tall(i) /\ wide * CHUNK_LEN <= len => Len(list) = wide

\* What fits into the SIMD registers is hashed chunk by chunk.
LEMMA SmallClaim ==
  ASSUME NEW key, NEW flags, NEW degree, NEW u \in Units, NEW c \in Nat, Hasher!SizesAssumption,
         Fits(degree), NEW len \in Nat, len # 0, len <= degree * CHUNK_LEN, NEW list,
         list = Hasher!CompressChunksParallel(Cut(u, c * CHUNK_LEN, len), key, c, flags, degree)
  PROVE  WideClaim(key, flags, u, c, len, Wide(degree), list)
<1> DEFINE D == Wide(degree)
           t == Full(len)
           x == LastOf(len)
           l == CHUNK_LEN
<1>1. l \in Nat \ {0}
  BY SizesAre
<1>2. degree \in Nat \ {0} /\ D \in Nat /\ D >= 2 /\ D >= degree /\ (D = degree \/ (D = 2 /\ degree = 1))
  BY WidePower DEF WideIsPower
<1>3. len <= MaxSimdDegree * l
  <2>1. MaxSimdDegree \in Nat /\ degree <= MaxSimdDegree
    BY DEF Fits
  <2>2. degree * l <= MaxSimdDegree * l
    BY <1>1, <1>2, <2>1, Cancelled
  <2> DEFINE a == degree * l
             b == MaxSimdDegree * l
  <2>3. a \in Nat /\ b \in Nat /\ a <= b /\ len <= a
    BY <1>1, <1>2, <2>1, <2>2
  <2> HIDE DEF a, b
  <2>4. len <= b
    BY <2>3
  <2> QED
    BY <2>4 DEF b
<1>4. LeavesOf(key, flags, u, c, len, list)
  <2>1. MaxSimdDegree \in Nat
    BY DEF Fits
  <2> QED
    BY <1>3, <2>1, LeavesHashed
<1>5. Listed(Vals(key, flags), Merge(key, flags), list, Subtree(key, flags, u, c, len))
  BY <1>4, LeavesListed
<1>6. Len(list) = t + 1
  BY <1>4 DEF LeavesOf
<1>7. /\ t \in Nat /\ x \in 1 .. l /\ len = t * l + x
      /\ len <= l => t = 0
  <2>1. t \in Nat /\ x \in 0 .. l /\ len = t * l + x /\ (x = 0 <=> len = 0)
        /\ (len <= l => t = 0)
    BY <1>1, FullIs
  <2> HIDE DEF t, x
  <2> QED
    BY <2>1
<1> HIDE DEF D, t, x
<1>8. t < degree /\ (len > l => t >= 1)
  <2> DEFINE a == t * l
             b == degree * l
  <2>1. a \in Nat /\ b \in Nat /\ len = a + x /\ len <= b /\ (t = 0 => a = 0)
    BY <1>1, <1>2, <1>7
  <2>2. t * l < degree * l
    <3>1. a < b
      <4> HIDE DEF a, b
      <4> QED
        BY <1>7, <2>1
    <3> QED
      BY <3>1
  <2>3. t < degree
    BY <1>1, <1>2, <1>7, <2>2, Cancelled
  <2> HIDE DEF a, b
  <2> QED
    BY <1>1, <1>7, <2>1, <2>3
<1>9. ASSUME D * l <= len PROVE t + 1 = D
  <2> DEFINE a == t * l
             b == D * l
             e == (t + 1) * l
             f == degree * l
  <2>1. a \in Nat /\ b \in Nat /\ e = a + l /\ f \in Nat /\ len = a + x /\ len <= f /\ b <= len
    BY <1>1, <1>2, <1>7, <1>9
  <2>2. b <= e /\ b <= f
    <3> HIDE DEF a, b, e, f
    <3> QED
      BY <1>1, <1>7, <2>1
  <2>3. D <= t + 1 /\ D <= degree
    <3>1. t + 1 \in Nat
      BY <1>7
    <3> DEFINE t1 == t + 1
    <3>2. D * l <= t1 * l /\ D * l <= degree * l
      BY <2>2
    <3> HIDE DEF t1
    <3>3. D <= t1 /\ D <= degree
      BY <1>1, <1>2, <3>1, <3>2, Cancelled DEF t1
    <3> QED
      BY <3>3 DEF t1
  <2> QED
    BY <1>2, <1>7, <1>8, <2>3
<1>10. t + 1 \in 1 .. D /\ (len <= l => t + 1 = 1) /\ (len > l => t + 1 >= 2)
  BY <1>2, <1>7, <1>8
<1> QED
  BY <1>5, <1>6, <1>9, <1>10, Zenon DEF WideClaim, D

\* The two parts of a longer one
BothClaim(key, flags, u, c, len, degree, j, a, b) ==
  LET expected == IF Tall(j) = CHUNK_LEN THEN 1 ELSE Wide(degree)
      list == IF Len(a) = 1 THEN a \o b ELSE Hasher!CompressParentsParallel(a \o b, key, flags)
  IN  /\ Len(a) = expected /\ Len(b) \in 1 .. Len(a)
      /\ WideClaim(key, flags, u, c, len, Wide(degree), list)

\* Parents of the values of two parts, unless these are single values
LEMMA PartsClaim ==
  ASSUME NEW key, NEW flags, NEW degree, NEW u \in Units, NEW c \in Nat, Hasher!SizesAssumption,
         Fits(degree), NEW len \in Nat, degree * CHUNK_LEN < len,
         NEW j \in Nat, LeftIs(len, j), NEW a, NEW b,
         WideClaim(key, flags, u, c, Tall(j), Wide(degree), a),
         WideClaim(key, flags, u, c + 2 ^ j, len - Tall(j), Wide(degree), b)
  PROVE  BothClaim(key, flags, u, c, len, degree, j, a, b)
<1> DEFINE V == Vals(key, flags)
           merge == Merge(key, flags)
           D == Wide(degree)
           l == CHUNK_LEN
           p == 2 ^ j
           T == Tall(j)
           r == len - T
           x == Subtree(key, flags, u, c, T)
           y == Subtree(key, flags, u, c + p, r)
           v == Subtree(key, flags, u, c, len)
           all == a \o b
           parents == Hasher!CompressParentsParallel(all, key, flags)
<1>1. l \in Nat \ {0} /\ Hasher!BLOCK_LEN = 2
  BY SizesAre
<1>2. /\ degree \in Nat \ {0} /\ D \in Nat /\ D >= 2 /\ D >= degree
      /\ D = degree \/ (D = 2 /\ degree = 1)
      /\ D <= Hasher!MaxSimdDegreeOr2 /\ D = 2 * (D \div 2)
  BY WidePower DEF WideIsPower
<1>3. PICK e \in Nat : D = 2 ^ e
  BY WidePower DEF WideIsPower
<1>4. p \in Nat \ {0} /\ T = l * p /\ T \in Nat /\ T >= l /\ Tall(j + 1) = 2 * T
  BY TallIs
<1>5. T < len /\ len <= 2 * T /\ Hasher!LeftSubtreeLen(len) = T
  BY DEF LeftIs
<1>6. r \in 1 .. T /\ r \in Nat /\ len = T + r
  BY <1>4, <1>5
<1>7. merge \in [V -> [V -> V]]
  BY MergeIs, Zenon DEF Merges
<1>8. merge[x][y] = v
  <2> HIDE DEF r
  <2>1. SubtreeParent(key, flags, u, c, j, r)
    BY <1>6, SubtreeSplits
  <2> QED
    BY <1>6, <2>1 DEF SubtreeParent
<1>9. /\ Listed(V, merge, a, x) /\ Len(a) \in 1 .. D
      /\ T <= l => Len(a) = 1
      /\ D * l <= T => Len(a) = D
  BY DEF WideClaim
<1>10. /\ Listed(V, merge, b, y) /\ Len(b) \in 1 .. D
       /\ r <= l => Len(b) = 1
       /\ r = T /\ D * l <= T => Len(b) = D
  BY DEF WideClaim
<1>11. ASSUME NEW i \in Nat, len = Tall(i) PROVE r = T
  <2>1. CASE i <= j
    <3>1. 2 ^ i <= p /\ 2 ^ i \in Nat /\ Tall(i) = l * 2 ^ i
      BY <2>1, PowersOfTwoRise, TallIs, Zenon
    <3> DEFINE q == 2 ^ i
    <3> HIDE DEF q, p
    <3>2. q * l <= p * l /\ q * l \in Nat
      BY <1>1, <1>4, <3>1, Cancelled DEF q
    <3>3. Tall(i) = q * l /\ T = p * l
      BY <1>1, <1>4, <3>1 DEF q
    <3> QED
      BY <1>4, <1>5, <1>11, <3>2, <3>3
  <2>2. CASE ~(i <= j)
    <3> DEFINE k == j + 1
    <3>1. k \in Nat /\ k <= i
      BY <2>2
    <3>2. 2 ^ k <= 2 ^ i /\ 2 ^ k \in Nat /\ 2 ^ i \in Nat /\ Tall(i) = l * 2 ^ i /\ Tall(k) = l * 2 ^ k
      <4> HIDE DEF k
      <4> QED
        BY <3>1, PowersOfTwoRise, TallIs, Zenon
    <3> DEFINE q == 2 ^ i
               s == 2 ^ k
    <3> HIDE DEF q, s
    <3>3. s * l <= q * l /\ q * l \in Nat /\ s * l \in Nat
      BY <1>1, <3>2, Cancelled DEF q, s
    <3>4. Tall(i) = q * l /\ 2 * T = s * l
      BY <1>1, <1>4, <3>2 DEF q, s
    <3> QED
      BY <1>4, <1>5, <1>11, <3>3, <3>4
  <2> QED
    BY <2>1, <2>2
<1> HIDE DEF r, x, y, v, V, merge, D, all, T
<1>12. CASE T = l
  <2>1. degree = 1 /\ D = 2
    <3>1. degree * l < 2 * l
      <4> DEFINE f == degree * l
                 g == 2 * l
      <4>1. f \in Nat /\ f < len /\ len <= g
        BY <1>1, <1>2, <1>5, <1>12
      <4> HIDE DEF f, g
      <4>2. f < g
        BY <1>1, <4>1 DEF g
      <4> QED
        BY <4>2 DEF f, g
    <3>2. degree < 2
      BY <1>1, <1>2, <3>1, Cancelled
    <3> QED
      BY <1>2, <3>2
  <2>2. Len(a) = 1 /\ Len(b) = 1
    BY <1>1, <1>6, <1>9, <1>10, <1>12
  <2>3. Listed(V, merge, all, v) /\ Len(all) = 2
    <3>1. 2 ^ 0 = 1
      BY PowerIsCount, SMT
    <3>2. Listed(V, merge, a, x) /\ Listed(V, merge, b, y)
      BY <1>9, <1>10
    <3>3. ASSUME NEW k \in Nat, Len(a) = 2 ^ k, Len(b) <= 2 ^ k
          PROVE  JoinsTo(V, merge, a, b, merge[x][y])
      BY ONLY <1>7, <3>2, <3>3, JoinListed
    <3>4. Len(a) = 2 ^ 0 /\ Len(b) <= 2 ^ 0
      BY <2>2, <3>1
    <3>5. Listed(V, merge, all, merge[x][y]) /\ Len(all) = Len(a) + Len(b)
      <4>1. JoinsTo(V, merge, a, b, merge[x][y])
        BY <3>3, <3>4, Zenon
      <4> QED
        BY <4>1, Zenon DEF all, JoinsTo
    <3> QED
      BY <1>8, <2>2, <3>5
  <2>4. len > l
    BY <1>1, <1>5, <1>12
  <2>5. WideClaim(key, flags, u, c, len, D, all)
    BY <1>1, <2>1, <2>3, <2>4 DEF WideClaim, V, merge, v
  <2> QED
    BY <1>12, <2>2, <2>5 DEF BothClaim, D, T, all
<1>13. CASE T # l
  <2>1. p >= 2
    <3> HIDE DEF p
    <3> QED
      BY <1>1, <1>4, <1>13
  <2>2. p >= degree
    <3>1. PICK d \in Nat : degree = 2 ^ d
      BY DEF Fits
    <3> DEFINE k == j + 1
               s == 2 ^ k
    <3>2. k \in Nat /\ s = 2 * p
      <4>1. 2 ^ (j + 1) = 2 * 2 ^ j
        BY PowerDoubles
      <4> QED
        BY <4>1
    <3>3. degree < s
      <4> HIDE DEF p, s
      <4> DEFINE f == degree * l
                 g == s * l
      <4>1. f \in Nat /\ g = 2 * T /\ g \in Nat
        BY <1>1, <1>2, <1>4, <3>2
      <4>2. f < len /\ len <= g
        BY <1>5, <4>1
      <4> HIDE DEF f, g
      <4>3. f < g
        BY <4>1, <4>2
      <4>4. s \in Nat
        BY <1>4, <3>2
      <4> QED
        BY <1>1, <1>2, <4>3, <4>4, Cancelled DEF f, g
    <3>4. CASE d <= j
      BY <3>1, <3>4, PowersOfTwoRise, <1>2, <1>4
    <3>5. CASE ~(d <= j)
      <4>1. k <= d
        BY <3>5
      <4>2. s <= degree
        <5> HIDE DEF k
        <5> QED
          BY <3>1, <3>2, <4>1, PowersOfTwoRise
      <4> HIDE DEF p, s
      <4> QED
        BY <1>2, <1>4, <3>2, <3>3, <4>2
    <3> QED
      BY <3>4, <3>5
  <2>3. D * l <= T
    <3> HIDE DEF p
    <3>1. D <= p
      BY <1>2, <1>4, <2>1, <2>2
    <3>2. D * l <= p * l
      BY <1>1, <1>2, <1>4, <3>1, Cancelled
    <3>3. p * l = T
      BY <1>1, <1>4
    <3> QED
      BY <3>2, <3>3
  <2>4. Len(a) = D /\ Len(b) \in 1 .. D
    BY <1>9, <1>10, <2>3
  <2>5. Listed(V, merge, all, v) /\ Len(all) = Len(a) + Len(b)
    <3>1. Len(a) = 2 ^ e /\ Len(b) <= 2 ^ e
      BY <1>2, <1>3, <2>4
    <3>2. Listed(V, merge, a, x) /\ Listed(V, merge, b, y)
      BY <1>9, <1>10
    <3>3. merge \in [V -> [V -> V]]
      BY <1>7
    <3>4. JoinsTo(V, merge, a, b, merge[x][y])
      BY <1>2, <1>3, <3>1, <3>2, <3>3, JoinListed
    <3> QED
      BY <1>8, <3>4 DEF all, JoinsTo
  <2> DEFINE q == Len(b)
  <2>6. q \in 1 .. D /\ Len(all) = D + q /\ 2 <= Len(all) /\ Len(all) <= 2 * Hasher!MaxSimdDegreeOr2
    <3> DEFINE M == Hasher!MaxSimdDegreeOr2
    <3>1. M \in Nat
      BY DEF Fits, Hasher!MaxSimdDegreeOr2, Hasher!Longer
    <3>2. D <= M
      BY <1>2
    <3> HIDE DEF M
    <3>3. q \in 1 .. D /\ Len(all) = D + q
      BY <2>4, <2>5
    <3> HIDE DEF q
    <3>4. Len(all) <= 2 * M /\ 2 <= Len(all)
      BY <1>2, <3>1, <3>2, <3>3
    <3> QED
      BY <3>3, <3>4 DEF M
  <2>7. Listed(V, merge, parents, v) /\ Len(parents) = (Len(all) + 1) \div 2
    <3>1. ParentsAre(key, flags, all, v)
      BY <1>1, <2>5, <2>6, ParentsListed DEF V, merge
    <3> QED
      BY <3>1 DEF ParentsAre, V, merge
  <2> HIDE DEF q, parents
  <2>8. Len(parents) \in 1 .. D /\ Len(parents) >= 2 /\ (q = D => Len(parents) = D)
    <3> DEFINE h == D \div 2
    <3>1. h \in Nat /\ D = 2 * h
      BY <1>2
    <3> HIDE DEF h
    <3> QED
      BY <1>2, <2>6, <2>7, <3>1
  <2>9. len > l
    BY <1>1, <1>4, <1>5
  <2>10. \A i \in Nat : len = Tall(i) => q = D
    BY <1>10, <1>11, <2>3 DEF q
  <2>11. WideClaim(key, flags, u, c, len, D, parents)
    BY <1>1, <2>7, <2>8, <2>9, <2>10 DEF WideClaim, V, merge, v
  <2>12. Len(a) # 1
    BY <1>2, <2>4
  <2> QED
    BY <1>13, <2>4, <2>11, <2>12 DEF BothClaim, D, T, all, parents
<1> QED
  BY <1>12, <1>13

\* What there is for the parts of up to m units of an input of n units from
\* chunk c on
Covered(key, flags, u, c, n, wide, f, m) ==
  \A len \in 1 .. m, a \in Nat :
    a * CHUNK_LEN + len <= n => WideClaim(key, flags, u, c + a, len, wide, f[len][a * CHUNK_LEN])

\* The parts of len units
LEMMA WideStep ==
  ASSUME NEW key, NEW flags, NEW degree, NEW u \in Units, NEW c \in Nat, Hasher!SizesAssumption,
         Fits(degree), NEW n \in Nat, NEW f,
         WideOf(Cut(u, c * CHUNK_LEN, n), key, c, flags, degree, f),
         NEW m \in Nat, Covered(key, flags, u, c, n, Wide(degree), f, m),
         NEW len, len = m + 1, NEW a \in Nat, a * CHUNK_LEN + len <= n
  PROVE  WideClaim(key, flags, u, c + a, len, Wide(degree), f[len][a * CHUNK_LEN])
<1> DEFINE l == CHUNK_LEN
           input == Cut(u, c * l, n)
           at == a * l
           ca == c + a
           lefts == f[Hasher!LeftSubtreeLen(len)]
           rights == f[len - Hasher!LeftSubtreeLen(len)]
           SMALL == Hasher!CompressChunksParallel(SubSeq(input, at + 1, at + len), key, c + at \div l,
                                                  flags, degree)
           LARGE ==
             LET left == Hasher!LeftSubtreeLen(len)
                 expected == IF left = CHUNK_LEN THEN 1 ELSE Hasher!Longer(degree, 2)
                 leftCvs == lefts[at]
                 rightCvs == rights[at + left]
             IN  Hasher!Asserting(Len(leftCvs) = expected /\ Len(rightCvs) \in 1 .. Len(leftCvs),
                   IF Len(leftCvs) = 1 THEN leftCvs \o rightCvs
                   ELSE Hasher!CompressParentsParallel(leftCvs \o rightCvs, key, flags))
<1>1. l \in Nat \ {0} /\ ca \in Nat /\ at \in Nat /\ c * l \in Nat /\ len \in Nat \ {0}
  BY SizesAre
<1>2. Len(input) = n
  BY <1>1, CutIs DEF IsCut
<1>3. len \in 1 .. n /\ at \in 0 .. n - len /\ at + len <= n
  BY <1>1
<1>4. f[len][at] = IF len <= degree * l THEN SMALL ELSE LARGE
  <2>1. f[len] = WideTurn(input, key, c, flags, degree, len, lefts, rights)
    BY <1>2, <1>3 DEF WideOf
  <2>2. at \in 0 .. Len(input) - len
    BY <1>2, <1>3
  <2> HIDE DEF at, input, lefts, rights
  <2> QED
    BY <2>1, <2>2 DEF WideTurn
<1>5. c * l + at = ca * l
  BY <1>1
<1> HIDE DEF LARGE
<1>6. CASE len <= degree * l
  <2>1. SubSeq(input, at + 1, at + len) = Cut(u, ca * l, len)
    <3>1. PartIs(u, c * l, n, at, len)
      <4> HIDE DEF at
      <4> QED
        BY <1>1, <1>3, CutParts
    <3> HIDE DEF at
    <3> QED
      BY <1>5, <3>1 DEF PartIs
  <2>2. c + at \div l = ca
    <3>1. (a * l + 0) \div l = a
      <4>1. 0 \in 0 .. l - 1
        BY <1>1
      <4> QED
        BY <1>1, <4>1, DivideOnly
    <3>2. a * l + 0 = at
      BY <1>1
    <3> QED
      BY <3>1, <3>2
  <2>3. f[len][at] = Hasher!CompressChunksParallel(Cut(u, ca * l, len), key, ca, flags, degree)
    BY <1>4, <1>6, <2>1, <2>2, Zenon
  <2> HIDE DEF at, ca
  <2> QED
    BY <1>1, <1>6, <2>3, SmallClaim, Zenon DEF at, ca
<1>7. CASE ~(len <= degree * l)
  <2> DEFINE k == degree * l
  <2>1. k \in Nat /\ k >= l
    <3>1. degree \in Nat \ {0}
      BY WidePower DEF WideIsPower
    <3> QED
      BY <1>1, <3>1
  <2>2. k < len /\ len > l
    <3> HIDE DEF k
    <3>1. ~(len <= k)
      BY <1>7 DEF k
    <3> QED
      BY <1>1, <2>1, <3>1
  <2>3. PICK j \in Nat : LeftIs(len, j)
    BY <1>1, <2>2, LeftParts
  <2> DEFINE p == 2 ^ j
             T == Tall(j)
             r == len - T
             b == a + p
  <2>4. p \in Nat \ {0} /\ T = l * p /\ T \in Nat /\ T >= l
    BY TallIs, Zenon
  <2>5. T < len /\ Hasher!LeftSubtreeLen(len) = T
    BY <2>3 DEF LeftIs
  <2>6. b \in Nat /\ b * l = at + T /\ c + b = ca + p
    <3> HIDE DEF p, T
    <3> QED
      BY <1>1, <2>4
  <2>7. r \in 1 .. m /\ T \in 1 .. m
    <3> HIDE DEF T
    <3> QED
      BY <1>1, <2>4, <2>5
  <2>8. at + T <= n /\ b * l + r <= n
    <3> HIDE DEF T, at
    <3> QED
      BY <1>1, <1>3, <2>4, <2>5, <2>6
  <2>9. WideClaim(key, flags, u, ca, T, Wide(degree), f[T][at])
    <3> HIDE DEF T
    <3> QED
      BY <2>7, <2>8 DEF Covered
  <2>10. WideClaim(key, flags, u, ca + p, r, Wide(degree), f[r][at + T])
    <3>1. WideClaim(key, flags, u, c + b, r, Wide(degree), f[r][b * l])
      <4> HIDE DEF r, b
      <4> QED
        BY <2>6, <2>7, <2>8 DEF Covered
    <3> HIDE DEF r, b, ca, at
    <3> QED
      BY <2>6, <3>1
  <2>11. BothClaim(key, flags, u, ca, len, degree, j, f[T][at], f[r][at + T])
    <3>1. degree * CHUNK_LEN < len
      BY <2>2
    <3> DEFINE x == f[T][at]
               y == f[r][at + T]
    <3>2. WideClaim(key, flags, u, ca, Tall(j), Wide(degree), x)
      BY <2>9
    <3>3. WideClaim(key, flags, u, ca + 2 ^ j, len - Tall(j), Wide(degree), y)
      BY <2>10
    <3> HIDE DEF x, y, ca
    <3>4. BothClaim(key, flags, u, ca, len, degree, j, x, y)
      BY <1>1, <2>3, <3>1, <3>2, <3>3, PartsClaim
    <3> QED
      BY <3>4 DEF x, y
  <2>12. lefts = f[T] /\ rights = f[r]
    BY <2>5
  <2>13. f[len][at] = LARGE
    BY <1>4, <1>7
  <2> HIDE DEF T, r, ca, at, p
  <2>14. WideClaim(key, flags, u, ca, len, Wide(degree), LARGE)
    <3> HIDE DEF lefts, rights
    <3> QED
      BY <2>5, <2>11, <2>12, Zenon DEF BothClaim, LARGE, Hasher!Asserting, T, Wide
  <2> QED
    BY <2>13, <2>14 DEF at, ca
<1> QED
  BY <1>6, <1>7

\* All parts
LEMMA WideCovers ==
  ASSUME NEW key, NEW flags, NEW degree, NEW u \in Units, NEW c \in Nat, Hasher!SizesAssumption,
         Fits(degree), NEW n \in Nat, NEW f,
         WideOf(Cut(u, c * CHUNK_LEN, n), key, c, flags, degree, f)
  PROVE  \A m \in Nat : Covered(key, flags, u, c, n, Wide(degree), f, m)
<1> DEFINE S == {m \in Nat : Covered(key, flags, u, c, n, Wide(degree), f, m)}
<1>1. 0 \in S
  BY DEF Covered
<1>2. ASSUME NEW m \in Nat, m \in S PROVE m + 1 \in S
  <2> DEFINE m1 == m + 1
  <2>1. m1 \in Nat /\ Covered(key, flags, u, c, n, Wide(degree), f, m)
    BY <1>2
  <2>2. ASSUME NEW len \in 1 .. m1, NEW a \in Nat, a * CHUNK_LEN + len <= n
        PROVE  WideClaim(key, flags, u, c + a, len, Wide(degree), f[len][a * CHUNK_LEN])
    <3>1. CASE len = m1
      BY <2>1, <2>2, <3>1, WideStep
    <3>2. CASE len # m1
      <4>1. len \in 1 .. m
        BY <2>2, <3>2
      <4> QED
        BY <2>1, <2>2, <4>1 DEF Covered
    <3> QED
      BY <3>1, <3>2
  <2> HIDE DEF m1
  <2>3. Covered(key, flags, u, c, n, Wide(degree), f, m1)
    BY <2>2 DEF Covered
  <2>4. m1 \in S
    BY <2>1, <2>3
  <2> QED
    BY <2>4 DEF m1
<1>3. \A m \in Nat : m \in S
  <2> HIDE DEF S
  <2> QED
    BY <1>1, <1>2, Induction
<1> QED
  BY <1>3

\* compress_subtree_wide has the values of the row of the tree that is as wide
\* as the machine compresses at a time.
WideHas(key, flags, degree, u, c, len) ==
  WideClaim(key, flags, u, c, len, Wide(degree),
    Hasher!CompressSubtreeWide(Cut(u, c * CHUNK_LEN, len), key, c, flags, degree))

\* compress_subtree_wide, for any input and any degree
LEMMA SubtreeWide ==
  ASSUME NEW key, NEW flags, NEW degree, NEW u \in Units, NEW c \in Nat, Hasher!SizesAssumption,
         Fits(degree), NEW len \in Nat \ {0}
  PROVE  WideHas(key, flags, degree, u, c, len)
<1> DEFINE l == CHUNK_LEN
           input == Cut(u, c * l, len)
           list == Hasher!CompressSubtreeWide(input, key, c, flags, degree)
<1>1. l \in Nat \ {0} /\ c * l \in Nat
  BY SizesAre
<1>2. Len(input) = len
  BY <1>1, CutIs DEF IsCut
<1>3. degree \in Nat \ {0}
  BY WidePower DEF WideIsPower
<1> HIDE DEF input
<1>4. PICK f : WideOf(input, key, c, flags, degree, f) /\ list = f[len][0]
  BY <1>2, <1>3, WideIs
<1>5. Covered(key, flags, u, c, len, Wide(degree), f, len)
  BY <1>4, WideCovers DEF input
<1>6. WideClaim(key, flags, u, c + 0, len, Wide(degree), f[len][0 * l])
  <2> DEFINE z == 0
  <2>1. z \in Nat /\ z * l + len <= len /\ len \in 1 .. len
    BY <1>1
  <2>2. WideClaim(key, flags, u, c + z, len, Wide(degree), f[len][z * l])
    <3> HIDE DEF z
    <3> QED
      BY <1>5, <2>1 DEF Covered
  <2> QED
    BY <2>2 DEF z
<1>7. c + 0 = c /\ 0 * l = 0
  BY <1>1
<1>8. WideClaim(key, flags, u, c, len, Wide(degree), list)
  <2> HIDE DEF list
  <2> QED
    BY <1>4, <1>6, <1>7
<1> QED
  BY <1>8 DEF WideHas, input

\* Rows of parents, one after the other, until two are left
Condensed(key, flags, v, list) ==
  /\ Listed(Vals(key, flags), Merge(key, flags), list, v)
  /\ Len(list) = 2

\* The loop of compress_subtree_to_parent_node ends with two values of the same tree.
LEMMA CondensedToPair ==
  ASSUME NEW key, NEW flags, Hasher!BLOCK_LEN = 2, MaxSimdDegree \in Nat, NEW list, NEW v,
         Listed(Vals(key, flags), Merge(key, flags), list, v),
         2 <= Len(list), Len(list) <= 2 * Hasher!MaxSimdDegreeOr2
  PROVE  Condensed(key, flags, v, Hasher!CondenseToPair(list, key, flags))
<1> DEFINE V == Vals(key, flags)
           merge == Merge(key, flags)
           most == 2 * Hasher!MaxSimdDegreeOr2
           n == Len(list)
           D == {x \in Seq(V) : Listed(V, merge, x, v) /\ 2 <= Len(x) /\ Len(x) <= most}
           step == [x \in D |-> IF Len(x) > 2 THEN Hasher!CompressParentsParallel(x, key, flags)
                                ELSE x]
           Turn(g) == [i \in 0 .. n |->
             IF i = 0 THEN list
             ELSE LET before == g[i - 1]
                  IN  IF Len(before) > 2 THEN Hasher!CompressParentsParallel(before, key, flags)
                      ELSE before]
           turn == CHOOSE g : g = Turn(g)
<1>0. Hasher!MaxSimdDegreeOr2 \in Nat
  BY DEF Hasher!MaxSimdDegreeOr2, Hasher!Longer
<1>1. Listed(V, merge, list, v) /\ list \in Seq(V) /\ n \in Nat
  <2>1. list \in Seq(V) /\ Listed(V, merge, list, v)
    BY DEF Listed, OnRow
  <2> HIDE DEF V
  <2>2. n \in Nat
    BY <2>1
  <2> QED
    BY <2>1, <2>2
<1>2. list \in D
  BY <1>1
<1>3. ASSUME NEW x \in D
      PROVE  step[x] \in D /\ (Len(x) > 2 => Len(step[x]) < Len(x)) /\ Len(x) \in Nat /\ Len(x) >= 2
  <2>1. x \in Seq(V) /\ Listed(V, merge, x, v) /\ 2 <= Len(x) /\ Len(x) <= most /\ Len(x) \in Nat
    OBVIOUS
  <2>2. step[x] = IF Len(x) > 2 THEN Hasher!CompressParentsParallel(x, key, flags) ELSE x
    <3> HIDE DEF D
    <3> QED
      OBVIOUS
  <2> HIDE DEF step
  <2>3. CASE Len(x) > 2
    <3> DEFINE y == Hasher!CompressParentsParallel(x, key, flags)
    <3>1. ParentsAre(key, flags, x, v)
      BY <2>1, ParentsListed
    <3>2. Listed(V, merge, y, v) /\ Len(y) = (Len(x) + 1) \div 2
      BY <3>1 DEF ParentsAre
    <3>3. y \in Seq(V)
      BY <3>2 DEF Listed, OnRow
    <3>4. y = step[x]
      BY <2>2, <2>3
    <3> HIDE DEF y
    <3> DEFINE k == Len(x)
    <3>5. (k + 1) \div 2 < k /\ 2 <= (k + 1) \div 2 /\ k \in Nat
      <4>1. k \in Nat /\ k > 2
        BY <2>1, <2>3
      <4> HIDE DEF k
      <4> QED
        BY <4>1
    <3> HIDE DEF most
    <3>6. Len(y) < Len(x) /\ 2 <= Len(y)
      BY <3>2, <3>5
    <3>7. Len(y) <= most
      <4> DEFINE ly == Len(y)
                 lx == Len(x)
      <4>1. ly = (lx + 1) \div 2 /\ lx \in Nat /\ lx <= most /\ (lx + 1) \div 2 < lx
        BY <2>1, <3>2, <3>5
      <4>2. ly < lx
        BY <4>1
      <4> HIDE DEF ly, lx
      <4>3. most \in Int
        BY <1>0 DEF most
      <4>4. ly \in Nat
        BY <4>1
      <4>5. ly <= most
        BY <4>1, <4>2, <4>3, <4>4
      <4> QED
        BY <4>5 DEF ly
    <3> QED
      BY <2>1, <3>2, <3>3, <3>4, <3>6, <3>7
  <2>4. CASE ~(Len(x) > 2)
    BY <2>1, <2>2, <2>4
  <2> QED
    BY <2>3, <2>4
<1>4. step \in [D -> D]
  <2>1. \A x \in D : (IF Len(x) > 2 THEN Hasher!CompressParentsParallel(x, key, flags) ELSE x) \in D
    <3> TAKE x \in D
    <3>1. step[x] \in D
      BY <1>3
    <3> HIDE DEF D
    <3> QED
      BY <3>1
  <2> HIDE DEF D
  <2> QED
    BY <2>1
<1>5. PICK w : Iterated(D, list, step, n, w)
  <2> HIDE DEF D, step
  <2> QED
    BY <1>1, <1>2, <1>4, Iterates
<1>6. /\ w \in [0 .. n -> D] /\ w[0] = list
      /\ \A i \in 1 .. n : w[i] = step[w[i - 1]]
  BY <1>5 DEF Iterated
<1>7. w = Turn(w)
  <2>1. ASSUME NEW i \in 0 .. n
        PROVE  w[i] = IF i = 0 THEN list
                      ELSE IF Len(w[i - 1]) > 2
                           THEN Hasher!CompressParentsParallel(w[i - 1], key, flags)
                           ELSE w[i - 1]
    <3>1. CASE i = 0
      BY <1>6, <3>1
    <3>2. CASE i # 0
      <4>1. i \in 1 .. n /\ i - 1 \in 0 .. n
        BY <1>1, <3>2
      <4>2. w[i - 1] \in D
        <5> HIDE DEF D
        <5> QED
          BY <1>6, <4>1
      <4>3. w[i] = step[w[i - 1]]
        BY <1>6, <4>1, Zenon
      <4> HIDE DEF D
      <4> QED
        BY <3>2, <4>2, <4>3
    <3> QED
      BY <3>1, <3>2
  <2> HIDE DEF D, step
  <2> QED
    BY <1>6, <2>1
<1>8. turn = Turn(turn)
  <2> HIDE DEF Turn
  <2> QED
    BY <1>7
<1>9. /\ turn[0] = list
      /\ \A i \in 1 .. n : turn[i] = IF Len(turn[i - 1]) > 2
                                     THEN Hasher!CompressParentsParallel(turn[i - 1], key, flags)
                                     ELSE turn[i - 1]
  <2> HIDE DEF turn
  <2>1. \A i \in 0 .. n : turn[i] = Turn(turn)[i]
    BY <1>8, Zenon
  <2>2. 0 \in 0 .. n /\ \A i \in 1 .. n : i \in 0 .. n /\ i # 0
    BY <1>1
  <2> QED
    BY <2>1, <2>2
<1> HIDE DEF turn, Turn
<1> DEFINE Good(i) == turn[i] \in D /\ (Len(turn[i]) = 2 \/ Len(turn[i]) + i <= n)
<1>10. \A i \in 0 .. n : Good(i)
  <2> DEFINE S == {i \in Nat : i <= n => Good(i)}
  <2>1. 0 \in S
    <3>1. n + 0 <= n
      BY <1>1
    <3> HIDE DEF D
    <3> QED
      BY <1>2, <1>9, <3>1
  <2>2. ASSUME NEW i \in Nat, i \in S PROVE i + 1 \in S
    <3> DEFINE i1 == i + 1
    <3>1. i1 \in Nat /\ i1 - 1 = i
      OBVIOUS
    <3>2. ASSUME i1 <= n PROVE Good(i1)
      <4>1. Good(i) /\ i1 \in 1 .. n
        BY <1>1, <2>2, <3>1, <3>2
      <4> DEFINE x == turn[i]
                 y == turn[i1]
      <4>2. x \in D /\ (Len(x) = 2 \/ Len(x) + i <= n)
        BY <4>1
      <4>3. step[x] \in D /\ (Len(x) > 2 => Len(step[x]) < Len(x)) /\ Len(x) \in Nat /\ Len(x) >= 2
        <5> HIDE DEF D, step
        <5> QED
          BY <1>3, <4>2
      <4>4. y = IF Len(x) > 2 THEN Hasher!CompressParentsParallel(x, key, flags) ELSE x
        BY <1>9, <3>1, <4>1
      <4>5. y = step[x]
        <5> HIDE DEF D
        <5> QED
          BY <4>2, <4>4
      <4>6. Len(y) \in Nat
        BY <4>3, <4>5
      <4>7. CASE Len(x) > 2
        <5>1. Len(y) + i1 <= n
          <6> DEFINE lx == Len(x)
                     ly == Len(y)
          <6>1. ly < lx /\ lx + i <= n /\ lx \in Nat /\ ly \in Nat
            <7>1. ly < lx /\ lx \in Nat
              BY <4>3, <4>5, <4>7, Zenon
            <7>2. (lx = 2 \/ lx + i <= n) /\ lx > 2 /\ ly \in Nat
              BY <4>2, <4>6, <4>7, Zenon
            <7> HIDE DEF lx, ly
            <7> QED
              BY <7>1, <7>2
          <6> HIDE DEF lx, ly
          <6>2. ly + i1 <= n
            BY <1>1, <6>1
          <6> QED
            BY <6>2, Zenon DEF ly
        <5> HIDE DEF D, step
        <5> QED
          BY <4>3, <4>5, <5>1
      <4>8. CASE ~(Len(x) > 2)
        <5>1. y = x
          BY <4>4, <4>8
        <5>2. Len(x) = 2
          <6> DEFINE k == Len(x)
          <6>1. k \in Nat /\ k >= 2 /\ ~(k > 2)
            BY <4>3, <4>8
          <6> HIDE DEF k
          <6>2. k = 2
            BY <6>1
          <6> QED
            BY <6>2 DEF k
        <5> HIDE DEF D, step
        <5> QED
          BY <4>2, <5>1, <5>2
      <4> QED
        BY <4>7, <4>8, Zenon
    <3> HIDE DEF i1, Good
    <3>3. i1 \in S
      BY <3>1, <3>2
    <3> QED
      BY <3>3 DEF i1
  <2>3. \A i \in Nat : i \in S
    <3> HIDE DEF S
    <3> QED
      BY <2>1, <2>2, Induction
  <2> HIDE DEF Good
  <2> QED
    BY <1>1, <2>3
<1>11. Good(n)
  <2> HIDE DEF Good
  <2> QED
    BY <1>1, <1>10
<1>12. turn[n] \in D /\ Len(turn[n]) = 2
  <2>1. turn[n] \in D /\ (Len(turn[n]) = 2 \/ Len(turn[n]) + n <= n)
    BY <1>11
  <2>2. Len(turn[n]) \in Nat /\ Len(turn[n]) >= 2
    <3> HIDE DEF D, step
    <3> QED
      BY <1>3, <2>1
  <2> DEFINE k == Len(turn[n])
  <2>3. k = 2
    <3>1. k \in Nat /\ k >= 2 /\ (k = 2 \/ k + n <= n)
      BY <2>1, <2>2
    <3> HIDE DEF k
    <3> QED
      BY <1>1, <3>1
  <2> HIDE DEF D
  <2> QED
    BY <2>1, <2>3
<1>13. Hasher!CondenseToPair(list, key, flags) = turn[n]
  BY DEF Hasher!CondenseToPair, turn, Turn
<1> QED
  BY <1>12, <1>13 DEF Condensed

\* compress_subtree_to_parent_node has the values of the two children.
ChildrenAre(key, flags, degree, u, c, len, j) ==
  Hasher!CompressSubtreeToParentNode(Cut(u, c * CHUNK_LEN, len), key, c, flags, degree)
    = <<Subtree(key, flags, u, c, Tall(j)), Subtree(key, flags, u, c + 2 ^ j, len - Tall(j))>>

\* A part's value is one of those compression gives.
LEMMA SubtreeValue ==
  ASSUME NEW key, NEW flags, NEW u \in Units, NEW c \in Nat, Hasher!SizesAssumption,
         NEW len \in Nat
  PROVE  Subtree(key, flags, u, c, len) \in Vals(key, flags)
<1>1. CHUNK_LEN \in Nat \ {0} /\ Hasher!BLOCK_LEN = 2
  BY SizesAre
<1>2. CASE len = 0
  <2>1. SubtreeOfLeaf(key, flags, u, c, len)
    <3>1. len \in 0 .. CHUNK_LEN
      BY <1>1, <1>2
    <3> QED
      BY <1>1, <3>1, SubtreeLeaf
  <2>2. Leaf(key, flags, u, c, len) \in Vals(key, flags)
    BY <1>1, LeafIs
  <2> QED
    BY <2>1, <2>2 DEF SubtreeOfLeaf
<1>3. CASE len # 0
  <2> DEFINE t == Full(len)
             x == LastOf(len)
  <2>1. t \in Nat /\ x \in 0 .. CHUNK_LEN /\ len = t * CHUNK_LEN + x /\ (x = 0 <=> len = 0)
    BY <1>1, FullIs
  <2> HIDE DEF t, x
  <2>2. x \in 1 .. CHUNK_LEN
    BY <1>1, <1>3, <2>1
  <2>3. SubtreeOver(key, flags, u, c, t, x)
    BY <1>1, <2>1, <2>2, SubtreeIs
  <2> QED
    BY <2>1, <2>3 DEF SubtreeOver
<1> QED
  BY <1>2, <1>3

\* For any input of more than one chunk
LEMMA ChildrenFound ==
  ASSUME NEW key, NEW flags, NEW degree, NEW u \in Units, NEW c \in Nat, Hasher!SizesAssumption,
         Fits(degree), NEW len \in Nat, NEW j \in Nat, LeftIs(len, j)
  PROVE  ChildrenAre(key, flags, degree, u, c, len, j)
<1> DEFINE V == Vals(key, flags)
           merge == Merge(key, flags)
           l == CHUNK_LEN
           input == Cut(u, c * l, len)
           list == Hasher!CompressSubtreeWide(input, key, c, flags, degree)
           pair == Hasher!CondenseToPair(list, key, flags)
           v == Subtree(key, flags, u, c, len)
           p == 2 ^ j
           T == Tall(j)
           r == len - T
           x == Subtree(key, flags, u, c, T)
           y == Subtree(key, flags, u, c + p, r)
<1>1. l \in Nat \ {0} /\ Hasher!BLOCK_LEN = 2 /\ c * l \in Nat
  BY SizesAre
<1>2. T < len /\ len <= 2 * T /\ T \in Nat /\ T >= l
  BY DEF LeftIs
<1>3. r \in 1 .. T /\ r \in Nat /\ len = T + r /\ len > l
  <2> HIDE DEF T
  <2> QED
    BY <1>1, <1>2
<1>4. p \in Nat
  BY TallIs
<1>5. Len(input) = len
  BY <1>1, CutIs DEF IsCut
<1>6. WideClaim(key, flags, u, c, len, Wide(degree), list)
  <2>1. len \in Nat \ {0}
    <3> HIDE DEF T
    <3> QED
      BY <1>1, <1>3
  <2>2. WideHas(key, flags, degree, u, c, len)
    BY <2>1, SubtreeWide
  <2> QED
    BY <2>2 DEF WideHas
<1> HIDE DEF list
<1>7. Listed(V, merge, list, v) /\ Len(list) >= 2 /\ Len(list) \in 1 .. Wide(degree)
  BY <1>3, <1>6 DEF WideClaim
<1>8. MaxSimdDegree \in Nat /\ Len(list) <= 2 * Hasher!MaxSimdDegreeOr2
  <2> DEFINE M == Hasher!MaxSimdDegreeOr2
             n == Len(list)
  <2>1. MaxSimdDegree \in Nat
    BY DEF Fits
  <2>2. M \in Nat
    BY <2>1 DEF Hasher!MaxSimdDegreeOr2, Hasher!Longer
  <2>3. Wide(degree) \in Nat /\ Wide(degree) <= M
    BY WidePower DEF WideIsPower
  <2>4. n \in 1 .. Wide(degree)
    BY <1>7
  <2> HIDE DEF M, n
  <2>5. n <= 2 * M
    BY <2>2, <2>3, <2>4
  <2> QED
    BY <2>1, <2>5 DEF M, n
<1>9. Condensed(key, flags, v, pair)
  <2> HIDE DEF v
  <2> QED
    BY <1>1, <1>7, <1>8, CondensedToPair
<1>10. Listed(V, merge, pair, v) /\ Len(pair) = 2
  BY <1>9 DEF Condensed
<1> HIDE DEF pair, v, x, y, r
<1>11. merge \in [V -> [V -> V]]
  BY MergeIs, Zenon DEF Merges
<1>12. pair[1] \in V /\ pair[2] \in V /\ v = merge[pair[1]][pair[2]] /\ pair = <<pair[1], pair[2]>>
  <2> HIDE DEF V, merge
  <2> QED
    BY <1>10, <1>11, PairListed
<1>13. v = merge[x][y]
  <2>1. SubtreeParent(key, flags, u, c, j, r)
    BY <1>3, SubtreeSplits
  <2> QED
    BY <1>3, <2>1 DEF SubtreeParent, v, x, y
<1>14. x \in V /\ y \in V
  <2>1. c + p \in Nat
    <3> HIDE DEF p
    <3> QED
      BY <1>4
  <2> DEFINE b == c + p
  <2>2. b \in Nat
    BY <2>1
  <2> HIDE DEF b
  <2>3. Subtree(key, flags, u, c, T) \in V
    <3> HIDE DEF T
    <3> QED
      BY <1>2, SubtreeValue
  <2>4. Subtree(key, flags, u, b, r) \in V
    BY <1>3, <2>2, SubtreeValue
  <2> QED
    BY <2>3, <2>4 DEF x, y, b
<1>15. pair[1] = x /\ pair[2] = y
  <2> DEFINE a == pair[1]
             b == pair[2]
  <2>1. merge[a][b] = merge[x][y] /\ a \in V /\ b \in V
    BY <1>12, <1>13
  <2> HIDE DEF a, b
  <2>2. a = x /\ b = y
    BY <1>14, <2>1, MergeTells
  <2> QED
    BY <2>2 DEF a, b
<1>16. pair = <<x, y>>
  BY <1>12, <1>15
<1>17. Hasher!CompressSubtreeToParentNode(input, key, c, flags, degree) = pair
  <2> HIDE DEF input
  <2> QED
    BY <1>3, <1>5, <1>7 DEF Hasher!CompressSubtreeToParentNode, Hasher!Asserting, list, pair
<1> QED
  BY <1>16, <1>17 DEF ChildrenAre, x, y, r

\* Of a complete subtree, they are the halves.
HalvesAre(key, flags, degree, u, c, i) ==
  Hasher!CompressSubtreeToParentNode(Cut(u, c * CHUNK_LEN, Tall(i + 1)), key, c, flags, degree)
    = <<Subtree(key, flags, u, c, Tall(i)), Subtree(key, flags, u, c + 2 ^ i, Tall(i))>>

\* For a complete subtree of more than one chunk
LEMMA HalvesFound ==
  ASSUME NEW key, NEW flags, NEW degree, NEW u \in Units, NEW c \in Nat, Hasher!SizesAssumption,
         Fits(degree), NEW i \in Nat
  PROVE  HalvesAre(key, flags, degree, u, c, i)
<1> DEFINE k == i + 1
           T == Tall(i)
           len == Tall(i + 1)
<1>1. CHUNK_LEN \in Nat \ {0}
  BY SizesAre
<1>2. T \in Nat /\ T >= CHUNK_LEN /\ len = 2 * T
  BY TallIs
<1> HIDE DEF T, len
<1>3. len \in Nat /\ len > CHUNK_LEN /\ len - T = T
  BY <1>1, <1>2
<1>4. LeftIs(len, i)
  <2> DEFINE m == (len + 1) \div 2
  <2>1. m = T
    BY <1>2
  <2> HIDE DEF m
  <2>2. T < 2 * T /\ T <= T
    BY <1>1, <1>2
  <2>3. Hasher!NextPowerOfTwo[m] = T
    BY <1>2, <2>1, <2>2, NextPowerIsTall DEF T
  <2>4. Hasher!LeftSubtreeLen(len) = T
    BY <1>3, <2>3 DEF Hasher!LeftSubtreeLen, Hasher!Asserting, m
  <2>5. T < len /\ len <= 2 * T
    BY <1>1, <1>2
  <2> QED
    BY <1>2, <2>4, <2>5 DEF LeftIs, T
<1>5. ChildrenAre(key, flags, degree, u, c, len, i)
  BY <1>3, <1>4, ChildrenFound
<1> QED
  BY <1>3, <1>5 DEF ChildrenAre, HalvesAre, len, T

(***************************************************************************)
(* Nodes: what a value is the compression of.                              *)
(***************************************************************************)
\* The node o, compressed, gives the value v.
IsNode(o, v) ==
  \E cv, block, len, c, flags : /\ o = Hasher!Output(cv, block, len, c, flags)
                                /\ v = Hasher!Compress(cv, block, len, c, flags)

\* A value has one node, and both have one counter.
LEMMA OneNode ==
  ASSUME NEW o, NEW p, NEW v, IsNode(o, v), IsNode(p, v)
  PROVE  o = p
<1>1. PICK cv, block, len, c, flags : /\ o = Hasher!Output(cv, block, len, c, flags)
                                      /\ v = Hasher!Compress(cv, block, len, c, flags)
  BY Zenon DEF IsNode
<1>2. PICK cv2, block2, len2, c2, flags2 : /\ p = Hasher!Output(cv2, block2, len2, c2, flags2)
                                           /\ v = Hasher!Compress(cv2, block2, len2, c2, flags2)
  BY DEF IsNode
<1>3. cv = cv2 /\ block = block2 /\ len = len2 /\ c = c2 /\ flags = flags2
  BY <1>1, <1>2 DEF Hasher!Compress
<1> QED
  BY <1>1, <1>2, <1>3

\* Compressing the node gives the value.
LEMMA NodeIs ==
  ASSUME NEW o, NEW v, IsNode(o, v)
  PROVE  Hasher!ChainingValue(o) = v /\ o.counter = v.counter
<1>1. PICK cv, block, len, c, flags : /\ o = Hasher!Output(cv, block, len, c, flags)
                                      /\ v = Hasher!Compress(cv, block, len, c, flags)
  BY DEF IsNode
<1>2. /\ o.input_chaining_value = cv /\ o.block = block /\ o.block_len = len
      /\ o.counter = c /\ o.flags = flags
  BY <1>1 DEF Hasher!Output
<1>3. v.counter = c
  BY <1>1 DEF Hasher!Compress
<1> QED
  BY <1>1, <1>2, <1>3 DEF Hasher!ChainingValue

\* What the root's hash is
LEMMA RootIs ==
  ASSUME NEW o, NEW v, IsNode(o, v), v.counter = 0
  PROVE  Hasher!RootHash(o) = Hasher!Ref!RootOutputBlock(o, 0)
<1>1. o.counter = 0
  BY NodeIs
<1> QED
  BY <1>1 DEF Hasher!RootHash, Hasher!Asserting, Hasher!Ref!RootOutputBlock,
    Hasher!Compress, Hasher!Ref!Compress

\* The node of a chunk
LEMMA LeafNode ==
  ASSUME NEW key, NEW flags, NEW u \in Units, NEW c \in Nat, Hasher!SizesAssumption, NEW n \in Nat
  PROVE  IsNode(LeafOut(key, flags, u, c, n), Leaf(key, flags, u, c, n))
<1> DEFINE cv == BlockCv(key, flags, u, c)[Blocks(n)]
           block == Hasher!Padded(Cut(u, c * CHUNK_LEN + 2 * Blocks(n), n - 2 * Blocks(n)))
           len == n - 2 * Blocks(n)
           marks == flags \cup (IF Blocks(n) = 0 THEN {"CHUNK_START"} ELSE {}) \cup {"CHUNK_END"}
<1>1. CHUNK_LEN \in Nat /\ Hasher!BLOCK_LEN = 2
  BY SizesAre
<1>2. LeafCompressed(key, flags, u, c, n)
  BY <1>1, LeafIs, Zenon
<1>3. Leaf(key, flags, u, c, n) = Hasher!Compress(cv, block, len, c, marks)
  BY <1>2 DEF LeafCompressed
<1>4. LeafOut(key, flags, u, c, n) = Hasher!Output(cv, block, len, c, marks)
  BY DEF LeafOut
<1> HIDE DEF cv, block, len, marks
<1> QED
  BY <1>3, <1>4 DEF IsNode

\* The node of a parent, the same for the hasher and for the reference
LEMMA ParentNode ==
  ASSUME NEW key, NEW flags, NEW a \in Vals(key, flags), NEW b \in Vals(key, flags)
  PROVE  /\ IsNode(Hasher!ParentNodeOutput(a, b, key, flags), Merge(key, flags)[a][b])
         /\ Hasher!Ref!ParentOutput(a, b, key, flags) = Hasher!ParentNodeOutput(a, b, key, flags)
         /\ Hasher!ChainingValue(Hasher!ParentNodeOutput(a, b, key, flags))
              = Merge(key, flags)[a][b]
         /\ Merge(key, flags)[a][b].counter = 0
<1> DEFINE marks == flags \cup {"PARENT"}
           len == Hasher!BLOCK_LEN
           v == Merge(key, flags)[a][b]
           o == Hasher!ParentNodeOutput(a, b, key, flags)
<1>1. v = Hasher!Compress(key, <<a, b>>, len, 0, marks)
  BY MergeIs DEF Merges
<1>2. o = Hasher!Output(key, <<a, b>>, len, 0, marks)
  BY DEF Hasher!ParentNodeOutput
<1>3. Hasher!Ref!ParentOutput(a, b, key, flags) = o
  <2>1. {"PARENT"} \cup flags = marks
    OBVIOUS
  <2>2. Hasher!Ref!ParentOutput(a, b, key, flags) = Hasher!Output(key, <<a, b>>, len, 0, {"PARENT"} \cup flags)
    BY DEF Hasher!Ref!ParentOutput, Hasher!Ref!Output, Hasher!Output, Hasher!Ref!BLOCK_LEN,
      Hasher!Ref!OUT_LEN, Hasher!BLOCK_LEN, Hasher!OUT_LEN
  <2> HIDE DEF marks, len
  <2> QED
    BY <1>2, <2>1, <2>2
<1> HIDE DEF marks, len, v, o
<1>4. IsNode(o, v)
  BY <1>1, <1>2 DEF IsNode
<1>5. Hasher!ChainingValue(o) = v
  BY <1>4, NodeIs
<1>6. v.counter = 0
  BY <1>1 DEF Hasher!Compress
<1> QED
  BY <1>3, <1>4, <1>5, <1>6 DEF o, v

\* The value of the whole input has the counter of its first chunk.
LEMMA WholeCounter ==
  ASSUME NEW key, NEW flags, NEW u \in Units, Hasher!SizesAssumption, NEW len \in Nat
  PROVE  Subtree(key, flags, u, 0, len).counter = 0
<1> DEFINE z == 0
<1>1. CHUNK_LEN \in Nat \ {0} /\ Hasher!BLOCK_LEN = 2 /\ z \in Nat
  BY SizesAre
<1>2. CASE len <= CHUNK_LEN
  <2>1. SubtreeOfLeaf(key, flags, u, z, len)
    <3>1. len \in 0 .. CHUNK_LEN
      BY <1>1, <1>2
    <3> HIDE DEF z
    <3> QED
      BY <1>1, <3>1, SubtreeLeaf
  <2>2. LeafCompressed(key, flags, u, z, len)
    <3> HIDE DEF z
    <3> QED
      BY <1>1, LeafIs
  <2>3. Leaf(key, flags, u, z, len).counter = z
    <3> HIDE DEF z
    <3> QED
      BY <2>2 DEF LeafCompressed, Hasher!Compress
  <2> QED
    BY <2>1, <2>3 DEF SubtreeOfLeaf
<1>3. CASE ~(len <= CHUNK_LEN)
  <2>1. PICK j \in Nat : LeftIs(len, j)
    BY <1>1, <1>3, LeftParts
  <2> DEFINE T == Tall(j)
             r == len - T
             p == 2 ^ j
             zp == z + p
             x == Subtree(key, flags, u, z, T)
             y == Subtree(key, flags, u, zp, r)
  <2>2. T < len /\ len <= 2 * T /\ T \in Nat
    BY <2>1 DEF LeftIs
  <2>3. p \in Nat
    BY TallIs
  <2>4. r \in 1 .. T /\ r \in Nat /\ len = T + r
    <3> HIDE DEF T
    <3> QED
      BY <2>2
  <2>5. zp \in Nat
    <3> HIDE DEF p
    <3> QED
      BY <1>1, <2>3
  <2> HIDE DEF r
  <2>6. SubtreeParent(key, flags, u, z, j, r)
    <3> HIDE DEF z
    <3> QED
      BY <1>1, <2>4, SubtreeSplits
  <2>7. Subtree(key, flags, u, z, len) = Merge(key, flags)[x][y]
    <3> HIDE DEF z
    <3> QED
      BY <2>4, <2>6 DEF SubtreeParent
  <2>8. x \in Vals(key, flags) /\ y \in Vals(key, flags)
    <3> HIDE DEF z, zp, T
    <3> QED
      BY <1>1, <2>2, <2>4, <2>5, SubtreeValue
  <2>9. Merge(key, flags)[x][y].counter = 0
    <3> HIDE DEF x, y
    <3> QED
      BY <2>8, ParentNode
  <2> QED
    BY <2>7, <2>9
<1> QED
  BY <1>2, <1>3

\* hash_all_at_once has the node of the tree over the whole input.
AtOnceIs(key, flags, degree, u, len) ==
  IsNode(Hasher!HashAllAtOnce(Cut(u, 0, len), key, flags, degree), Subtree(key, flags, u, 0, len))

\* For any input and any degree
LEMMA AllAtOnce ==
  ASSUME NEW key, NEW flags, NEW degree, NEW u \in Units, Hasher!SizesAssumption,
         Fits(degree), NEW len \in Nat
  PROVE  AtOnceIs(key, flags, degree, u, len)
<1> DEFINE l == CHUNK_LEN
           z == 0
           input == Cut(u, z * l, len)
           v == Subtree(key, flags, u, z, len)
           o == Hasher!HashAllAtOnce(input, key, flags, degree)
<1>1. l \in Nat \ {0} /\ Hasher!BLOCK_LEN = 2 /\ z \in Nat /\ z * l = 0
  BY SizesAre
<1>2. Len(input) = len
  <2>1. IsCut(u, z * l, len, input)
    BY <1>1, CutIs
  <2> QED
    BY <2>1 DEF IsCut
<1>3. IsNode(o, v)
  <2>1. CASE len <= l
    <3> DEFINE s == Hasher!UpdateChunk(Hasher!NewChunkState(key, z, flags, degree), input)
    <3>1. Hasher!NewChunkState(key, z, flags, degree) = ChunkOf(key, flags, degree, u, z, 0)
      <4> HIDE DEF z
      <4> QED
        BY <1>1, NewChunkIs
    <3>2. s = ChunkOf(key, flags, degree, u, z, len)
      <4> DEFINE n == 0
      <4>1. n \in Nat /\ n + len <= l /\ z * l + n = z * l /\ n + len = len
        BY <1>1, <2>1
      <4>2. UpdatesChunk(key, flags, degree, u, z, n, len)
        <5> HIDE DEF n, z
        <5> QED
          BY <1>1, <4>1, ChunkUpdated
      <4>3. Hasher!NewChunkState(key, z, flags, degree) = ChunkOf(key, flags, degree, u, z, n)
        BY <3>1
      <4> HIDE DEF n, z
      <4> QED
        BY <4>1, <4>2, <4>3 DEF UpdatesChunk
    <3>3. o = Hasher!ChunkOutput(s)
      <4>1. Hasher!NewChunkState(key, z, flags, degree) = Hasher!NewChunkState(key, 0, flags, degree)
        OBVIOUS
      <4> HIDE DEF input
      <4> QED
        BY <1>2, <2>1 DEF Hasher!HashAllAtOnce
    <3>4. Hasher!ChunkOutput(ChunkOf(key, flags, degree, u, z, len)) = LeafOut(key, flags, u, z, len)
      <4> HIDE DEF z
      <4> QED
        BY <1>1, LeafOutIs
    <3>5. IsNode(LeafOut(key, flags, u, z, len), Leaf(key, flags, u, z, len))
      <4> HIDE DEF z
      <4> QED
        BY <1>1, LeafNode
    <3>6. SubtreeOfLeaf(key, flags, u, z, len)
      <4>1. len \in 0 .. CHUNK_LEN
        BY <1>1, <2>1
      <4> HIDE DEF z
      <4> QED
        BY <1>1, <4>1, SubtreeLeaf
    <3> HIDE DEF s, z, o
    <3> QED
      BY <3>2, <3>3, <3>4, <3>5, <3>6 DEF SubtreeOfLeaf
  <2>2. CASE ~(len <= l)
    <3>1. PICK j \in Nat : LeftIs(len, j)
      BY <1>1, <2>2, LeftParts
    <3> DEFINE T == Tall(j)
               r == len - T
               p == 2 ^ j
               zp == z + p
               x == Subtree(key, flags, u, z, T)
               y == Subtree(key, flags, u, zp, r)
    <3>2. T < len /\ len <= 2 * T /\ T \in Nat
      BY <3>1 DEF LeftIs
    <3>3. p \in Nat
      BY TallIs
    <3>4. r \in 1 .. T /\ r \in Nat /\ len = T + r
      <4> HIDE DEF T
      <4> QED
        BY <3>2
    <3>5. zp \in Nat
      <4> HIDE DEF p
      <4> QED
        BY <1>1, <3>3
    <3>6. v = Merge(key, flags)[x][y]
      <4>1. SubtreeParent(key, flags, u, z, j, r)
        <5> HIDE DEF z, r
        <5> QED
          BY <1>1, <3>4, SubtreeSplits
      <4> HIDE DEF z, r
      <4> QED
        BY <3>4, <4>1 DEF SubtreeParent
    <3>7. x \in Vals(key, flags) /\ y \in Vals(key, flags)
      <4> HIDE DEF z, zp, T, r
      <4> QED
        BY <1>1, <3>2, <3>4, <3>5, SubtreeValue
    <3>8. Hasher!CompressSubtreeToParentNode(input, key, z, flags, degree) = <<x, y>>
      <4>1. ChildrenAre(key, flags, degree, u, z, len, j)
        <5> HIDE DEF z
        <5> QED
          BY <1>1, <3>1, ChildrenFound
      <4> HIDE DEF z
      <4> QED
        BY <4>1 DEF ChildrenAre
    <3>9. o = Hasher!Output(key, Hasher!CompressSubtreeToParentNode(input, key, 0, flags, degree),
                            Hasher!BLOCK_LEN, 0, flags \cup {"PARENT"})
      <4> HIDE DEF input
      <4> QED
        BY <1>2, <2>2 DEF Hasher!HashAllAtOnce
    <3>10. o = Hasher!ParentNodeOutput(x, y, key, flags)
      <4>1. z = 0
        OBVIOUS
      <4> HIDE DEF input, x, y, o, z
      <4> QED
        BY <3>8, <3>9, <4>1 DEF Hasher!ParentNodeOutput
    <3> HIDE DEF x, y, o, v
    <3> QED
      BY <3>6, <3>7, <3>10, ParentNode
  <2> QED
    BY <2>1, <2>2
<1>4. z * l = 0
  BY <1>1
<1> QED
  BY <1>3, <1>4 DEF AtOnceIs

(***************************************************************************)
(* The stack of chaining values.                                           *)
(***************************************************************************)
\* The Hasher with these fields
AHasher(key, cs, initial, st) ==
  [key |-> key, chunk_state |-> cs, initial_chunk_counter |-> initial, cv_stack |-> st]

\* The two topmost, merged
TopIs(key, flags, st, a, x) ==
  Hasher!MergeTopTwo(Append(Append(st, a), x), key, flags)
    = Append(st, Merge(key, flags)[a][x])

\* merge_cv_stack_until_len merges a left child with its right sibling.
LEMMA TopMerged ==
  ASSUME NEW key, NEW flags, NEW st \in Seq(Vals(key, flags)),
         NEW a \in Vals(key, flags), NEW x \in Vals(key, flags)
  PROVE  TopIs(key, flags, st, a, x)
<1> DEFINE V == Vals(key, flags)
           all == Append(Append(st, a), x)
           n == Len(st)
           v == Hasher!ChainingValue(Hasher!ParentNodeOutput(a, x, key, flags))
<1>1. v = Merge(key, flags)[a][x]
  BY ParentNode
<1> HIDE DEF v, V
<1>2. n \in Nat
  BY DEF V
<1>3. Len(all) = n + 2 /\ all[n + 1] = a /\ all[n + 2] = x
  BY DEF V
<1>4. SubSeq(all, 1, n) = st
  <2> DEFINE one == Append(st, a)
             low == SubSeq(all, 1, n)
  <2>1. one \in Seq(V) /\ Len(one) = n + 1 /\ \A i \in 1 .. n : one[i] = st[i]
    BY DEF V
  <2>2. all \in Seq(V) /\ Len(all) = n + 2 /\ \A i \in 1 .. n + 1 : all[i] = one[i]
    <3>1. x \in V
      BY DEF V
    <3> HIDE DEF one
    <3>2. Append(one, x) \in Seq(V) /\ Len(Append(one, x)) = Len(one) + 1
          /\ \A i \in 1 .. Len(one) : Append(one, x)[i] = one[i]
      BY <2>1, <3>1, AppendProperties
    <3>3. all = Append(one, x) /\ n + 1 + 1 = n + 2
      BY <1>2 DEF one
    <3> HIDE DEF all, n
    <3> QED
      BY <2>1, <3>2, <3>3
  <2> HIDE DEF one, all
  <2>3. low \in Seq(V) /\ Len(low) = n /\ \A i \in 1 .. n : low[i] = all[i]
    <3>1. 1 <= n + 1 /\ n <= Len(all)
      BY <1>2, <2>2
    <3> HIDE DEF n
    <3>2. /\ SubSeq(all, 1, n) \in Seq(V)
          /\ Len(SubSeq(all, 1, n)) = n - 1 + 1
          /\ \A i \in 1 .. n - 1 + 1 : SubSeq(all, 1, n)[i] = all[1 + i - 1]
      BY <1>2, <2>2, <3>1, Part
    <3>3. n - 1 + 1 = n /\ \A i \in 1 .. n : 1 + i - 1 = i
      BY <1>2
    <3> QED
      BY <3>2, <3>3
  <2> HIDE DEF low
  <2>4. \A i \in 1 .. n : low[i] = st[i]
    <3>1. \A i \in 1 .. n : i \in 1 .. n + 1
      BY <1>2
    <3> QED
      BY <2>1, <2>2, <2>3, <3>1, Zenon
  <2>5. st \in Seq(V)
    BY DEF V
  <2>6. low = st
    BY <2>3, <2>4, <2>5, SameSeq
  <2> QED
    BY <2>6 DEF low
<1> HIDE DEF all
<1>5. Len(all) - 2 = n /\ Len(all) - 1 = n + 1
  <2> HIDE DEF n
  <2> QED
    BY <1>2, <1>3
<1>6. Hasher!MergeTopTwo(all, key, flags) = Append(SubSeq(all, 1, n), v)
  <2>1. Hasher!MergeTopTwo(all, key, flags)
          = Append(SubSeq(all, 1, Len(all) - 2),
                   Hasher!ChainingValue(
                     Hasher!ParentNodeOutput(all[Len(all) - 1], all[Len(all)], key, flags)))
    BY DEF Hasher!MergeTopTwo, Hasher!Taken
  <2> HIDE DEF n
  <2> QED
    BY <1>3, <1>5, <2>1, Zenon DEF v
<1> QED
  BY <1>1, <1>4, <1>6 DEF TopIs, all

\* The stack after each of m merges
MergesTops(st, key, flags, m, f) ==
  f = [n \in 0 .. m |-> IF n = 0 THEN st ELSE Hasher!MergeTopTwo(f[n - 1], key, flags)]

\* There is such a stack after each of any number of merges.
LEMMA MergesExist ==
  ASSUME NEW st, NEW key, NEW flags, NEW m \in Nat
  PROVE  \E f : MergesTops(st, key, flags, m, f)
<1> DEFINE Next1(x) == Hasher!MergeTopTwo(x, key, flags)
           Run(k, f) == f = [n \in 0 .. k |-> IF n = 0 THEN st ELSE Next1(f[n - 1])]
           S == {k \in Nat : \E f : Run(k, f)}
<1> HIDE DEF Next1
<1>1. 0 \in S
  <2> DEFINE f == [n \in 0 .. 0 |-> st]
  <2>1. Run(0, f)
    OBVIOUS
  <2> QED
    BY <2>1, Zenon
<1>2. ASSUME NEW k \in Nat, k \in S PROVE k + 1 \in S
  <2>1. PICK f : Run(k, f)
    BY <1>2
  <2> DEFINE g == [n \in 0 .. k + 1 |-> IF n <= k THEN f[n] ELSE Next1(f[k])]
  <2>2. (\A n \in 0 .. k : g[n] = f[n]) /\ g[k + 1] = Next1(f[k])
    OBVIOUS
  <2>3. \A n \in 0 .. k : f[n] = IF n = 0 THEN st ELSE Next1(f[n - 1])
    BY <2>1
  <2>4. ASSUME NEW n \in 0 .. k + 1 PROVE g[n] = IF n = 0 THEN st ELSE Next1(g[n - 1])
    <3> HIDE DEF g
    <3>1. n # 0 => n - 1 \in 0 .. k
      OBVIOUS
    <3>2. CASE n <= k
      BY <2>2, <2>3, <3>1, <3>2
    <3>3. CASE n = k + 1
      BY <2>2, <3>1, <3>3
    <3> QED
      BY <3>2, <3>3
  <2>5. g = [n \in 0 .. k + 1 |-> g[n]]
    OBVIOUS
  <2>6. Run(k + 1, g)
    <3> HIDE DEF g
    <3> QED
      BY <2>4, <2>5, Zenon
  <2> HIDE DEF g, Run
  <2> QED
    BY <2>6
<1>3. \A k \in Nat : k \in S
  <2> HIDE DEF S
  <2> QED
    BY <1>1, <1>2, Induction
<1>4. PICK f : Run(m, f)
  BY <1>3, Zenon
<1> QED
  BY <1>4 DEF Next1, MergesTops

\* merge_cv_stack_until_len, where anything is to be merged
DownIs(key, cs, initial, st, a, times) ==
  Hasher!MergeDownTo(AHasher(key, cs, initial, Append(st, a)), Len(st) + 1 - times)
    = AHasher(key, cs, initial,
              Merged(Vals(key, cs.flags), Merge(key, cs.flags), st, a, times))

\* By induction on the merges
LEMMA DownTo ==
  ASSUME NEW key, NEW cs, NEW initial, NEW st \in Seq(Vals(key, cs.flags)),
         NEW a \in Vals(key, cs.flags), NEW times \in 0 .. Len(st)
  PROVE  DownIs(key, cs, initial, st, a, times)
<1> DEFINE V == Vals(key, cs.flags)
           merge == Merge(key, cs.flags)
           flags == cs.flags
           all == Append(st, a)
           size == Len(st) + 1 - times
           h == AHasher(key, cs, initial, all)
           merges == IF Len(all) > size THEN Len(all) - size ELSE 0
           after == CHOOSE f : MergesTops(all, key, flags, merges, f)
           R(n) == Merged(V, merge, st, a, n)
<1>1. Len(st) \in Nat /\ times \in Nat /\ Len(all) = Len(st) + 1 /\ merges = times
  OBVIOUS
<1>2. merge \in [V -> [V -> V]] /\ st \in Seq(V) /\ a \in V
  BY MergeIs, Zenon DEF Merges
<1>3. Hasher!MergeDownTo(h, size) = [h EXCEPT !.cv_stack = after[merges]]
  <2>1. h.cv_stack = all /\ h.key = key /\ h.chunk_state.flags = flags
    BY DEF AHasher
  <2> HIDE DEF h, size, all, flags
  <2> QED
    BY <2>1 DEF Hasher!MergeDownTo, MergesTops
<1>4. [h EXCEPT !.cv_stack = after[merges]] = AHasher(key, cs, initial, after[merges])
  <2> HIDE DEF after, merges, all
  <2> QED
    BY DEF AHasher
<1> HIDE DEF h
<1>5. MergesTops(all, key, flags, merges, after)
  <2>1. \E f : MergesTops(all, key, flags, merges, f)
    <3> HIDE DEF all, flags
    <3>1. merges \in Nat
      BY <1>1
    <3> HIDE DEF merges
    <3> QED
      BY <3>1, MergesExist, Zenon
  <2> HIDE DEF all, flags, merges
  <2> QED
    BY <2>1
<1> HIDE DEF after
<1>6. after[0] = all /\ \A n \in 1 .. times : after[n] = Hasher!MergeTopTwo(after[n - 1], key, flags)
  <2>1. after = [n \in 0 .. times |->
                   IF n = 0 THEN all ELSE Hasher!MergeTopTwo(after[n - 1], key, flags)]
    <3>1. merges = times
      BY <1>1
    <3> HIDE DEF merges, all, flags
    <3> QED
      BY <1>5, <3>1 DEF MergesTops
  <2>2. 0 \in 0 .. times /\ \A n \in 1 .. times : n \in 0 .. times /\ n # 0
    BY <1>1
  <2> HIDE DEF all, flags
  <2> QED
    BY <2>1, <2>2
<1> HIDE DEF merges
<1> DEFINE S == {n \in Nat : n <= times => after[n] = R(n)}
<1>7. 0 \in S
  <2>1. R(0) = all
    <3>1. Fold(V, merge, st, a)[0] = a
      <4>1. Folds(V, merge, st, a, Fold(V, merge, st, a))
        BY <1>2, FoldIs
      <4> HIDE DEF V, merge
      <4> QED
        BY <4>1 DEF Folds
    <3>2. Len(st) - 0 = Len(st)
      BY <1>1
    <3>3. SubSeq(st, 1, Len(st)) = st
      <4> HIDE DEF V
      <4> QED
        BY <1>2
    <3> HIDE DEF V, merge
    <3> QED
      BY <3>1, <3>2, <3>3 DEF Merged
  <2> HIDE DEF all, R
  <2>2. 0 \in Nat
    OBVIOUS
  <2> QED
    BY <1>6, <2>1, <2>2
<1>8. ASSUME NEW n \in Nat, n \in S PROVE n + 1 \in S
  <2> DEFINE n1 == n + 1
  <2>1. n1 \in Nat /\ n1 - 1 = n
    OBVIOUS
  <2>2. ASSUME n1 <= times PROVE after[n1] = R(n1)
    <3>1. n < Len(st) /\ n <= times /\ n1 \in 1 .. times
      BY <1>1, <2>1, <2>2
    <3>2. MergedMore(V, merge, st, a, n)
      <4> HIDE DEF V, merge
      <4> QED
        BY <1>2, <3>1, OneMoreMerged
    <3>3. PICK low \in Seq(V), x \in V, y \in V :
            /\ R(n) = Append(Append(low, x), y)
            /\ R(n1) = Append(low, merge[x][y])
      <4> HIDE DEF V, merge
      <4> QED
        BY <3>2, Zenon DEF MergedMore
    <3>4. after[n] = R(n)
      BY <1>8, <3>1
    <3>5. TopIs(key, flags, low, x, y)
      BY TopMerged
    <3>6. after[n1] = Hasher!MergeTopTwo(after[n], key, flags)
      <4> HIDE DEF n1
      <4> QED
        BY <1>6, <2>1, <3>1
    <3> HIDE DEF n1, R, flags
    <3>7. after[n1] = Hasher!MergeTopTwo(Append(Append(low, x), y), key, flags)
      BY <3>3, <3>4, <3>6
    <3>8. Hasher!MergeTopTwo(Append(Append(low, x), y), key, flags) = Append(low, merge[x][y])
      BY <3>5 DEF TopIs, flags
    <3> QED
      BY <3>3, <3>7, <3>8
  <2> HIDE DEF n1, R
  <2>3. n1 \in S
    BY <2>1, <2>2
  <2> QED
    BY <2>3 DEF n1
<1>9. \A n \in Nat : n \in S
  <2> HIDE DEF S
  <2> QED
    BY <1>7, <1>8, Induction
<1>10. after[times] = R(times)
  <2> HIDE DEF R
  <2> QED
    BY <1>1, <1>9
<1>11. Hasher!MergeDownTo(h, size) = AHasher(key, cs, initial, R(times))
  BY <1>1, <1>3, <1>4, <1>10
<1> QED
  BY <1>11 DEF DownIs, h

\* Nothing to merge
LEMMA DownStays ==
  ASSUME NEW key, NEW cs, NEW initial, NEW V, NEW st \in Seq(V), NEW size \in Nat,
         Len(st) <= size
  PROVE  Hasher!MergeDownTo(AHasher(key, cs, initial, st), size) = AHasher(key, cs, initial, st)
<1> DEFINE flags == cs.flags
           h == AHasher(key, cs, initial, st)
           merges == IF Len(st) > size THEN Len(st) - size ELSE 0
           after == CHOOSE f : MergesTops(st, key, flags, merges, f)
<1>1. Len(st) \in Nat /\ merges = 0
  OBVIOUS
<1>2. Hasher!MergeDownTo(h, size) = [h EXCEPT !.cv_stack = after[merges]]
  <2>1. h.cv_stack = st /\ h.key = key /\ h.chunk_state.flags = flags
    BY DEF AHasher
  <2> HIDE DEF h, flags
  <2> QED
    BY <2>1 DEF Hasher!MergeDownTo, MergesTops
<1>3. [h EXCEPT !.cv_stack = after[merges]] = AHasher(key, cs, initial, after[merges])
  <2> HIDE DEF after, merges
  <2> QED
    BY DEF AHasher
<1> HIDE DEF h
<1>4. MergesTops(st, key, flags, merges, after)
  <2>1. \E f : MergesTops(st, key, flags, merges, f)
    <3> HIDE DEF flags
    <3>1. merges \in Nat
      BY <1>1
    <3> HIDE DEF merges
    <3> QED
      BY <3>1, MergesExist, Zenon
  <2> HIDE DEF flags, merges
  <2> QED
    BY <2>1
<1> HIDE DEF after
<1>5. after[merges] = st
  <2>1. merges = 0
    BY <1>1
  <2> HIDE DEF merges, flags
  <2> QED
    BY <1>4, <2>1 DEF MergesTops
<1> QED
  BY <1>2, <1>3, <1>5 DEF h

\* What waits when t whole chunks from b on are merged as far as they can be
StackOf(key, flags, u, b, t) ==
  Waits(Vals(key, flags), Merge(key, flags))[t][Leaves(key, flags, u, b)]

\* What waits when the last of m + 1 subtrees of 2^h chunks is not merged yet
LooseStack(key, flags, u, b, h, m) ==
  LET high == Up(Vals(key, flags), Merge(key, flags))[h][Leaves(key, flags, u, b)]
  IN  Append(Waits(Vals(key, flags), Merge(key, flags))[m][high], high[m])

\* One or the other, over t chunks
StackAt(key, flags, u, b, t, st) ==
  \/ st = StackOf(key, flags, u, b, t)
  \/ \E h, m \in Nat : t = (m + 1) * 2 ^ h /\ st = LooseStack(key, flags, u, b, h, m)

\* As many values wait as the number of chunks has ones.
LEMMA StackOfIs ==
  ASSUME NEW key, NEW flags, NEW u \in Units, NEW b \in Nat, Hasher!SizesAssumption, NEW t \in Nat
  PROVE  /\ StackOf(key, flags, u, b, t) \in Seq(Vals(key, flags))
         /\ Len(StackOf(key, flags, u, b, t)) = Hasher!CountOnes[t]
         /\ Hasher!CountOnes[t] \in Nat
<1> DEFINE V == Vals(key, flags)
           merge == Merge(key, flags)
           row == Leaves(key, flags, u, b)
<1>1. merge \in [V -> [V -> V]]
  BY MergeIs, Zenon DEF Merges
<1>2. row \in Row(V)
  <2>1. CHUNK_LEN \in Nat /\ Hasher!BLOCK_LEN = 2
    BY SizesAre
  <2> QED
    BY <2>1, LeavesAre
<1> HIDE DEF V, merge, row
<1>3. WaitsByPairs(V, merge, Waits(V, merge))
  BY <1>1, WaitsGrow
<1>4. Waits(V, merge)[t][row] \in Seq(V)
  BY <1>2, <1>3 DEF WaitsByPairs
<1>5. Len(Waits(V, merge)[t][row]) = Hasher!CountOnes[t]
  BY <1>1, <1>2, WaitsLength
<1>6. Hasher!CountOnes[t] \in Nat
  BY CountOnesIs
<1> QED
  BY <1>4, <1>5, <1>6 DEF StackOf, V, merge, row

\* What the loose stack consists of
LooseIs(key, flags, u, b, h, m, low, last) ==
  /\ low \in Seq(Vals(key, flags)) /\ last \in Vals(key, flags)
  /\ LooseStack(key, flags, u, b, h, m) = Append(low, last)
  /\ Len(low) = Hasher!CountOnes[m]
  /\ Hasher!CountOnes[m] \in Nat
  /\ Hasher!CountOnes[(m + 1) * 2 ^ h] = Hasher!CountOnes[m + 1]
  /\ Hasher!Ref!TrailingZeros[m + 1] \in 0 .. Len(low)
  /\ Merged(Vals(key, flags), Merge(key, flags), low, last, Hasher!Ref!TrailingZeros[m + 1])
       = StackOf(key, flags, u, b, (m + 1) * 2 ^ h)

\* The loose stack has a value on top, and below it what waits for it.
LEMMA LooseStackIs ==
  ASSUME NEW key, NEW flags, NEW u \in Units, NEW b \in Nat, Hasher!SizesAssumption,
         NEW h \in Nat, NEW m \in Nat
  PROVE  \E low, last : LooseIs(key, flags, u, b, h, m, low, last)
<1> DEFINE V == Vals(key, flags)
           merge == Merge(key, flags)
           row == Leaves(key, flags, u, b)
           high == Up(V, merge)[h][row]
           m1 == m + 1
           t == m1 * 2 ^ h
           low == Waits(V, merge)[m][high]
           last == high[m]
           zeros == Hasher!Ref!TrailingZeros[m1]
<1>1. merge \in [V -> [V -> V]]
  BY MergeIs, Zenon DEF Merges
<1>2. row \in Row(V)
  <2>1. CHUNK_LEN \in Nat /\ Hasher!BLOCK_LEN = 2
    BY SizesAre
  <2> QED
    BY <2>1, LeavesAre
<1>3. 2 ^ h \in Nat
  BY PowerIsCount, Zenon
<1>4. m1 \in Nat /\ t \in Nat
  <2> DEFINE p == 2 ^ h
  <2>1. p \in Nat
    BY <1>3
  <2> HIDE DEF p
  <2>2. m1 \in Nat /\ m1 * p \in Nat
    BY <2>1
  <2> QED
    BY <2>2 DEF p
<1>5. LooseStack(key, flags, u, b, h, m) = Append(low, last)
  BY DEF LooseStack
<1> HIDE DEF V, merge, row, t, m1
<1>6. high \in Row(V)
  <2>1. UpByRows(V, merge, Up(V, merge))
    BY <1>1, UpAbove
  <2> QED
    BY <1>2, <2>1 DEF UpByRows
<1>7. WaitsHigher(V, merge, h, m1, row)
  BY <1>1, <1>2, <1>4, WaitsRaised
<1> HIDE DEF high
<1>8. last \in V
  BY <1>6 DEF Row
<1>9. WaitsByPairs(V, merge, Waits(V, merge))
  BY <1>1, WaitsGrow
<1>10. low \in Seq(V)
  BY <1>6, <1>9 DEF WaitsByPairs
<1>11. Len(low) = Hasher!CountOnes[m]
  BY <1>1, <1>6, WaitsLength
<1>12. Waits(V, merge)[t][row] = Waits(V, merge)[m1][high]
  BY <1>7 DEF WaitsHigher, t, high
<1>13. Hasher!CountOnes[t] = Hasher!CountOnes[m1]
  <2>1. Len(Waits(V, merge)[t][row]) = Hasher!CountOnes[t]
    BY <1>1, <1>2, <1>4, WaitsLength
  <2>2. Len(Waits(V, merge)[m1][high]) = Hasher!CountOnes[m1]
    BY <1>1, <1>4, <1>6, WaitsLength
  <2> QED
    BY <1>12, <2>1, <2>2
<1>14. zeros \in 0 .. Len(low) /\ Merged(V, merge, low, last, zeros) = Waits(V, merge)[m1][high]
  <2>1. Carries(V, merge, m, high)
    BY <1>1, <1>6, Carried
  <2> QED
    BY <2>1 DEF Carries, m1
<1>15. Hasher!CountOnes[m] \in Nat
  BY CountOnesIs
<1>16. Waits(V, merge)[t][row] = StackOf(key, flags, u, b, t)
  BY DEF StackOf, V, merge, row
<1> HIDE DEF low, last, zeros
<1>17. LooseIs(key, flags, u, b, h, m, low, last)
  BY <1>5, <1>8, <1>10, <1>11, <1>12, <1>13, <1>14, <1>15, <1>16
    DEF LooseIs, V, merge, t, m1, zeros
<1> QED
  BY <1>17

\* merge_cv_stack merges all that can be.
LEMMA Settles ==
  ASSUME NEW key, NEW flags, NEW u \in Units, NEW b \in Nat, Hasher!SizesAssumption,
         NEW cs, cs.flags = flags, NEW t \in Nat, NEW at, at - b = t,
         NEW st, StackAt(key, flags, u, b, t, st)
  PROVE  Hasher!MergeCvStack(AHasher(key, cs, b, st), at)
           = AHasher(key, cs, b, StackOf(key, flags, u, b, t))
<1> DEFINE size == Hasher!CountOnes[t]
           V == Vals(key, flags)
           whole == StackOf(key, flags, u, b, t)
<1>1. size \in Nat /\ whole \in Seq(V) /\ Len(whole) = size
  BY StackOfIs
<1>2. Hasher!MergeCvStack(AHasher(key, cs, b, st), at) = Hasher!MergeDownTo(AHasher(key, cs, b, st), size)
  BY DEF Hasher!MergeCvStack, AHasher
<1>3. CASE st = whole
  <2> HIDE DEF size, V, whole
  <2>1. Len(whole) <= size
    BY <1>1
  <2>2. Hasher!MergeDownTo(AHasher(key, cs, b, whole), size) = AHasher(key, cs, b, whole)
    BY <1>1, <2>1, DownStays
  <2> QED
    BY <1>2, <1>3, <2>2 DEF whole
<1>4. ASSUME NEW h \in Nat, NEW m \in Nat, t = (m + 1) * 2 ^ h,
             st = LooseStack(key, flags, u, b, h, m)
      PROVE  Hasher!MergeDownTo(AHasher(key, cs, b, st), size) = AHasher(key, cs, b, whole)
  <2>1. PICK low, last : LooseIs(key, flags, u, b, h, m, low, last)
    BY LooseStackIs, Zenon
  <2> DEFINE times == Hasher!Ref!TrailingZeros[m + 1]
             m1 == m + 1
             p == 2 ^ h
  <2>2. /\ low \in Seq(V) /\ last \in V /\ st = Append(low, last)
        /\ Len(low) = Hasher!CountOnes[m] /\ Hasher!CountOnes[m] \in Nat
        /\ size = Hasher!CountOnes[m1]
        /\ times \in 0 .. Len(low)
        /\ Merged(V, Merge(key, flags), low, last, times) = whole
    <3> HIDE DEF p
    <3>1. t = m1 * p
      BY <1>4 DEF p
    <3>2. LooseIs(key, flags, u, b, h, m, low, last)
      BY <2>1
    <3> HIDE DEF m1
    <3> QED
      BY <1>4, <3>1, <3>2 DEF LooseIs, m1, p
  <2>3. size + times = Hasher!CountOnes[m] + 1 /\ times \in Nat
    <3>1. /\ Hasher!Ref!TrailingZeros[m + 1] \in Nat
          /\ Hasher!CountOnes[m + 1] + Hasher!Ref!TrailingZeros[m + 1] = Hasher!CountOnes[m] + 1
      BY OnesAndZeros
    <3> HIDE DEF size
    <3> QED
      BY <2>2, <3>1
  <2>4. DownIs(key, cs, b, low, last, times)
    <3> HIDE DEF times
    <3> QED
      BY <2>2, DownTo, Zenon
  <2>5. Len(low) + 1 - times = size
    <3> DEFINE w == Hasher!CountOnes[m]
               l == Len(low)
    <3>1. l = w /\ w \in Nat /\ size + times = w + 1 /\ times \in Nat /\ size \in Nat
      BY <1>1, <2>2, <2>3
    <3> HIDE DEF times, size, w, l
    <3>2. l + 1 - times = size
      BY <3>1
    <3> QED
      BY <3>2 DEF l
  <2> HIDE DEF times, size, whole
  <2> QED
    BY <2>2, <2>4, <2>5 DEF DownIs
<1> HIDE DEF size, whole
<1> QED
  BY <1>2, <1>3, <1>4 DEF StackAt, whole

\* With one more on the stack, and with another chunk
LEMMA StackPut ==
  ASSUME NEW key, NEW cs, NEW b, NEW st, NEW cv
  PROVE  [AHasher(key, cs, b, st) EXCEPT !.cv_stack = Append(@, cv)]
           = AHasher(key, cs, b, Append(st, cv))
<1>1. [AHasher(key, cs, b, st) EXCEPT !.cv_stack = Append(@, cv)]
        = [AHasher(key, cs, b, st) EXCEPT !.cv_stack = Append(st, cv)]
  BY DEF AHasher
<1>2. [AHasher(key, cs, b, st) EXCEPT !.cv_stack = Append(st, cv)]
        = AHasher(key, cs, b, Append(st, cv))
  <2> DEFINE more == Append(st, cv)
  <2> HIDE DEF more
  <2>1. [AHasher(key, cs, b, st) EXCEPT !.cv_stack = more] = AHasher(key, cs, b, more)
    BY DEF AHasher
  <2> QED
    BY <2>1 DEF more
<1> QED
  BY <1>1, <1>2

\* Only the chunk state is changed.
LEMMA ChunkPut ==
  ASSUME NEW key, NEW cs, NEW b, NEW st, NEW new
  PROVE  [AHasher(key, cs, b, st) EXCEPT !.chunk_state = new] = AHasher(key, new, b, st)
BY DEF AHasher

\* push_cv
LEMMA PushIs ==
  ASSUME NEW key, NEW flags, NEW u \in Units, NEW b \in Nat, Hasher!SizesAssumption,
         NEW cs, cs.flags = flags, NEW t \in Nat, NEW at, at - b = t,
         NEW st, StackAt(key, flags, u, b, t, st), NEW cv
  PROVE  Hasher!PushCv(AHasher(key, cs, b, st), cv, at)
           = AHasher(key, cs, b, Append(StackOf(key, flags, u, b, t), cv))
<1> DEFINE merged == StackOf(key, flags, u, b, t)
<1>1. Hasher!MergeCvStack(AHasher(key, cs, b, st), at) = AHasher(key, cs, b, merged)
  BY Settles
<1> HIDE DEF merged
<1>2. Hasher!PushCv(AHasher(key, cs, b, st), cv, at)
        = [AHasher(key, cs, b, merged) EXCEPT !.cv_stack = Append(@, cv)]
  BY <1>1 DEF Hasher!PushCv
<1>3. [AHasher(key, cs, b, merged) EXCEPT !.cv_stack = Append(@, cv)]
        = AHasher(key, cs, b, Append(merged, cv))
  BY StackPut
<1> QED
  BY <1>2, <1>3 DEF merged

(***************************************************************************)
(* Where subtrees start.                                                   *)
(***************************************************************************)
LEMMA MultipleIs ==
  ASSUME NEW a \in Nat, NEW l \in Nat \ {0}, a % l = 0
  PROVE  a \div l \in Nat /\ a = (a \div l) * l
OBVIOUS

\* LowestOne exists, and is defined by the half.
LEMMA LowestOneIs ==
  \A n \in Nat : /\ Hasher!LowestOne[2 * n + 1] = 1
                 /\ n # 0 => Hasher!LowestOne[2 * n] = 2 * Hasher!LowestOne[n]
<1> DEFINE D == Nat \ {0}
           F(f) == [n \in D |-> IF n % 2 = 1 THEN 1 ELSE 2 * f[n \div 2]]
           small == {n \in Nat : n % 2 = 1 \/ n = 0}
           base == [n \in Nat |-> 1]
           half == [n \in Nat |-> n \div 2]
           step == [n \in Nat |-> [x \in Nat |-> 2 * x]]
           lowest == CHOOSE f : f = F(f)
<1>1. \E f : Halved(Nat, small, base, half, step, f)
  <2>1. \A n \in Nat : n \in small => base[n] \in Nat
    OBVIOUS
  <2>2. \A n \in Nat : n \notin small => half[n] \in Nat /\ half[n] < n
    OBVIOUS
  <2>3. \A n \in Nat : n \notin small => \A x \in Nat : step[n][x] \in Nat
    OBVIOUS
  <2> HIDE DEF small, base, half, step, F, lowest
  <2> QED
    BY <2>1, <2>2, <2>3, HalvesExist, Zenon DEF CanHalve
<1>2. \E f : f = F(f)
  <2>1. PICK g : Halved(Nat, small, base, half, step, g)
    BY <1>1, Zenon
  <2> DEFINE f == [n \in D |-> g[n]]
  <2>2. ASSUME NEW n \in D PROVE f[n] = F(f)[n]
    <3>1. g \in [Nat -> Nat] /\ g[n] = IF n \in small THEN base[n] ELSE step[n][g[half[n]]]
      BY <2>1, Zenon DEF Halved
    <3>2. n \div 2 \in Nat /\ g[n \div 2] \in Nat
      BY <3>1
    <3>3. base[n] = 1 /\ half[n] = n \div 2 /\ step[n][g[n \div 2]] = 2 * g[n \div 2]
      BY <3>2
    <3>4. CASE n % 2 = 1
      BY <3>1, <3>3, <3>4
    <3>5. CASE n % 2 # 1
      <4>1. n \notin small /\ n \div 2 \in D
        BY <3>5
      <4> HIDE DEF small, step, base, half
      <4> QED
        BY <3>1, <3>3, <3>5, <4>1
    <3> QED
      BY <3>4, <3>5
  <2>3. f = F(f)
    <3> HIDE DEF f
    <3>1. f = [n \in D |-> f[n]]
      BY DEF f
    <3> QED
      BY <2>2, <3>1, Zenon
  <2> QED
    BY <2>3, Zenon
<1>3. lowest = F(lowest)
  <2> HIDE DEF F
  <2> QED
    BY <1>2
<1> HIDE DEF lowest
<1>4. \A n \in D : lowest[n] = IF n % 2 = 1 THEN 1 ELSE 2 * lowest[n \div 2]
  <2>1. \A n \in D : lowest[n] = F(lowest)[n]
    BY <1>3
  <2> QED
    BY <2>1
<1>5. Hasher!LowestOne = lowest
  BY DEF Hasher!LowestOne, lowest
<1>6. ASSUME NEW n \in Nat
      PROVE  /\ lowest[2 * n + 1] = 1
             /\ n # 0 => lowest[2 * n] = 2 * lowest[n]
  <2> DEFINE odd == 2 * n + 1
             even == 2 * n
  <2>1. odd \in D /\ odd % 2 = 1
    OBVIOUS
  <2>2. n # 0 => even \in D /\ even % 2 # 1 /\ even \div 2 = n
    OBVIOUS
  <2> HIDE DEF odd, even
  <2>3. lowest[odd] = 1
    BY <1>4, <2>1
  <2>4. n # 0 => lowest[even] = 2 * lowest[n]
    BY <1>4, <2>2
  <2> QED
    BY <2>3, <2>4 DEF odd, even
<1> QED
  BY <1>5, <1>6

\* The greatest power of two that divides n
Lowest(n) == \E e, q \in Nat : n = q * 2 ^ e /\ Hasher!LowestOne[n] = 2 ^ e

\* LowestOne is a power of two, and divides.
LEMMA LowestDivides ==
  ASSUME NEW n \in Nat, n # 0
  PROVE  Lowest(n)
<1> DEFINE S == {m \in Nat : m # 0 => Lowest(m)}
<1>1. 0 \in S
  OBVIOUS
<1>2. ASSUME NEW m \in Nat, m \in S PROVE 2 * m \in S /\ 2 * m + 1 \in S
  <2> DEFINE even == 2 * m
             odd == 2 * m + 1
  <2>1. even \in Nat /\ odd \in Nat /\ (even # 0 => m # 0)
    OBVIOUS
  <2>2. Hasher!LowestOne[odd] = 1 /\ (m # 0 => Hasher!LowestOne[even] = 2 * Hasher!LowestOne[m])
    BY LowestOneIs
  <2>3. odd \in S
    <3> DEFINE z == 0
    <3>1. z \in Nat /\ 2 ^ z = 1
      BY PowerIsCount, SMT
    <3>2. odd = odd * 1
      BY <2>1
    <3> HIDE DEF odd, z
    <3>3. odd = odd * 2 ^ z /\ Hasher!LowestOne[odd] = 2 ^ z
      BY <2>2, <3>1, <3>2
    <3>4. Lowest(odd)
      BY <2>1, <3>1, <3>3 DEF Lowest
    <3> QED
      BY <2>1, <3>4
  <2>4. ASSUME even # 0 PROVE Lowest(even)
    <3>1. m # 0 /\ Lowest(m)
      BY <1>2, <2>1, <2>4
    <3>2. PICK e, q \in Nat : m = q * 2 ^ e /\ Hasher!LowestOne[m] = 2 ^ e
      BY <3>1 DEF Lowest
    <3> DEFINE e1 == e + 1
               p == 2 ^ e
    <3>3. e1 \in Nat /\ 2 ^ e1 = 2 * p
      BY PowerDoubles
    <3>4. p \in Nat
      BY PowerIsCount, Zenon
    <3>5. m = q * p
      BY <3>2
    <3> HIDE DEF p, e1
    <3>6. even = q * (2 * p)
      BY <3>4, <3>5
    <3>7. Hasher!LowestOne[even] = 2 * p
      BY <2>2, <3>1, <3>2 DEF p
    <3> HIDE DEF even
    <3>8. even = q * 2 ^ e1 /\ Hasher!LowestOne[even] = 2 ^ e1
      BY <3>3, <3>6, <3>7
    <3> QED
      BY <3>3, <3>8 DEF Lowest
  <2>5. even \in S
    <3> HIDE DEF even
    <3> QED
      BY <2>1, <2>4
  <2> QED
    BY <2>3, <2>5
<1>3. n \in S
  <2> HIDE DEF S
  <2> QED
    BY <1>1, <1>2, Doubling
<1> QED
  BY <1>3

\* The greatest power that the place b leaves room for: none is too great at 0.
Room(b, n) == b # 0 => n <= Hasher!LowestOne[b] * CHUNK_LEN

\* A number of chunks is a whole number of subtrees of 2^j.
Whole(j, t) == \E q \in Nat : t = q * 2 ^ j

\* If a subtree is aligned in the input, it is aligned in the part too.
LEMMA AlignedInPart ==
  ASSUME NEW b \in Nat, NEW t \in Nat, NEW j \in Nat, Hasher!SizesAssumption,
         Whole(j, b + t), Room(b, t * CHUNK_LEN + Tall(j))
  PROVE  Whole(j, t)
<1> DEFINE p == 2 ^ j
           l == CHUNK_LEN
           bt == b + t
<1>1. l \in Nat \ {0} /\ bt \in Nat
  BY SizesAre
<1>2. p \in Nat \ {0} /\ Tall(j) = l * p
  BY TallIs
<1>3. PICK r \in Nat : bt = r * p
  BY DEF Whole
<1>4. CASE b = 0
  <2>1. t = bt
    BY <1>4
  <2> HIDE DEF bt
  <2>2. t = r * p
    BY <1>3, <2>1
  <2> QED
    BY <2>2 DEF Whole
<1>5. CASE b # 0
  <2>1. PICK e, q \in Nat : b = q * 2 ^ e /\ Hasher!LowestOne[b] = 2 ^ e
    BY <1>5, LowestDivides, Zenon DEF Lowest
  <2> DEFINE s == 2 ^ e
  <2>2. s \in Nat \ {0}
    BY PowerIsCount, Zenon
  <2>3. t * l + Tall(j) <= s * l
    BY <1>5, <2>1 DEF Room
  <2> HIDE DEF p, s
  <2>4. p <= s
    <3> DEFINE a == p * l
               c == s * l
    <3>1. a \in Nat /\ c \in Nat /\ t * l \in Nat /\ Tall(j) = a
      BY <1>1, <1>2, <2>2
    <3>2. a <= c
      <4> DEFINE d == t * l
      <4>1. d \in Nat /\ d + a <= c
        BY <2>3, <3>1
      <4> HIDE DEF a, c, d
      <4> QED
        BY <3>1, <4>1
    <3> QED
      BY <1>1, <1>2, <2>2, <3>2, Cancelled
  <2>5. j <= e
    <3> SUFFICES ASSUME ~(j <= e) PROVE FALSE
      OBVIOUS
    <3> DEFINE k == e + 1
    <3>1. k \in Nat /\ k <= j
      OBVIOUS
    <3>2. 2 ^ k = 2 * s
      BY PowerDoubles DEF s
    <3> HIDE DEF k
    <3>3. 2 ^ k <= p
      BY <3>1, PowersOfTwoRise DEF p
    <3> QED
      BY <1>2, <2>2, <2>4, <3>2, <3>3
  <2> DEFINE d == e - j
             w == 2 ^ d
  <2>6. d \in Nat /\ j + d = e
    BY <2>5
  <2>7. s = p * w /\ w \in Nat
    <3> HIDE DEF d
    <3>1. PowersMultiply(j, d)
      BY <2>6, PowersAdd
    <3>2. w \in Nat
      BY <2>6, PowerIsCount, Zenon
    <3> QED
      BY <2>6, <3>1, <3>2 DEF PowersMultiply, p, s
  <2> HIDE DEF w
  <2> DEFINE x == q * w
  <2>8. b = x * p /\ x \in Nat
    <3>1. b = q * s
      BY <2>1 DEF s
    <3>2. q * (p * w) = q * w * p
      BY <1>2, <2>7
    <3> QED
      BY <2>7, <3>1, <3>2
  <2> HIDE DEF x
  <2>9. x <= r
    <3> DEFINE xp == x * p
               rp == r * p
    <3>1. xp <= rp
      <4>1. b <= bt
        OBVIOUS
      <4> HIDE DEF bt
      <4> QED
        BY <1>3, <2>8, <4>1
    <3> QED
      BY <1>2, <2>8, <3>1, Cancelled
  <2>10. t = (r - x) * p /\ r - x \in Nat
    <3>1. t = r * p - x * p
      <4> DEFINE xp == x * p
                 rp == r * p
      <4>1. b + t = rp /\ b = xp
        BY <1>3, <2>8
      <4> HIDE DEF xp, rp
      <4>2. t = rp - xp
        BY <4>1
      <4> QED
        BY <4>2 DEF rp, xp
    <3> QED
      BY <1>2, <2>8, <2>9, <3>1
  <2> QED
    BY <2>10, Zenon DEF Whole, p
<1> QED
  BY <1>4, <1>5

\* The subtree that is added next, of m units from chunk k on
Fitting(m, k, j) ==
  /\ Hasher!HalveToFit(Hasher!LargestPowerOfTwoLeq(m), k * CHUNK_LEN) = Tall(j)
  /\ Tall(j) <= m
  /\ Whole(j, k)

\* The halving loop of update finds one, whatever the length and the place.
LEMMA SubtreeFits ==
  ASSUME Hasher!SizesAssumption, NEW m \in Nat, m > CHUNK_LEN, NEW k \in Nat
  PROVE  \E j \in Nat : Fitting(m, k, j)
<1> DEFINE l == CHUNK_LEN
<1>1. l \in Nat \ {0}
  BY SizesAre
<1>2. PICK i \in Nat : Hasher!LargestPowerOfTwoLeq(m) = Tall(i) /\ Tall(i) <= m
  BY LargestIsTall
<1>3. PICK j \in Nat : /\ Hasher!HalveToFit(Tall(i), k * l) = Tall(j)
                       /\ Tall(j) <= Tall(i)
                       /\ (k * l) % Tall(j) = 0
  BY HalveToFitIs, Zenon
<1>4. Tall(j) <= m
  <2>1. Tall(i) \in Nat /\ Tall(j) \in Nat
    BY TallIs, Zenon
  <2> QED
    BY <1>2, <1>3, <2>1
<1>5. Whole(j, k)
  <2> DEFINE a == k * l
             T == Tall(j)
             p == 2 ^ j
             s == a \div T
  <2>1. p \in Nat \ {0} /\ T = l * p
    BY TallIs, Zenon
  <2>2. a \in Nat /\ T \in Nat \ {0} /\ a % T = 0
    <3>1. T >= l /\ T \in Nat
      BY TallIs, Zenon
    <3> HIDE DEF T
    <3> QED
      BY <1>1, <1>3, <3>1 DEF T
  <2> HIDE DEF a, T, p
  <2>3. s \in Nat /\ a = s * T
    BY <2>2, MultipleIs
  <2> HIDE DEF s
  <2> DEFINE sp == s * p
  <2>4. k * l = sp * l /\ sp \in Nat
    <3>1. s * (l * p) = s * p * l
      BY <1>1, <2>1, <2>3
    <3>2. a = k * l
      BY DEF a
    <3> QED
      BY <2>1, <2>3, <3>1, <3>2
  <2> HIDE DEF sp
  <2>5. k = sp
    BY <1>1, <2>4, Cancels
  <2> QED
    BY <2>3, <2>5 DEF Whole, sp, p
<1> QED
  BY <1>2, <1>3, <1>4, <1>5 DEF Fitting

\* A subtree's value on top of what waits before it
OnTop(key, flags, u, b, h, m) ==
  Append(StackOf(key, flags, u, b, m * 2 ^ h), Subtree(key, flags, u, b + m * 2 ^ h, Tall(h)))
    = LooseStack(key, flags, u, b, h, m)

\* What waits before the subtree is what waits above its height.
LEMMA SubtreeOnTop ==
  ASSUME NEW key, NEW flags, NEW u \in Units, NEW b \in Nat, Hasher!SizesAssumption,
         NEW h \in Nat, NEW m \in Nat
  PROVE  OnTop(key, flags, u, b, h, m)
<1> DEFINE V == Vals(key, flags)
           merge == Merge(key, flags)
           row == Leaves(key, flags, u, b)
           high == Up(V, merge)[h][row]
           t == m * 2 ^ h
<1>1. merge \in [V -> [V -> V]]
  BY MergeIs, Zenon DEF Merges
<1>2. row \in Row(V)
  <2>1. CHUNK_LEN \in Nat /\ Hasher!BLOCK_LEN = 2
    BY SizesAre
  <2> QED
    BY <2>1, LeavesAre
<1>3. WaitsHigher(V, merge, h, m, row)
  BY <1>1, <1>2, WaitsRaised
<1>4. UpIsSubtree(key, flags, u, b, h, m)
  BY UpIsSubtrees
<1>5. StackOf(key, flags, u, b, t) = Waits(V, merge)[m][high]
  BY <1>3 DEF WaitsHigher, StackOf
<1>6. high[m] = Subtree(key, flags, u, b + t, Tall(h))
  BY <1>4 DEF UpIsSubtree
<1>7. LooseStack(key, flags, u, b, h, m) = Append(Waits(V, merge)[m][high], high[m])
  BY DEF LooseStack
<1> HIDE DEF V, merge, row, high, t
<1> QED
  BY <1>5, <1>6, <1>7 DEF OnTop, t

\* The Hasher that was started at chunk b and has n units of chunk b + t
AtChunk(key, flags, degree, u, b, t, n, st) ==
  AHasher(key, ChunkOf(key, flags, degree, u, b + t, n), b, st)

\* Renumbering an empty chunk
EmptyMoved(key, flags, degree, u, b, st, c, k) ==
  [AHasher(key, ChunkOf(key, flags, degree, u, c, 0), b, st)
     EXCEPT !.chunk_state.chunk_counter = @ + k]
    = AHasher(key, ChunkOf(key, flags, degree, u, c + k, 0), b, st)

\* As the code does after it has pushed a subtree
LEMMA EmptyChunkMoved ==
  ASSUME NEW key, NEW flags, NEW degree, NEW u \in Units, NEW b \in Nat, NEW st,
         NEW c \in Nat, NEW k \in Nat, CHUNK_LEN \in Nat
  PROVE  EmptyMoved(key, flags, degree, u, b, st, c, k)
<1> DEFINE ck == c + k
           cs == Hasher!NewChunkState(key, c, flags, degree)
           moved == Hasher!NewChunkState(key, ck, flags, degree)
<1>1. ck \in Nat
  OBVIOUS
<1>2. cs = ChunkOf(key, flags, degree, u, c, 0)
  BY NewChunkIs
<1> HIDE DEF ck
<1>3. moved = ChunkOf(key, flags, degree, u, ck, 0)
  BY <1>1, NewChunkIs
<1>4. [cs EXCEPT !.chunk_counter = ck] = moved
  BY DEF Hasher!NewChunkState
<1>5. cs.chunk_counter + k = ck
  BY DEF Hasher!NewChunkState, ck
<1> HIDE DEF cs, moved
<1>6. [AHasher(key, cs, b, st) EXCEPT !.chunk_state.chunk_counter = @ + k]
        = [AHasher(key, cs, b, st) EXCEPT !.chunk_state = [cs EXCEPT !.chunk_counter = cs.chunk_counter + k]]
  BY DEF AHasher
<1>7. [AHasher(key, cs, b, st) EXCEPT !.chunk_state = moved] = AHasher(key, moved, b, st)
  BY ChunkPut
<1>8. [cs EXCEPT !.chunk_counter = cs.chunk_counter + k] = moved
  BY <1>4, <1>5
<1> QED
  BY <1>2, <1>3, <1>6, <1>7, <1>8 DEF ck, EmptyMoved

\* A subtree's value is pushed.
PushLeaves(key, flags, u, b, cs, st, at, h, m) ==
  Hasher!PushCv(AHasher(key, cs, b, st), Subtree(key, flags, u, at, Tall(h)), at)
    = AHasher(key, cs, b, LooseStack(key, flags, u, b, h, m))

\* push_cv merges what the values before the new one complete, and not the new one.
LEMMA SubtreePushed ==
  ASSUME NEW key, NEW flags, NEW u \in Units, NEW b \in Nat, Hasher!SizesAssumption,
         NEW cs, cs.flags = flags, NEW t \in Nat, NEW at, at = b + t,
         NEW st, StackAt(key, flags, u, b, t, st),
         NEW h \in Nat, NEW m \in Nat, t = m * 2 ^ h
  PROVE  PushLeaves(key, flags, u, b, cs, st, at, h, m)
<1> DEFINE p == 2 ^ h
           v == Subtree(key, flags, u, at, Tall(h))
<1>1. at - b = t
  OBVIOUS
<1>2. Hasher!PushCv(AHasher(key, cs, b, st), v, at)
        = AHasher(key, cs, b, Append(StackOf(key, flags, u, b, t), v))
  <2> HIDE DEF v
  <2> QED
    BY <1>1, PushIs
<1>3. OnTop(key, flags, u, b, h, m)
  BY SubtreeOnTop
<1>4. Append(StackOf(key, flags, u, b, t), v) = LooseStack(key, flags, u, b, h, m)
  <2>1. Append(StackOf(key, flags, u, b, m * p), Subtree(key, flags, u, b + m * p, Tall(h)))
          = LooseStack(key, flags, u, b, h, m)
    BY <1>3 DEF OnTop
  <2>2. m * p = t /\ b + m * p = at
    OBVIOUS
  <2> HIDE DEF p
  <2> QED
    BY <2>1, <2>2
<1> HIDE DEF v
<1> QED
  BY <1>2, <1>4, Zenon DEF v, PushLeaves

\* The Hasher, when its last value is not merged yet
LooseAt(key, flags, degree, u, b, t, g) ==
  \E h, m \in Nat :
    /\ t = (m + 1) * 2 ^ h
    /\ g = AtChunk(key, flags, degree, u, b, t, 0, LooseStack(key, flags, u, b, h, m))

\* The same with two values at least on the stack
PairAt(key, flags, degree, u, b, t, g) ==
  \E h, m \in Nat :
    /\ m # 0
    /\ t = (m + 1) * 2 ^ h
    /\ g = AtChunk(key, flags, degree, u, b, t, 0, LooseStack(key, flags, u, b, h, m))

\* A turn of the loop: 2^j chunks are pushed, and the rest is left.
Turned(key, flags, degree, u, b, t, m, next, j) ==
  /\ Tall(j) <= m
  /\ next.input = Cut(u, (b + (t + 2 ^ j)) * CHUNK_LEN, m - Tall(j))
  /\ LooseAt(key, flags, degree, u, b, t + 2 ^ j, next.hasher)
  /\ j # 0 => PairAt(key, flags, degree, u, b, t + 2 ^ j, next.hasher)

\* One turn: a chunk, or the two halves of a subtree, are hashed and pushed.
LEMMA SubtreeAdded ==
  ASSUME NEW key, NEW flags, NEW degree, NEW u \in Units, NEW b \in Nat, Hasher!SizesAssumption,
         Fits(degree), NEW t \in Nat, NEW st, StackAt(key, flags, u, b, t, st),
         NEW m \in Nat, m > CHUNK_LEN, Room(b, t * CHUNK_LEN + m)
  PROVE  \E j \in Nat : Turned(key, flags, degree, u, b, t, m,
           Hasher!AddSubtree(AtChunk(key, flags, degree, u, b, t, 0, st),
                             Cut(u, (b + t) * CHUNK_LEN, m)), j)
<1> DEFINE l == CHUNK_LEN
           c == b + t
           s == ChunkOf(key, flags, degree, u, c, 0)
           h == AHasher(key, s, b, st)
           input == Cut(u, c * l, m)
           next == Hasher!AddSubtree(h, input)
<1>1. l \in Nat \ {0} /\ c \in Nat /\ c * l \in Nat /\ Hasher!BLOCK_LEN = 2
  <2>1. l \in Nat \ {0} /\ Hasher!BLOCK_LEN = 2
    BY SizesAre
  <2>2. c \in Nat
    OBVIOUS
  <2> HIDE DEF c
  <2> QED
    BY <2>1, <2>2
<1>2. c = b + t /\ c - b = t
  OBVIOUS
<1> HIDE DEF c
<1>3. s.chunk_counter = c /\ s.flags = flags /\ s.simd_degree = degree
  <2> DEFINE z == 0
  <2>1. z \in Nat
    OBVIOUS
  <2>2. ChunkIs(key, flags, degree, c, z, ChunkOf(key, flags, degree, u, c, z),
                 BlockCv(key, flags, u, c)[Blocks(z)],
                 Cut(u, c * CHUNK_LEN + 2 * Blocks(z), z - 2 * Blocks(z)))
    <3> HIDE DEF z
    <3> QED
      BY <1>1, <2>1, ChunkOfIs
  <2>3. s = ChunkOf(key, flags, degree, u, c, z)
    OBVIOUS
  <2> HIDE DEF z, s
  <2> QED
    BY <2>2, <2>3 DEF ChunkIs
<1>4. Len(input) = m
  BY <1>1, CutIs DEF IsCut
<1>5. PICK j \in Nat : Fitting(m, c, j)
  BY <1>1, SubtreeFits
<1> DEFINE T == Tall(j)
           p == 2 ^ j
           t1 == t + p
           r == m - T
<1>6. p \in Nat \ {0} /\ T = l * p /\ T \in Nat /\ T >= l
  BY TallIs, Zenon
<1>7. T <= m /\ Hasher!HalveToFit(Hasher!LargestPowerOfTwoLeq(m), c * l) = T /\ Whole(j, c)
  BY <1>5 DEF Fitting
<1> HIDE DEF T, p
<1>8. t1 \in Nat /\ b + t1 = c + p /\ (c + p) * l = c * l + T /\ r \in Nat
  BY <1>1, <1>2, <1>6, <1>7
<1>9. PICK q \in Nat : t = q * p
  <2>1. Room(b, t * l + T)
    <3> DEFINE a == t * l
    <3>1. a \in Nat /\ Room(b, a + m)
      BY <1>1
    <3> HIDE DEF a
    <3>2. b # 0 => a + T <= Hasher!LowestOne[b] * CHUNK_LEN
      <4> SUFFICES ASSUME b # 0 PROVE a + T <= Hasher!LowestOne[b] * CHUNK_LEN
        OBVIOUS
      <4> DEFINE w == Hasher!LowestOne[b]
      <4>1. w \in Nat
        <5>1. PICK e, y \in Nat : b = y * 2 ^ e /\ Hasher!LowestOne[b] = 2 ^ e
          BY LowestDivides, Zenon DEF Lowest
        <5>2. 2 ^ e \in Nat
          BY PowerIsCount, Zenon
        <5> QED
          BY <5>1, <5>2
      <4>2. a + m <= w * CHUNK_LEN
        BY <3>1 DEF Room
      <4> HIDE DEF w
      <4> DEFINE wl == w * CHUNK_LEN
      <4>3. wl \in Nat /\ a + m <= wl
        BY <1>1, <4>1, <4>2
      <4> HIDE DEF wl
      <4>4. a + T <= wl
        BY <1>6, <1>7, <3>1, <4>3
      <4> QED
        BY <4>4 DEF w, wl
    <3> QED
      BY <3>2 DEF Room, a
  <2>2. Whole(j, t)
    BY <1>2, <1>7, <2>1, AlignedInPart DEF T
  <2> QED
    BY <2>2 DEF Whole, p
<1>10. SplitIs(u, c * l, m, T)
  <2> DEFINE a == c * l
  <2>1. a \in Nat /\ T \in 0 .. m
    BY <1>1, <1>6, <1>7
  <2> HIDE DEF a
  <2>2. SplitIs(u, a, m, T)
    BY <2>1, CutSplit
  <2> QED
    BY <2>2 DEF a
<1>11. Hasher!Taken(input, T) = Cut(u, c * l, T) /\ Hasher!Dropped(input, T) = Cut(u, (b + t1) * l, r)
  <2>1. (b + t1) * l = c * l + T
    BY <1>8
  <2> HIDE DEF t1
  <2> QED
    BY <1>10, <2>1 DEF SplitIs
<1>12. T \div l = p
  <2> DEFINE z == 0
  <2>1. z \in 0 .. l - 1 /\ p \in Nat
    BY <1>1, <1>6
  <2>2. (p * l + z) \div l = p
    <3> HIDE DEF z
    <3> QED
      BY <1>1, <2>1, DivideOnly, Zenon
  <2>3. T = p * l + z
    BY <1>1, <1>6
  <2> HIDE DEF z
  <2> QED
    BY <2>2, <2>3
<1> DEFINE subtree == Cut(u, c * l, T)
           oneChunk == Hasher!UpdateChunk(Hasher!NewChunkState(key, c, flags, degree), subtree)
           pair == Hasher!CompressSubtreeToParentNode(subtree, key, c, flags, degree)
           pushed ==
             IF T <= l
             THEN Hasher!PushCv(h, Hasher!Asserting(T = l,
                                     Hasher!ChainingValue(Hasher!ChunkOutput(oneChunk))), c)
             ELSE Hasher!PushCv(Hasher!PushCv(h, pair[1], c), pair[2], c + (T \div l) \div 2)
<1>13. /\ next.hasher = [pushed EXCEPT !.chunk_state.chunk_counter = @ + T \div l]
       /\ next.input = Cut(u, (b + t1) * l, r)
  <2>1. h.chunk_state = s /\ h.key = key
    BY DEF AHasher
  <2>2. Hasher!Taken(input, T) = subtree
    BY <1>11
  <2>3. Hasher!HalveToFit(Hasher!LargestPowerOfTwoLeq(Len(input)), s.chunk_counter * CHUNK_LEN) = T
    <3>1. Len(input) = m /\ s.chunk_counter = c
      BY <1>3, <1>4
    <3>2. Hasher!HalveToFit(Hasher!LargestPowerOfTwoLeq(m), c * l) = T
      BY <1>7
    <3> HIDE DEF input, s
    <3> QED
      BY <3>1, <3>2
  <2> HIDE DEF h, s, input, subtree
  <2>4. next = [hasher |-> [pushed EXCEPT !.chunk_state.chunk_counter = @ + T \div l],
                input |-> Hasher!Dropped(input, T)]
    BY <1>3, <2>1, <2>2, <2>3 DEF Hasher!AddSubtree
  <2> HIDE DEF pushed, next
  <2> QED
    BY <1>11, <2>4
<1> DEFINE Loose(x, y) == LooseStack(key, flags, u, b, x, y)
           Done(x, y) == /\ t1 = (y + 1) * 2 ^ x
                         /\ next.hasher = AtChunk(key, flags, degree, u, b, t1, 0, Loose(x, y))
<1>14. ASSUME NEW x \in Nat, NEW y \in Nat, t1 = (y + 1) * 2 ^ x,
              pushed = AHasher(key, s, b, Loose(x, y))
       PROVE  Done(x, y)
  <2>1. next.hasher = [AHasher(key, s, b, Loose(x, y))
                         EXCEPT !.chunk_state.chunk_counter = @ + p]
    <3> HIDE DEF pushed, next
    <3> QED
      BY <1>12, <1>13, <1>14
  <2>2. [AHasher(key, s, b, Loose(x, y)) EXCEPT !.chunk_state.chunk_counter = @ + p]
          = AHasher(key, ChunkOf(key, flags, degree, u, c + p, 0), b, Loose(x, y))
    <3> DEFINE stack == Loose(x, y)
    <3> HIDE DEF stack, Loose
    <3>1. [AHasher(key, s, b, stack) EXCEPT !.chunk_state.chunk_counter = @ + p]
            = AHasher(key, ChunkOf(key, flags, degree, u, c + p, 0), b, stack)
      <4>1. CHUNK_LEN \in Nat /\ p \in Nat
        BY <1>1, <1>6
      <4>2. EmptyMoved(key, flags, degree, u, b, stack, c, p)
        BY <1>1, <4>1, EmptyChunkMoved
      <4> QED
        BY <4>2 DEF s, EmptyMoved
    <3> QED
      BY <3>1 DEF stack
  <2>3. c + p = b + t1
    BY <1>8
  <2> HIDE DEF t1, next, Loose
  <2> QED
    BY <1>14, <2>1, <2>2, <2>3 DEF AtChunk
<1>15. CASE j = 0
  <2> DEFINE z == 0
  <2>1. p = 1 /\ T = l
    <3>1. 2 ^ 0 = 1
      BY PowerIsCount, SMT
    <3>2. p = 1
      BY <1>15, <3>1 DEF p
    <3> QED
      BY <1>1, <1>6, <3>2
  <2>2. oneChunk = ChunkOf(key, flags, degree, u, c, l)
    <3>1. Hasher!NewChunkState(key, c, flags, degree) = ChunkOf(key, flags, degree, u, c, z)
      BY <1>1, NewChunkIs
    <3>2. z \in Nat /\ z + l <= l /\ c * l + z = c * l /\ z + l = l
      BY <1>1
    <3>3. UpdatesChunk(key, flags, degree, u, c, z, l)
      <4> HIDE DEF z
      <4> QED
        BY <1>1, <3>2, ChunkUpdated
    <3>4. subtree = Cut(u, c * l, l)
      BY <2>1
    <3> HIDE DEF z, subtree
    <3> QED
      BY <3>1, <3>2, <3>3, <3>4 DEF UpdatesChunk
  <2>3. Hasher!ChainingValue(Hasher!ChunkOutput(oneChunk)) = Leaf(key, flags, u, c, l)
    <3>1. Hasher!ChunkOutput(ChunkOf(key, flags, degree, u, c, l)) = LeafOut(key, flags, u, c, l)
      BY <1>1, LeafOutIs
    <3> HIDE DEF oneChunk
    <3> QED
      BY <2>2, <3>1 DEF Leaf
  <2>4. Leaf(key, flags, u, c, l) = Subtree(key, flags, u, c, Tall(z))
    <3>1. Tall(z) = l
      BY <1>15, <2>1 DEF T
    <3>2. SubtreeOfLeaf(key, flags, u, c, l)
      <4>1. l \in 0 .. CHUNK_LEN
        BY <1>1
      <4> QED
        BY <1>1, <4>1, SubtreeLeaf
    <3> HIDE DEF z
    <3> QED
      BY <3>1, <3>2 DEF SubtreeOfLeaf
  <2>5. pushed = Hasher!PushCv(h, Subtree(key, flags, u, c, Tall(z)), c)
    <3>1. T <= l
      BY <1>1, <2>1
    <3> HIDE DEF oneChunk, h, pair, z
    <3> QED
      BY <2>1, <2>3, <2>4, <3>1 DEF Hasher!Asserting
  <2>6. t = t * 2 ^ z /\ z \in Nat
    <3>1. 2 ^ z = 1
      BY PowerIsCount, SMT
    <3> HIDE DEF z
    <3>2. t = t * 2 ^ z
      BY <3>1
    <3> QED
      BY <3>2 DEF z
  <2>7. pushed = AHasher(key, s, b, Loose(z, t))
    <3>1. PushLeaves(key, flags, u, b, s, st, c, z, t)
      <4> HIDE DEF z, s
      <4> QED
        BY <1>2, <1>3, <2>6, SubtreePushed, Zenon
    <3> HIDE DEF z, s, pushed
    <3> QED
      BY <2>5, <3>1 DEF PushLeaves
  <2>8. t1 = (t + 1) * 2 ^ z
    <3>1. 2 ^ z = 1
      BY PowerIsCount, SMT
    <3> HIDE DEF z
    <3> QED
      BY <2>1, <3>1
  <2>9. Done(z, t)
    <3> HIDE DEF z, Done, Loose, pushed, t1
    <3> QED
      BY <1>14, <2>6, <2>7, <2>8
  <2>10. LooseAt(key, flags, degree, u, b, t1, next.hasher)
    <3> HIDE DEF z, next, t1
    <3> QED
      BY <2>6, <2>9 DEF LooseAt
  <2>11. Turned(key, flags, degree, u, b, t, m, next, j)
    <3> HIDE DEF next
    <3> QED
      BY <1>7, <1>13, <1>15, <2>10 DEF Turned, T, p
  <2> QED
    BY <2>11 DEF AtChunk, c
<1>16. CASE j # 0
  <2> DEFINE i == j - 1
             d == 2 ^ i
             tm == t + d
             cm == c + d
             m0 == 2 * q
             m1 == m0 + 1
  <2>1. i \in Nat /\ j = i + 1 /\ m0 \in Nat /\ m1 \in Nat /\ m1 # 0
    BY <1>16
  <2>2. p = 2 * d /\ d \in Nat \ {0}
    <3> HIDE DEF i
    <3> QED
      BY <2>1, PowerDoubles DEF p
  <2>3. T > l
    <3> HIDE DEF d
    <3> DEFINE ld == l * d
    <3>1. T = 2 * ld /\ ld >= l /\ ld \in Nat
      BY <1>1, <1>6, <2>2
    <3> HIDE DEF ld
    <3> QED
      BY <1>1, <3>1
  <2>4. pair = <<Subtree(key, flags, u, c, Tall(i)), Subtree(key, flags, u, cm, Tall(i))>>
    <3>1. HalvesAre(key, flags, degree, u, c, i)
      <4> HIDE DEF i
      <4> QED
        BY <1>1, <2>1, HalvesFound
    <3>2. T = Tall(i + 1)
      BY <2>1 DEF T
    <3> HIDE DEF i
    <3> QED
      BY <3>1, <3>2 DEF HalvesAre
  <2>5. (T \div l) \div 2 = d
    <3> HIDE DEF d
    <3> QED
      BY <1>12, <2>2
  <2>6. pushed = Hasher!PushCv(Hasher!PushCv(h, Subtree(key, flags, u, c, Tall(i)), c),
                               Subtree(key, flags, u, cm, Tall(i)), cm)
    <3>1. ~(T <= l)
      BY <1>1, <1>6, <2>3
    <3>2. c + (T \div l) \div 2 = cm
      BY <2>5
    <3>3. pair[1] = Subtree(key, flags, u, c, Tall(i)) /\ pair[2] = Subtree(key, flags, u, cm, Tall(i))
      BY <2>4
    <3> HIDE DEF pair, cm, oneChunk, h, i
    <3> QED
      BY <3>1, <3>2, <3>3
  <2>7. t = m0 * d /\ tm = (m0 + 1) * d /\ tm = m1 * d /\ t1 = (m1 + 1) * d /\ tm \in Nat /\ cm = b + tm
    <3> HIDE DEF d
    <3>1. t = q * (2 * d)
      BY <1>9, <2>2
    <3> QED
      BY <1>2, <2>2, <3>1
  <2> HIDE DEF tm, cm, m0, t1
  <2>8. Hasher!PushCv(h, Subtree(key, flags, u, c, Tall(i)), c) = AHasher(key, s, b, Loose(i, m0))
    <3>1. t = m0 * 2 ^ i
      BY <2>7
    <3> HIDE DEF i, s
    <3>2. PushLeaves(key, flags, u, b, s, st, c, i, m0)
      BY <1>2, <1>3, <2>1, <3>1, SubtreePushed, Zenon
    <3> QED
      BY <3>2 DEF PushLeaves
  <2>9. StackAt(key, flags, u, b, tm, Loose(i, m0))
    <3> HIDE DEF i
    <3> QED
      BY <2>1, <2>7 DEF StackAt
  <2>10. Hasher!PushCv(AHasher(key, s, b, Loose(i, m0)), Subtree(key, flags, u, cm, Tall(i)), cm)
           = AHasher(key, s, b, Loose(i, m1))
    <3> DEFINE stack == Loose(i, m0)
    <3>1. StackAt(key, flags, u, b, tm, stack)
      BY <2>9
    <3>2. tm = m1 * 2 ^ i
      BY <2>7
    <3> HIDE DEF i, s, stack, m1
    <3>3. PushLeaves(key, flags, u, b, s, stack, cm, i, m1)
      BY <1>3, <2>1, <2>7, <3>1, <3>2, SubtreePushed, Zenon
    <3> QED
      BY <3>3 DEF stack, PushLeaves
  <2>11. pushed = AHasher(key, s, b, Loose(i, m1))
    <3> HIDE DEF i, s, Loose, m1, pushed, h
    <3> QED
      BY <2>6, <2>8, <2>10
  <2>12. Done(i, m1)
    <3>1. t1 = (m1 + 1) * 2 ^ i
      BY <2>7
    <3> HIDE DEF i, Done, Loose, pushed, m1
    <3> QED
      BY <1>14, <2>1, <2>11, <3>1
  <2>13. PairAt(key, flags, degree, u, b, t1, next.hasher)
    <3> HIDE DEF i, next, m1
    <3> QED
      BY <2>1, <2>12 DEF PairAt
  <2>14. LooseAt(key, flags, degree, u, b, t1, next.hasher)
    <3> HIDE DEF i, next, m1
    <3> QED
      BY <2>1, <2>12 DEF LooseAt
  <2>15. Turned(key, flags, degree, u, b, t, m, next, j)
    <3> HIDE DEF next
    <3> QED
      BY <1>7, <1>13, <2>13, <2>14 DEF Turned, T, p, t1
  <2> QED
    BY <2>15 DEF AtChunk, c
<1> QED
  BY <1>15, <1>16

\* The Hasher after n units: nothing yet, the last chunk begun and all before it
\* merged, or whole subtrees, the last of them not merged yet.
HasherAt(key, flags, degree, u, b, n, g) ==
  \/ n = 0 /\ g = AtChunk(key, flags, degree, u, b, 0, 0, <<>>)
  \/ \E t \in Nat, k \in 1 .. CHUNK_LEN :
       /\ n = t * CHUNK_LEN + k
       /\ g = AtChunk(key, flags, degree, u, b, t, k, StackOf(key, flags, u, b, t))
  \/ \E t \in Nat : n = t * CHUNK_LEN /\ PairAt(key, flags, degree, u, b, t, g)

\* The end of an update: one chunk at most
LastIs(key, flags, degree, u, b, t, n, st) ==
  Hasher!AddLastChunk(AtChunk(key, flags, degree, u, b, t, 0, st),
                      Cut(u, (b + t) * CHUNK_LEN, n))
    = IF n = 0 THEN AtChunk(key, flags, degree, u, b, t, 0, st)
      ELSE AtChunk(key, flags, degree, u, b, t, n, StackOf(key, flags, u, b, t))

\* The rest goes into the chunk state, and what waits is merged.
LEMMA LastAdded ==
  ASSUME NEW key, NEW flags, NEW degree, NEW u \in Units, NEW b \in Nat, Hasher!SizesAssumption,
         NEW t \in Nat, NEW st, StackAt(key, flags, u, b, t, st), NEW n \in 0 .. CHUNK_LEN
  PROVE  LastIs(key, flags, degree, u, b, t, n, st)
<1> DEFINE c == b + t
           s == ChunkOf(key, flags, degree, u, c, 0)
           new == ChunkOf(key, flags, degree, u, c, n)
           h == AHasher(key, s, b, st)
           from == c * CHUNK_LEN
           input == Cut(u, from, n)
<1>1. CHUNK_LEN \in Nat /\ Hasher!BLOCK_LEN = 2
  BY SizesAre
<1>2. c \in Nat /\ from \in Nat /\ n \in Nat /\ c - b = t /\ n <= CHUNK_LEN
  BY <1>1
<1>3. input = <<>> <=> n = 0
  <2> HIDE DEF from
  <2>1. IsCut(u, from, n, Cut(u, from, n))
    BY <1>2, CutIs
  <2> QED
    BY <2>1 DEF IsCut
<1>4. Hasher!UpdateChunk(s, input) = new
  <2> DEFINE z == 0
  <2>1. z \in Nat /\ z + n = n /\ c * CHUNK_LEN + z = from
    BY <1>1, <1>2
  <2>2. z + n <= CHUNK_LEN
    BY <1>1, <1>2
  <2> HIDE DEF z, from, c
  <2>3. UpdatesChunk(key, flags, degree, u, c, z, n)
    BY <1>1, <1>2, <2>1, <2>2, ChunkUpdated
  <2>4. Hasher!UpdateChunk(ChunkOf(key, flags, degree, u, c, z), Cut(u, from, n)) = new
    BY <2>1, <2>3 DEF UpdatesChunk
  <2> QED
    BY <2>4 DEF z
<1>5. h.chunk_state = s /\ h.chunk_state.chunk_counter = c
  <2>1. h.chunk_state = s
    BY DEF AHasher
  <2>2. s.chunk_counter = c
    BY DEF ChunkOf, Holding, AChunk
  <2> QED
    BY <2>1, <2>2
<1>6. [h EXCEPT !.chunk_state = Hasher!UpdateChunk(@, input)] = AHasher(key, new, b, st)
  <2>1. [h EXCEPT !.chunk_state = new] = AHasher(key, new, b, st)
    <3> HIDE DEF s, new, c
    <3> QED
      BY ChunkPut
  <2>2. [h EXCEPT !.chunk_state = Hasher!UpdateChunk(@, input)]
          = [h EXCEPT !.chunk_state = Hasher!UpdateChunk(h.chunk_state, input)]
    <3> HIDE DEF s, c, h, input
    <3> QED
      OBVIOUS
  <2> HIDE DEF h, input, s, new
  <2> QED
    BY <1>4, <1>5, <2>1, <2>2
<1>7. Hasher!MergeCvStack(AHasher(key, new, b, st), c)
        = AHasher(key, new, b, StackOf(key, flags, u, b, t))
  <2>1. new.flags = flags
    BY DEF ChunkOf, Holding, AChunk
  <2> HIDE DEF new, c
  <2> QED
    BY <1>2, <2>1, Settles
<1>8. Hasher!AddLastChunk(h, input)
        = IF n = 0 THEN h ELSE AHasher(key, new, b, StackOf(key, flags, u, b, t))
  <2> HIDE DEF h, input, c, new, s
  <2> QED
    BY <1>3, <1>5, <1>6, <1>7 DEF Hasher!AddLastChunk
<1> QED
  BY <1>8 DEF LastIs, AtChunk

\* One turn of the loop of update
Turn(x) == IF Len(x.input) > CHUNK_LEN THEN Hasher!AddSubtree(x.hasher, x.input) ELSE x

\* The Hasher and what is left of the input after each of m turns
Turns(first, m, f) == f = [n \in 0 .. m |-> IF n = 0 THEN first ELSE Turn(f[n - 1])]

\* There is such a state after each of any number of turns.
LEMMA TurnsExist ==
  ASSUME NEW first, NEW m \in Nat
  PROVE  \E f : Turns(first, m, f)
<1> DEFINE S == {k \in Nat : \E f : Turns(first, k, f)}
<1> HIDE DEF Turn
<1>1. 0 \in S
  <2> DEFINE f == [n \in 0 .. 0 |-> first]
  <2>1. Turns(first, 0, f)
    BY DEF Turns
  <2> QED
    BY <2>1
<1>2. ASSUME NEW k \in Nat, k \in S PROVE k + 1 \in S
  <2>1. PICK f : Turns(first, k, f)
    BY <1>2
  <2> DEFINE g == [n \in 0 .. k + 1 |-> IF n <= k THEN f[n] ELSE Turn(f[k])]
  <2>2. (\A n \in 0 .. k : g[n] = f[n]) /\ g[k + 1] = Turn(f[k])
    OBVIOUS
  <2>3. \A n \in 0 .. k : f[n] = IF n = 0 THEN first ELSE Turn(f[n - 1])
    BY <2>1 DEF Turns
  <2>4. ASSUME NEW n \in 0 .. k + 1 PROVE g[n] = IF n = 0 THEN first ELSE Turn(g[n - 1])
    <3> HIDE DEF g
    <3>1. n # 0 => n - 1 \in 0 .. k
      OBVIOUS
    <3>2. CASE n <= k
      BY <2>2, <2>3, <3>1, <3>2
    <3>3. CASE n = k + 1
      BY <2>2, <3>1, <3>3
    <3> QED
      BY <3>2, <3>3
  <2>5. g = [n \in 0 .. k + 1 |-> g[n]]
    OBVIOUS
  <2>6. Turns(first, k + 1, g)
    <3> HIDE DEF g
    <3> QED
      BY <2>4, <2>5, Zenon DEF Turns
  <2> HIDE DEF g
  <2> QED
    BY <2>6
<1>3. \A k \in Nat : k \in S
  <2> HIDE DEF S
  <2> QED
    BY <1>1, <1>2, Induction
<1> QED
  BY <1>3

\* Between turns: t chunks are on the stack, and m units are left.
TurnAt(key, flags, degree, u, b, end, t, m, x) ==
  /\ t * CHUNK_LEN + m = end
  /\ x.input = Cut(u, (b + t) * CHUNK_LEN, m)
  /\ \E st : /\ StackAt(key, flags, u, b, t, st)
             /\ x.hasher = AtChunk(key, flags, degree, u, b, t, 0, st)

\* When nothing is left after a turn, a pair was pushed.
TurnGives(key, flags, degree, u, b, end, t, m, x) ==
  /\ TurnAt(key, flags, degree, u, b, end, t, m, x)
  /\ m = 0 => PairAt(key, flags, degree, u, b, t, x.hasher)

\* A turn moves on, so the loop ends.
LEMMA TurnTaken ==
  ASSUME NEW key, NEW flags, NEW degree, NEW u \in Units, NEW b \in Nat, Hasher!SizesAssumption,
         Fits(degree), NEW end \in Nat, Room(b, end), NEW t \in Nat, NEW m \in Nat, NEW x,
         TurnAt(key, flags, degree, u, b, end, t, m, x), m > CHUNK_LEN
  PROVE  \E t1, m1 \in Nat : t1 > t /\ TurnGives(key, flags, degree, u, b, end, t1, m1, Turn(x))
<1> DEFINE from == (b + t) * CHUNK_LEN
           next == Turn(x)
<1>1. CHUNK_LEN \in Nat /\ CHUNK_LEN >= 2
  BY SizesAre
<1>2. from \in Nat
  BY <1>1
<1>3. Len(x.input) = m
  <2> HIDE DEF from
  <2>1. IsCut(u, from, m, Cut(u, from, m))
    BY <1>2, CutIs
  <2>2. x.input = Cut(u, from, m)
    BY DEF TurnAt, from
  <2> QED
    BY <2>1, <2>2 DEF IsCut
<1>4. PICK st : /\ StackAt(key, flags, u, b, t, st)
                /\ x.hasher = AtChunk(key, flags, degree, u, b, t, 0, st)
  BY DEF TurnAt
<1>5. next = Hasher!AddSubtree(AtChunk(key, flags, degree, u, b, t, 0, st), Cut(u, from, m))
  BY <1>3, <1>4 DEF Turn, TurnAt
<1>6. Room(b, t * CHUNK_LEN + m)
  BY DEF TurnAt
<1>7. PICK j \in Nat : Turned(key, flags, degree, u, b, t, m, next, j)
  <2>1. \E j \in Nat : Turned(key, flags, degree, u, b, t, m,
           Hasher!AddSubtree(AtChunk(key, flags, degree, u, b, t, 0, st),
                             Cut(u, (b + t) * CHUNK_LEN, m)), j)
    BY <1>4, <1>6, SubtreeAdded, Zenon
  <2> HIDE DEF next
  <2> QED
    BY <1>5, <2>1 DEF from
<1> HIDE DEF next, from
<1> DEFINE d == 2 ^ j
           t1 == t + d
           m1 == m - Tall(j)
<1>8. d \in Nat \ {0} /\ Tall(j) = CHUNK_LEN * d /\ Tall(j) \in Nat
  BY TallIs, Zenon
<1>9. Tall(j) <= m /\ next.input = Cut(u, (b + t1) * CHUNK_LEN, m1)
      /\ LooseAt(key, flags, degree, u, b, t1, next.hasher)
      /\ (j # 0 => PairAt(key, flags, degree, u, b, t1, next.hasher))
  BY <1>7 DEF Turned
<1> HIDE DEF d
<1>10. t1 \in Nat /\ m1 \in Nat /\ t1 > t
  BY <1>8, <1>9
<1>11. t1 * CHUNK_LEN + m1 = end
  <2>1. t * CHUNK_LEN + m = end
    BY DEF TurnAt
  <2>2. (t + d) * CHUNK_LEN = t * CHUNK_LEN + CHUNK_LEN * d
    BY <1>1, <1>8
  <2> DEFINE p == t * CHUNK_LEN
             q == CHUNK_LEN * d
  <2>3. p \in Nat /\ q \in Nat
    BY <1>1, <1>8
  <2> HIDE DEF p, q
  <2> QED
    BY <1>8, <1>9, <2>1, <2>2, <2>3 DEF p, q
<1>12. m1 = 0 => j # 0
  <2>1. j = 0 => Tall(j) = CHUNK_LEN
    BY TallIs
  <2> QED
    BY <1>1, <1>8, <1>9, <2>1
<1> HIDE DEF t1, m1
<1>13. \E s : /\ StackAt(key, flags, u, b, t1, s)
              /\ next.hasher = AtChunk(key, flags, degree, u, b, t1, 0, s)
  <2>1. PICK h, k \in Nat :
          /\ t1 = (k + 1) * 2 ^ h
          /\ next.hasher = AtChunk(key, flags, degree, u, b, t1, 0, LooseStack(key, flags, u, b, h, k))
    BY <1>9 DEF LooseAt
  <2>2. StackAt(key, flags, u, b, t1, LooseStack(key, flags, u, b, h, k))
    BY <2>1 DEF StackAt
  <2> QED
    BY <2>1, <2>2
<1>14. TurnAt(key, flags, degree, u, b, end, t1, m1, next)
  BY <1>9, <1>11, <1>13 DEF TurnAt
<1>15. TurnGives(key, flags, degree, u, b, end, t1, m1, next)
  BY <1>9, <1>12, <1>14 DEF TurnGives
<1> QED
  BY <1>10, <1>15 DEF next

\* The loop, from chunk t on
SubtreesIs(key, flags, degree, u, b, t, m, st) ==
  LET h == AtChunk(key, flags, degree, u, b, t, 0, st)
      after == Hasher!UpdateSubtrees(h, Cut(u, (b + t) * CHUNK_LEN, m))
  IN  IF m = 0 THEN after = h
      ELSE HasherAt(key, flags, degree, u, b, t * CHUNK_LEN + m, after)

\* All turns of the loop, and the end of the update
LEMMA SubtreesAdded ==
  ASSUME NEW key, NEW flags, NEW degree, NEW u \in Units, NEW b \in Nat, Hasher!SizesAssumption,
         Fits(degree), NEW t \in Nat, NEW st, StackAt(key, flags, u, b, t, st),
         NEW m \in Nat, Room(b, t * CHUNK_LEN + m)
  PROVE  SubtreesIs(key, flags, degree, u, b, t, m, st)
<1> DEFINE from == (b + t) * CHUNK_LEN
           input == Cut(u, from, m)
           h == AtChunk(key, flags, degree, u, b, t, 0, st)
           end == t * CHUNK_LEN + m
           first == [hasher |-> h, input |-> input]
           n == Len(input) \div CHUNK_LEN
           turn == CHOOSE f : Turns(first, n, f)
<1>1. CHUNK_LEN \in Nat /\ CHUNK_LEN >= 2
  BY SizesAre
<1>2. from \in Nat /\ end \in Nat
  BY <1>1
<1>3. Len(input) = m /\ n \in Nat /\ n = m \div CHUNK_LEN
  <2> HIDE DEF from
  <2>1. IsCut(u, from, m, Cut(u, from, m))
    BY <1>2, CutIs
  <2>2. Len(input) = m
    BY <2>1 DEF IsCut
  <2> HIDE DEF input
  <2> QED
    BY <1>1, <2>2
<1>4. Hasher!UpdateSubtrees(h, input)
        = Hasher!AddLastChunk(turn[n].hasher, turn[n].input)
  <2> HIDE DEF h, input
  <2> QED
    BY DEF Hasher!UpdateSubtrees, Turns, Turn
<1>5. Turns(first, n, turn)
  <2> HIDE DEF first, n
  <2> QED
    BY <1>3, TurnsExist, Zenon
<1> HIDE DEF turn
<1>6. turn[0] = first /\ \A i \in Nat : i + 1 <= n => turn[i + 1] = Turn(turn[i])
  <2> HIDE DEF first, n
  <2>1. \A i \in 0 .. n : turn[i] = IF i = 0 THEN first ELSE Turn(turn[i - 1])
    BY <1>5, Zenon DEF Turns
  <2>2. turn[0] = first
    BY <1>3, <2>1
  <2>3. ASSUME NEW i \in Nat, i + 1 <= n PROVE turn[i + 1] = Turn(turn[i])
    <3>1. i + 1 \in 0 .. n /\ i + 1 # 0 /\ (i + 1) - 1 = i
      BY <1>3, <2>3
    <3> QED
      BY <2>1, <3>1
  <2> QED
    BY <2>2, <2>3
<1> DEFINE After(i, x) == \E t1, m1 \in Nat :
             /\ TurnAt(key, flags, degree, u, b, end, t1, m1, x)
             /\ t1 >= t
             /\ t1 >= t + i \/ m1 <= CHUNK_LEN
             /\ m1 = 0 => IF m = 0 THEN x = first
                          ELSE PairAt(key, flags, degree, u, b, t1, x.hasher)
           S == {i \in Nat : i <= n => After(i, turn[i])}
<1>7. 0 \in S
  <2> DEFINE z == 0
  <2>1. TurnAt(key, flags, degree, u, b, end, t, m, first)
    <3>1. first.hasher = h /\ first.input = Cut(u, (b + t) * CHUNK_LEN, m)
      OBVIOUS
    <3> HIDE DEF first
    <3> QED
      BY <3>1 DEF TurnAt
  <2>2. t >= t + z
    OBVIOUS
  <2> HIDE DEF first, z, end
  <2>3. After(z, first)
    BY <2>1, <2>2
  <2> HIDE DEF After
  <2> QED
    BY <1>6, <2>3 DEF z
<1>8. ASSUME NEW i \in Nat, i \in S PROVE i + 1 \in S
  <2> DEFINE k == i + 1
  <2>1. k \in Nat /\ (k <= n => i <= n) /\ k > i
    BY <1>3
  <2>2. ASSUME k <= n PROVE After(k, turn[k])
    <3> DEFINE x == turn[i]
    <3>1. turn[k] = Turn(x)
      BY <1>6, <2>2, Zenon
    <3>2. PICK t1, m1 \in Nat :
             /\ TurnAt(key, flags, degree, u, b, end, t1, m1, x)
             /\ t1 >= t
             /\ t1 >= t + i \/ m1 <= CHUNK_LEN
             /\ m1 = 0 => IF m = 0 THEN x = first
                          ELSE PairAt(key, flags, degree, u, b, t1, x.hasher)
      BY <1>8, <2>1, <2>2
    <3> HIDE DEF x, k, first, from
    <3>3. CASE m1 <= CHUNK_LEN
      <4>1. Len(x.input) = m1
        <5> DEFINE a == (b + t1) * CHUNK_LEN
        <5>1. a \in Nat
          BY <1>1
        <5>2. x.input = Cut(u, a, m1)
          BY <3>2 DEF TurnAt
        <5> HIDE DEF a
        <5>3. IsCut(u, a, m1, Cut(u, a, m1))
          BY <5>1, CutIs
        <5> QED
          BY <5>2, <5>3 DEF IsCut
      <4>2. Turn(x) = x
        BY <3>3, <4>1, <1>1 DEF Turn
      <4> QED
        BY <3>1, <3>2, <3>3, <4>2
    <3>4. CASE m1 > CHUNK_LEN
      <4> HIDE DEF end
      <4>1. Room(b, end)
        BY DEF end
      <4>2. PICK t2, m2 \in Nat : t2 > t1 /\ TurnGives(key, flags, degree, u, b, end, t2, m2, Turn(x))
        BY <1>2, <3>2, <3>4, <4>1, TurnTaken
      <4>3. t2 >= t + k /\ t2 >= t
        BY <1>1, <3>2, <3>4, <4>2, <2>1 DEF k
      <4>4. m # 0
        <5>1. t * CHUNK_LEN + m = t1 * CHUNK_LEN + m1
          BY <3>2 DEF TurnAt, end
        <5>2. t1 * CHUNK_LEN >= t * CHUNK_LEN
          <6>1. t1 >= t
            BY <3>2, <3>4, <1>1
          <6> QED
            BY <6>1, <1>1
        <5> DEFINE p == t * CHUNK_LEN
                   q == t1 * CHUNK_LEN
        <5>3. p \in Nat /\ q \in Nat
          BY <1>1
        <5> HIDE DEF p, q
        <5> QED
          BY <1>1, <3>4, <5>1, <5>2, <5>3 DEF p, q
      <4> QED
        BY <3>1, <4>2, <4>3, <4>4 DEF TurnGives
    <3> QED
      BY <1>1, <3>3, <3>4
  <2> HIDE DEF k, After
  <2>3. k \in S
    BY <2>1, <2>2
  <2> QED
    BY <2>3 DEF k
<1>9. \A i \in Nat : i \in S
  <2> HIDE DEF S
  <2> QED
    BY <1>7, <1>8, Induction
<1> DEFINE x == turn[n]
<1>10. PICK t1, m1 \in Nat :
             /\ TurnAt(key, flags, degree, u, b, end, t1, m1, x)
             /\ t1 >= t
             /\ t1 >= t + n \/ m1 <= CHUNK_LEN
             /\ m1 = 0 => IF m = 0 THEN x = first
                          ELSE PairAt(key, flags, degree, u, b, t1, x.hasher)
  <2>1. After(n, turn[n])
    <3> HIDE DEF After, n
    <3> QED
      BY <1>3, <1>9
  <2> QED
    BY <2>1
<1> HIDE DEF x
<1>11. m1 <= CHUNK_LEN
  <2>1. CASE t1 >= t + n
    <3>1. t1 * CHUNK_LEN + m1 = t * CHUNK_LEN + m
      BY <1>10 DEF TurnAt
    <3>2. t1 * CHUNK_LEN >= (t + n) * CHUNK_LEN
      <4> HIDE DEF n
      <4> QED
        BY <1>1, <1>3, <2>1
    <3>3. (t + n) * CHUNK_LEN = t * CHUNK_LEN + n * CHUNK_LEN
      <4> HIDE DEF n
      <4> QED
        BY <1>1, <1>3
    <3>4. m - n * CHUNK_LEN < CHUNK_LEN
      <4>1. \A a \in Nat, d \in Nat \ {0} : a \div d \in Nat /\ a < (a \div d + 1) * d
        OBVIOUS
      <4>2. m < (m \div CHUNK_LEN + 1) * CHUNK_LEN
        <5>1. CHUNK_LEN \in Nat \ {0}
          BY <1>1
        <5> QED
          BY <4>1, <5>1
      <4> HIDE DEF n
      <4>3. m < (n + 1) * CHUNK_LEN
        BY <1>3, <4>2
      <4>4. (n + 1) * CHUNK_LEN = n * CHUNK_LEN + CHUNK_LEN
        BY <1>1, <1>3
      <4> DEFINE r == n * CHUNK_LEN
      <4>5. r \in Nat
        BY <1>1, <1>3
      <4>6. m < r + CHUNK_LEN
        BY <4>3, <4>4
      <4> HIDE DEF r
      <4>7. m - r < CHUNK_LEN
        BY <1>1, <4>5, <4>6
      <4> QED
        BY <4>7 DEF r
    <3> DEFINE p == t1 * CHUNK_LEN
               q == t * CHUNK_LEN
               r == n * CHUNK_LEN
    <3>5. p \in Int /\ q \in Int /\ r \in Int
      <4> HIDE DEF n
      <4> QED
        BY <1>1, <1>3
    <3> HIDE DEF n
    <3>6. p + m1 = q + m /\ p >= q + r /\ m - r < CHUNK_LEN
      BY <3>1, <3>2, <3>3, <3>4
    <3> HIDE DEF p, q, r
    <3> QED
      BY <1>1, <3>5, <3>6
  <2> QED
    BY <1>10, <2>1
<1>12. PICK s1 : /\ StackAt(key, flags, u, b, t1, s1)
                 /\ x.hasher = AtChunk(key, flags, degree, u, b, t1, 0, s1)
  BY <1>10 DEF TurnAt
<1>13. Hasher!UpdateSubtrees(h, input)
         = IF m1 = 0 THEN x.hasher
           ELSE AtChunk(key, flags, degree, u, b, t1, m1, StackOf(key, flags, u, b, t1))
  <2>1. LastIs(key, flags, degree, u, b, t1, m1, s1)
    BY <1>1, <1>11, <1>12, LastAdded
  <2>2. x.input = Cut(u, (b + t1) * CHUNK_LEN, m1)
    BY <1>10 DEF TurnAt
  <2> HIDE DEF h, input, n
  <2> QED
    BY <1>4, <1>12, <2>1, <2>2 DEF LastIs, x
<1>14. end = t1 * CHUNK_LEN + m1
  BY <1>10 DEF TurnAt
<1> HIDE DEF h, input
<1>15. CASE m = 0
  <2>1. m1 = 0
    <3>1. t1 >= t
      BY <1>10
    <3>2. t1 * CHUNK_LEN >= t * CHUNK_LEN
      BY <3>1, <1>1
    <3> DEFINE p == t1 * CHUNK_LEN
               q == t * CHUNK_LEN
    <3>3. p \in Int /\ q \in Int /\ p >= q /\ q = p + m1
      BY <1>1, <1>14, <1>15, <3>2
    <3> HIDE DEF p, q
    <3> QED
      BY <3>3
  <2>2. x = first
    BY <1>10, <1>15, <2>1
  <2> QED
    BY <1>13, <1>15, <2>1, <2>2 DEF SubtreesIs, input, h
<1>16. CASE m # 0
  <2>1. HasherAt(key, flags, degree, u, b, end, Hasher!UpdateSubtrees(h, input))
    <3>1. CASE m1 = 0
      <4>1. PairAt(key, flags, degree, u, b, t1, x.hasher)
        BY <1>10, <1>16, <3>1
      <4>2. end = t1 * CHUNK_LEN
        BY <1>14, <3>1, <1>1
      <4> HIDE DEF end
      <4> QED
        BY <1>13, <3>1, <4>1, <4>2 DEF HasherAt
    <3>2. CASE m1 # 0
      <4>1. m1 \in 1 .. CHUNK_LEN
        BY <1>1, <1>11, <3>2
      <4> HIDE DEF end
      <4> QED
        BY <1>13, <1>14, <3>2, <4>1 DEF HasherAt
    <3> QED
      BY <3>1, <3>2
  <2> QED
    BY <1>16, <2>1 DEF SubtreesIs, input, h
<1> QED
  BY <1>15, <1>16

\* Before anything is pushed
LEMMA EmptyStack ==
  ASSUME NEW key, NEW flags, NEW u \in Units, NEW b \in Nat, Hasher!SizesAssumption
  PROVE  StackOf(key, flags, u, b, 0) = <<>> /\ StackAt(key, flags, u, b, 0, <<>>)
<1> DEFINE V == Vals(key, flags)
           merge == Merge(key, flags)
           row == Leaves(key, flags, u, b)
<1>1. merge \in [V -> [V -> V]]
  BY MergeIs, Zenon DEF Merges
<1>2. row \in Row(V)
  BY LeavesAre, SizesAre
<1>3. Waits(V, merge)[0][row] = <<>>
  <2> HIDE DEF V, merge, row
  <2>1. WaitsByPairs(V, merge, Waits(V, merge))
    BY <1>1, WaitsGrow
  <2> QED
    BY <1>2, <2>1 DEF WaitsByPairs
<1>4. StackOf(key, flags, u, b, 0) = <<>>
  BY <1>3 DEF StackOf
<1> QED
  BY <1>4 DEF StackAt

\* A full chunk is closed: the Hasher with the next chunk
ClosedIs(key, flags, degree, u, b, t, j, st) ==
  [Hasher!PushCv(AtChunk(key, flags, degree, u, b, t, j, st),
                 Hasher!ChainingValue(Hasher!ChunkOutput(
                   ChunkOf(key, flags, degree, u, b + t, CHUNK_LEN))), b + t)
     EXCEPT !.chunk_state = Hasher!NewChunkState(key, b + t + 1, flags, degree)]
    = AtChunk(key, flags, degree, u, b, t + 1, 0, LooseStack(key, flags, u, b, 0, t))

\* The chunk's value is pushed, and a new chunk state begins.
LEMMA ChunkClosed ==
  ASSUME NEW key, NEW flags, NEW degree, NEW u \in Units, NEW b \in Nat, Hasher!SizesAssumption,
         NEW t \in Nat, NEW j \in Nat, NEW st, StackAt(key, flags, u, b, t, st)
  PROVE  ClosedIs(key, flags, degree, u, b, t, j, st)
<1> DEFINE c == b + t
           s == ChunkOf(key, flags, degree, u, c, j)
           filled == ChunkOf(key, flags, degree, u, c, CHUNK_LEN)
           cv == Hasher!ChainingValue(Hasher!ChunkOutput(filled))
           loose == LooseStack(key, flags, u, b, 0, t)
           c1 == c + 1
           new == ChunkOf(key, flags, degree, u, c1, 0)
<1>1. CHUNK_LEN \in Nat \ {0} /\ Hasher!BLOCK_LEN = 2
  BY SizesAre
<1>2. c \in Nat /\ c1 \in Nat /\ c1 = b + (t + 1) /\ c1 = b + t + 1
  OBVIOUS
<1>3. cv = Subtree(key, flags, u, c, Tall(0))
  <2> HIDE DEF c
  <2>1. cv = Leaf(key, flags, u, c, CHUNK_LEN)
    <3>1. CHUNK_LEN \in Nat
      BY <1>1
    <3>2. Hasher!ChunkOutput(filled) = LeafOut(key, flags, u, c, CHUNK_LEN)
      BY <1>1, <1>2, <3>1, LeafOutIs
    <3> HIDE DEF filled
    <3> QED
      BY <3>2 DEF Leaf
  <2>2. SubtreeOfLeaf(key, flags, u, c, CHUNK_LEN)
    <3>1. CHUNK_LEN \in 0 .. CHUNK_LEN
      BY <1>1
    <3> QED
      BY <1>1, <1>2, <3>1, SubtreeLeaf
  <2>3. Tall(0) = CHUNK_LEN
    BY TallIs
  <2> HIDE DEF cv
  <2> QED
    BY <2>1, <2>2, <2>3 DEF SubtreeOfLeaf
<1>4. Hasher!PushCv(AHasher(key, s, b, st), cv, c) = AHasher(key, s, b, loose)
  <2> DEFINE z == 0
  <2>1. t = t * 2 ^ z /\ z \in Nat
    <3>1. 2 ^ 0 = 1
      BY PowerIsCount, SMT
    <3> QED
      BY <3>1
  <2>2. s.flags = flags
    BY DEF ChunkOf, Holding, AChunk
  <2> HIDE DEF s, z
  <2>3. PushLeaves(key, flags, u, b, s, st, c, z, t)
    BY <2>1, <2>2, SubtreePushed, Zenon
  <2> HIDE DEF cv
  <2> QED
    BY <1>3, <2>3 DEF PushLeaves, z
<1>5. Hasher!NewChunkState(key, c1, flags, degree) = new
  <2>1. CHUNK_LEN \in Nat
    BY <1>1
  <2> HIDE DEF c1
  <2> QED
    BY <1>2, <2>1, NewChunkIs
<1>6. [AHasher(key, s, b, loose) EXCEPT !.chunk_state = new] = AHasher(key, new, b, loose)
  <2> HIDE DEF s, new, loose
  <2> QED
    BY ChunkPut
<1> HIDE DEF s, loose, cv
<1>7. [Hasher!PushCv(AHasher(key, s, b, st), cv, c)
         EXCEPT !.chunk_state = Hasher!NewChunkState(key, c1, flags, degree)]
        = AHasher(key, new, b, loose)
  <2> HIDE DEF c1, c
  <2> QED
    BY <1>4, <1>5, <1>6
<1>8. c1 = b + t + 1 /\ c1 = b + (t + 1)
  BY <1>2
<1> HIDE DEF c1
<1> QED
  BY <1>7, <1>8 DEF ClosedIs, AtChunk, s, cv, loose, filled

\* An update with k units
UpdatedIs(key, flags, degree, u, b, n, k, g) ==
  HasherAt(key, flags, degree, u, b, n + k,
           Hasher!UpdateWithJoin(g, Cut(u, b * CHUNK_LEN + n, k)))

\* When no chunk is begun
LEMMA UpdatedBetween ==
  ASSUME NEW key, NEW flags, NEW degree, NEW u \in Units, NEW b \in Nat, Hasher!SizesAssumption,
         Fits(degree), NEW t \in Nat, NEW st, StackAt(key, flags, u, b, t, st), NEW k \in Nat,
         Room(b, t * CHUNK_LEN + k),
         HasherAt(key, flags, degree, u, b, t * CHUNK_LEN,
                  AtChunk(key, flags, degree, u, b, t, 0, st))
  PROVE  UpdatedIs(key, flags, degree, u, b, t * CHUNK_LEN, k,
                   AtChunk(key, flags, degree, u, b, t, 0, st))
<1> DEFINE g == AtChunk(key, flags, degree, u, b, t, 0, st)
           c == b + t
           s == ChunkOf(key, flags, degree, u, c, 0)
           from == c * CHUNK_LEN
           input == Cut(u, from, k)
           n == t * CHUNK_LEN
<1>1. CHUNK_LEN \in Nat /\ Hasher!BLOCK_LEN = 2
  BY SizesAre
<1>2. c \in Nat /\ from \in Nat /\ n \in Nat /\ from = b * CHUNK_LEN + n
  BY <1>1
<1>3. g.chunk_state = s
  BY DEF AtChunk, AHasher
<1>4. Hasher!ChunkCount(s) = 0
  <2> DEFINE z == 0
             cv == BlockCv(key, flags, u, c)[Blocks(z)]
             buf == Cut(u, c * CHUNK_LEN + 2 * Blocks(z), z - 2 * Blocks(z))
  <2>1. z \in Nat
    OBVIOUS
  <2> HIDE DEF c, z
  <2>2. ChunkIs(key, flags, degree, c, z, ChunkOf(key, flags, degree, u, c, z), cv, buf)
    BY <1>1, <1>2, <2>1, ChunkOfIs
  <2> HIDE DEF cv, buf
  <2> QED
    BY <2>2 DEF ChunkIs, z
<1> HIDE DEF s
<1>5. Hasher!UpdateWithJoin(g, input) = Hasher!UpdateSubtrees(g, input)
  <2> HIDE DEF g, input
  <2> QED
    BY <1>3, <1>4 DEF Hasher!UpdateWithJoin
<1>6. SubtreesIs(key, flags, degree, u, b, t, k, st)
  BY SubtreesAdded
<1>7. HasherAt(key, flags, degree, u, b, n + k, Hasher!UpdateSubtrees(g, input))
  <2>1. CASE k = 0
    <3>1. Hasher!UpdateSubtrees(g, input) = g
      BY <1>6, <2>1 DEF SubtreesIs
    <3>2. n + k = n
      BY <1>2, <2>1
    <3> HIDE DEF g, n, input
    <3>3. HasherAt(key, flags, degree, u, b, n, g)
      BY DEF n, g
    <3> QED
      BY <3>1, <3>2, <3>3
  <2>2. CASE k # 0
    BY <1>6, <2>2 DEF SubtreesIs
  <2> QED
    BY <2>1, <2>2
<1> HIDE DEF g, from
<1>8. HasherAt(key, flags, degree, u, b, n + k, Hasher!UpdateWithJoin(g, Cut(u, from, k)))
  BY <1>5, <1>7
<1> QED
  BY <1>2, <1>8 DEF UpdatedIs, g

\* When j units of a chunk are there
LEMMA UpdatedWithin ==
  ASSUME NEW key, NEW flags, NEW degree, NEW u \in Units, NEW b \in Nat, Hasher!SizesAssumption,
         Fits(degree), NEW t \in Nat, NEW j \in 1 .. CHUNK_LEN, NEW k \in Nat,
         Room(b, t * CHUNK_LEN + j + k)
  PROVE  UpdatedIs(key, flags, degree, u, b, t * CHUNK_LEN + j, k,
                   AtChunk(key, flags, degree, u, b, t, j, StackOf(key, flags, u, b, t)))
<1> DEFINE st == StackOf(key, flags, u, b, t)
           h == AtChunk(key, flags, degree, u, b, t, j, st)
           c == b + t
           s == ChunkOf(key, flags, degree, u, c, j)
           n == t * CHUNK_LEN + j
           from == c * CHUNK_LEN + j
           input == Cut(u, from, k)
           room == CHUNK_LEN - j
           take == Hasher!Shorter(room, k)
           more == j + take
           filled == ChunkOf(key, flags, degree, u, c, more)
           rest == Cut(u, from + take, k - take)
           t1 == t + 1
           loose == LooseStack(key, flags, u, b, 0, t)
           g == AtChunk(key, flags, degree, u, b, t1, 0, loose)
           cv == Hasher!ChainingValue(Hasher!ChunkOutput(filled))
<1>1. CHUNK_LEN \in Nat \ {0} /\ CHUNK_LEN \in Nat /\ Hasher!BLOCK_LEN = 2
  BY SizesAre
<1>2. c \in Nat /\ from \in Nat /\ n \in Nat /\ from = b * CHUNK_LEN + n /\ j \in Nat /\ j # 0
      /\ j <= CHUNK_LEN /\ room \in Nat
  BY <1>1
<1>3. take \in 0 .. k /\ take <= room /\ more \in 1 .. CHUNK_LEN /\ more = j + take
      /\ (take # k => take = room /\ more = CHUNK_LEN)
  <2>1. take = IF room < k THEN room ELSE k
    BY DEF Hasher!Shorter
  <2> HIDE DEF take
  <2> QED
    BY <1>1, <1>2, <2>1
<1> HIDE DEF take
<1>4. StackAt(key, flags, u, b, t, st)
  BY DEF StackAt
<1>5. h.chunk_state = s /\ h.key = key
  BY DEF AtChunk, AHasher
<1>6. Hasher!ChunkCount(s) = j /\ s.chunk_counter = c /\ s.flags = flags /\ s.simd_degree = degree
  <2> DEFINE v == BlockCv(key, flags, u, c)[Blocks(j)]
             buf == Cut(u, c * CHUNK_LEN + 2 * Blocks(j), j - 2 * Blocks(j))
  <2> HIDE DEF c
  <2>1. ChunkIs(key, flags, degree, c, j, ChunkOf(key, flags, degree, u, c, j), v, buf)
    BY <1>1, <1>2, ChunkOfIs
  <2> HIDE DEF v, buf
  <2> QED
    BY <2>1 DEF ChunkIs
<1> HIDE DEF s
<1>7. Len(input) = k /\ Hasher!Taken(input, take) = Cut(u, from, take)
      /\ Hasher!Dropped(input, take) = rest
  <2> HIDE DEF from
  <2>1. IsCut(u, from, k, Cut(u, from, k))
    BY <1>2, CutIs
  <2>2. SplitIs(u, from, k, take)
    BY <1>2, <1>3, CutSplit
  <2>3. Len(Cut(u, from, k)) = k
    BY <2>1 DEF IsCut
  <2> QED
    BY <2>2, <2>3 DEF SplitIs
<1>8. Hasher!UpdateChunk(s, Cut(u, from, take)) = filled
  <2>1. take \in Nat /\ j + take <= CHUNK_LEN
    BY <1>1, <1>2, <1>3
  <2> HIDE DEF c
  <2>2. UpdatesChunk(key, flags, degree, u, c, j, take)
    BY <1>1, <1>2, <2>1, ChunkUpdated
  <2> QED
    BY <2>2 DEF UpdatesChunk, s
<1> HIDE DEF filled, input, rest
<1>9. take = Hasher!Shorter(CHUNK_LEN - Hasher!ChunkCount(h.chunk_state), Len(input))
  <2> HIDE DEF h, s
  <2> QED
    BY <1>5, <1>6, <1>7 DEF take
<1>10. CASE take = k
  <2>1. Hasher!UpdateWithJoin(h, input) = [h EXCEPT !.chunk_state = filled]
    <3> HIDE DEF h
    <3> QED
      BY <1>2, <1>5, <1>6, <1>7, <1>8, <1>9, <1>10 DEF Hasher!UpdateWithJoin
  <2>2. [h EXCEPT !.chunk_state = filled] = AHasher(key, filled, b, st)
    <3> HIDE DEF st, c
    <3> QED
      BY ChunkPut DEF AtChunk
  <2>3. AHasher(key, filled, b, st) = AtChunk(key, flags, degree, u, b, t, more, st)
    BY DEF AtChunk, filled
  <2>4. n + k = t * CHUNK_LEN + more
    <3> DEFINE p == t * CHUNK_LEN
    <3>1. p \in Nat
      BY <1>1
    <3> HIDE DEF p
    <3>2. (p + j) + k = p + (j + k)
      BY <1>2, <3>1
    <3> QED
      BY <1>3, <1>10, <3>2 DEF p
  <2> HIDE DEF n, more
  <2>5. HasherAt(key, flags, degree, u, b, n + k, AtChunk(key, flags, degree, u, b, t, more, st))
    BY <1>3, <2>4 DEF HasherAt
  <2> HIDE DEF h, from
  <2>6. HasherAt(key, flags, degree, u, b, n + k, Hasher!UpdateWithJoin(h, input))
    BY <2>1, <2>2, <2>3, <2>5
  <2> QED
    BY <1>2, <2>6 DEF UpdatedIs, input, h, n
<1>11. CASE take # k
  <2> DEFINE left == k - take
             closed == [Hasher!PushCv(h, cv, c)
                          EXCEPT !.chunk_state = Hasher!NewChunkState(key, c + 1, flags, degree)]
  <2>1. more = CHUNK_LEN /\ take = room /\ left \in Nat \ {0} /\ left \in Nat
    BY <1>3, <1>11
  <2>2. closed = g
    <3>1. ClosedIs(key, flags, degree, u, b, t, j, st)
      BY <1>2, <1>4, ChunkClosed
    <3>2. filled = ChunkOf(key, flags, degree, u, b + t, CHUNK_LEN)
      BY <2>1 DEF filled
    <3> HIDE DEF st, more
    <3> QED
      BY <3>1, <3>2 DEF ClosedIs
  <2>3. Hasher!UpdateWithJoin(h, input) = Hasher!UpdateSubtrees(closed, rest)
    <3>1. ~(take = Len(input))
      BY <1>7, <1>11
    <3> HIDE DEF h, take, c
    <3>2. closed = [Hasher!PushCv(h, cv, s.chunk_counter)
                      EXCEPT !.chunk_state =
                        Hasher!NewChunkState(h.key, s.chunk_counter + 1, s.flags, s.simd_degree)]
      BY <1>5, <1>6
    <3> HIDE DEF closed
    <3> QED
      BY <1>2, <1>5, <1>6, <1>7, <1>8, <1>9, <3>1, <3>2, Zenon DEF Hasher!UpdateWithJoin
  <2> HIDE DEF closed
  <2>4. n + k = t1 * CHUNK_LEN + left /\ from + take = (b + t1) * CHUNK_LEN /\ t1 \in Nat
    <3>1. t1 * CHUNK_LEN = t * CHUNK_LEN + CHUNK_LEN /\ t1 \in Nat
      BY <1>1
    <3>2. (b + t1) * CHUNK_LEN = c * CHUNK_LEN + CHUNK_LEN
      BY <1>1, <1>2
    <3> DEFINE p == t * CHUNK_LEN
               q == c * CHUNK_LEN
    <3>3. p \in Nat /\ q \in Nat
      BY <1>1, <1>2
    <3> HIDE DEF p, q, c, t1
    <3>4. (p + j) + k = (p + CHUNK_LEN) + left
      BY <1>1, <1>2, <1>3, <2>1, <3>3
    <3>5. (q + j) + take = q + CHUNK_LEN
      BY <1>1, <1>2, <1>3, <2>1, <3>3
    <3> HIDE DEF left
    <3> QED
      BY <3>1, <3>2, <3>4, <3>5 DEF p, q
  <2>5. StackAt(key, flags, u, b, t1, loose)
    <3> DEFINE z == 0
    <3>1. t1 = (t + 1) * 2 ^ z /\ z \in Nat
      <4>1. 2 ^ 0 = 1
        BY PowerIsCount, SMT
      <4> QED
        BY <4>1
    <3> HIDE DEF z, t1
    <3>2. StackAt(key, flags, u, b, t1, LooseStack(key, flags, u, b, z, t))
      BY <3>1 DEF StackAt
    <3> QED
      BY <3>2 DEF z
  <2>6. Room(b, t1 * CHUNK_LEN + left)
    <3>1. n + k = t * CHUNK_LEN + j + k
      OBVIOUS
    <3> HIDE DEF n, left, t1
    <3> QED
      BY <2>4, <3>1
  <2> HIDE DEF t1, loose, left
  <2>7. SubtreesIs(key, flags, degree, u, b, t1, left, loose)
    BY <2>1, <2>4, <2>5, <2>6, SubtreesAdded
  <2>8. rest = Cut(u, (b + t1) * CHUNK_LEN, left)
    BY <2>4 DEF rest, left
  <2>9. HasherAt(key, flags, degree, u, b, t1 * CHUNK_LEN + left, Hasher!UpdateSubtrees(g, rest))
    BY <2>1, <2>7, <2>8 DEF SubtreesIs
  <2> HIDE DEF g, h, from
  <2>10. HasherAt(key, flags, degree, u, b, n + k, Hasher!UpdateWithJoin(h, input))
    BY <2>2, <2>3, <2>4, <2>9
  <2> HIDE DEF n
  <2> QED
    BY <1>2, <2>10 DEF UpdatedIs, input, h, n
<1> QED
  BY <1>10, <1>11

\* update, from any place on
LEMMA Updated ==
  ASSUME NEW key, NEW flags, NEW degree, NEW u \in Units, NEW b \in Nat, Hasher!SizesAssumption,
         Fits(degree), NEW n \in Nat, NEW g, HasherAt(key, flags, degree, u, b, n, g),
         NEW k \in Nat, Room(b, n + k)
  PROVE  UpdatedIs(key, flags, degree, u, b, n, k, g)
<1>1. CHUNK_LEN \in Nat
  BY SizesAre
<1>2. CASE n = 0 /\ g = AtChunk(key, flags, degree, u, b, 0, 0, <<>>)
  <2> DEFINE z == 0
             e == <<>>
  <2>1. z \in Nat /\ z * CHUNK_LEN = n /\ g = AtChunk(key, flags, degree, u, b, z, 0, e)
    BY <1>1, <1>2
  <2>2. StackAt(key, flags, u, b, z, e)
    BY EmptyStack
  <2> HIDE DEF z, e
  <2>3. Room(b, z * CHUNK_LEN + k)
    BY <2>1
  <2>4. HasherAt(key, flags, degree, u, b, z * CHUNK_LEN, AtChunk(key, flags, degree, u, b, z, 0, e))
    BY <2>1
  <2>5. UpdatedIs(key, flags, degree, u, b, z * CHUNK_LEN, k,
                  AtChunk(key, flags, degree, u, b, z, 0, e))
    BY <2>1, <2>2, <2>3, <2>4, UpdatedBetween
  <2> QED
    BY <2>1, <2>5
<1>3. ASSUME NEW t \in Nat, NEW j \in 1 .. CHUNK_LEN, n = t * CHUNK_LEN + j,
             g = AtChunk(key, flags, degree, u, b, t, j, StackOf(key, flags, u, b, t))
      PROVE  UpdatedIs(key, flags, degree, u, b, n, k, g)
  <2>1. Room(b, t * CHUNK_LEN + j + k)
    BY <1>3
  <2>2. UpdatedIs(key, flags, degree, u, b, t * CHUNK_LEN + j, k,
                   AtChunk(key, flags, degree, u, b, t, j, StackOf(key, flags, u, b, t)))
    BY <2>1, UpdatedWithin
  <2> QED
    BY <1>3, <2>2
<1>4. ASSUME NEW t \in Nat, n = t * CHUNK_LEN, PairAt(key, flags, degree, u, b, t, g)
      PROVE  UpdatedIs(key, flags, degree, u, b, n, k, g)
  <2>1. PICK h, m \in Nat :
          /\ t = (m + 1) * 2 ^ h
          /\ g = AtChunk(key, flags, degree, u, b, t, 0, LooseStack(key, flags, u, b, h, m))
    BY <1>4 DEF PairAt
  <2> DEFINE st == LooseStack(key, flags, u, b, h, m)
  <2>2. StackAt(key, flags, u, b, t, st)
    BY <2>1 DEF StackAt
  <2> HIDE DEF st
  <2>3. g = AtChunk(key, flags, degree, u, b, t, 0, st)
    BY <2>1 DEF st
  <2>4. HasherAt(key, flags, degree, u, b, t * CHUNK_LEN, AtChunk(key, flags, degree, u, b, t, 0, st))
    BY <1>4, <2>3
  <2>5. Room(b, t * CHUNK_LEN + k)
    BY <1>4
  <2>6. UpdatedIs(key, flags, degree, u, b, t * CHUNK_LEN, k,
                  AtChunk(key, flags, degree, u, b, t, 0, st))
    BY <2>2, <2>4, <2>5, UpdatedBetween
  <2> QED
    BY <1>4, <2>3, <2>6
<1> QED
  BY <1>2, <1>3, <1>4 DEF HasherAt

(***************************************************************************)
(* The output of what was accepted so far.                                 *)
(***************************************************************************)

\* Only 0 has no ones.
LEMMA SomeOnes ==
  \A n \in Nat : Hasher!CountOnes[n] \in Nat /\ (n # 0 => Hasher!CountOnes[n] # 0)
<1> DEFINE S == {n \in Nat : n # 0 => Hasher!CountOnes[n] # 0}
<1>1. 0 \in S
  OBVIOUS
<1>2. ASSUME NEW n \in Nat, n \in S PROVE 2 * n \in S /\ 2 * n + 1 \in S
  <2>1. /\ Hasher!CountOnes[n] \in Nat
        /\ Hasher!CountOnes[2 * n] = Hasher!CountOnes[n]
        /\ Hasher!CountOnes[2 * n + 1] = Hasher!CountOnes[n] + 1
    BY OnesOfPairs
  <2>2. n # 0 => Hasher!CountOnes[n] # 0
    BY <1>2
  <2> QED
    BY <2>1, <2>2
<1>3. \A n \in Nat : n \in S
  <2> HIDE DEF S
  <2> QED
    BY <1>1, <1>2, Doubling
<1> QED
  BY <1>3, OnesOfPairs

\* The node o merged with k values of a stack, the last of them first: the node
\* after each merge
NodesMerged(stack, key, flags, o, k, f) ==
  /\ f[0] = o
  /\ \A n \in 1 .. k :
       f[n] = Hasher!ParentNodeOutput(stack[k - n + 1], Hasher!ChainingValue(f[n - 1]), key, flags)

\* They are the nodes of what the values fold to.
NodesFold(key, flags, st, v, f) ==
  \A n \in 0 .. Len(st) : IsNode(f[n], Fold(Vals(key, flags), Merge(key, flags), st, v)[n])

\* By induction on the merges
LEMMA MergedNodes ==
  ASSUME NEW key, NEW flags, NEW st \in Seq(Vals(key, flags)), NEW v \in Vals(key, flags),
         NEW o, IsNode(o, v), NEW f, NodesMerged(st, key, flags, o, Len(st), f)
  PROVE  NodesFold(key, flags, st, v, f)
<1> DEFINE V == Vals(key, flags)
           merge == Merge(key, flags)
           k == Len(st)
           fold == Fold(V, merge, st, v)
           S == {n \in Nat : n <= k => IsNode(f[n], fold[n])}
<1>1. merge \in [V -> [V -> V]]
  BY MergeIs, Zenon DEF Merges
<1>2. k \in Nat
  OBVIOUS
<1>3. Folds(V, merge, st, v, fold)
  <2> HIDE DEF V, merge
  <2>1. st \in Seq(V) /\ v \in V
    BY DEF V
  <2> QED
    BY <1>1, <2>1, FoldIs, Zenon
<1> HIDE DEF fold
<1>4. 0 \in S
  <2>1. f[0] = o /\ fold[0] = v
    BY <1>3 DEF NodesMerged, Folds
  <2> QED
    BY <2>1
<1>5. ASSUME NEW n \in Nat, n \in S PROVE n + 1 \in S
  <2> DEFINE n1 == n + 1
             a == st[k - n1 + 1]
             x == fold[n]
  <2>1. n1 \in Nat /\ n1 - 1 = n
    OBVIOUS
  <2>2. ASSUME n1 <= k PROVE IsNode(f[n1], fold[n1])
    <3>1. n1 \in 1 .. k /\ n \in 0 .. k /\ k - n1 + 1 \in 1 .. k
      BY <1>2, <2>1, <2>2
    <3>2. IsNode(f[n], x)
      BY <1>5, <3>1
    <3>3. a \in V /\ x \in V
      BY <1>3, <3>1 DEF Folds
    <3>4. fold[n1] = merge[a][x]
      <4> HIDE DEF n1, V, merge
      <4> QED
        BY <1>3, <2>1, <3>1, Zenon DEF Folds
    <3>5. f[n1] = Hasher!ParentNodeOutput(a, Hasher!ChainingValue(f[n]), key, flags)
      <4> HIDE DEF n1
      <4> QED
        BY <2>1, <3>1 DEF NodesMerged
    <3> HIDE DEF a, x, n1
    <3>6. Hasher!ChainingValue(f[n]) = x
      BY <3>2, NodeIs
    <3>7. IsNode(Hasher!ParentNodeOutput(a, x, key, flags), merge[a][x])
      BY <3>3, ParentNode
    <3> HIDE DEF merge
    <3> QED
      BY <3>4, <3>5, <3>6, <3>7
  <2> HIDE DEF n1
  <2>3. n1 \in S
    BY <2>1, <2>2
  <2> QED
    BY <2>3 DEF n1
<1>6. \A n \in Nat : n \in S
  <2> HIDE DEF S
  <2> QED
    BY <1>4, <1>5, Induction
<1>7. \A n \in 0 .. Len(st) : IsNode(f[n], fold[n])
  BY <1>2, <1>6
<1> QED
  BY <1>7 DEF NodesFold, fold

\* There are such nodes.
LEMMA NodesExist ==
  ASSUME NEW key, NEW flags, NEW st \in Seq(Vals(key, flags)), NEW v \in Vals(key, flags),
         NEW o, IsNode(o, v)
  PROVE  \E f : /\ f = [n \in 0 .. Len(st) |->
                          IF n = 0 THEN o
                          ELSE Hasher!ParentNodeOutput(st[Len(st) - n + 1],
                                 Hasher!ChainingValue(f[n - 1]), key, flags)]
<1> DEFINE V == Vals(key, flags)
           merge == Merge(key, flags)
           k == Len(st)
           fold == Fold(V, merge, st, v)
           P(n, x) == Hasher!ParentNodeOutput(st[k - n + 1], x, key, flags)
           f == [n \in 0 .. k |-> IF n = 0 THEN o ELSE P(n, fold[n - 1])]
<1>1. merge \in [V -> [V -> V]]
  BY MergeIs, Zenon DEF Merges
<1>2. k \in Nat
  OBVIOUS
<1>3. Folds(V, merge, st, v, fold)
  <2> HIDE DEF V, merge
  <2>1. st \in Seq(V) /\ v \in V
    BY DEF V
  <2> QED
    BY <1>1, <2>1, FoldIs
<1> HIDE DEF fold
<1>4. ASSUME NEW n \in 0 .. k PROVE Hasher!ChainingValue(f[n]) = fold[n]
  <2>1. CASE n = 0
    <3>1. f[n] = o /\ fold[n] = v
      BY <1>3, <2>1 DEF Folds
    <3> HIDE DEF f
    <3> QED
      BY <3>1, NodeIs
  <2>2. CASE n # 0
    <3> DEFINE a == st[k - n + 1]
               x == fold[n - 1]
    <3>1. n \in 1 .. k /\ n - 1 \in 0 .. k /\ k - n + 1 \in 1 .. k
      BY <1>2, <2>2
    <3>2. a \in V /\ x \in V
      BY <1>3, <3>1 DEF Folds
    <3>3. fold[n] = merge[a][x]
      <4> HIDE DEF V, merge
      <4> QED
        BY <1>3, <3>1 DEF Folds
    <3>4. f[n] = P(n, x)
      <4> HIDE DEF P, x
      <4>1. f[n] = P(n, fold[n - 1])
        BY <2>2
      <4> QED
        BY <4>1 DEF x
    <3> HIDE DEF a, x, f
    <3>5. Hasher!ChainingValue(Hasher!ParentNodeOutput(a, x, key, flags)) = merge[a][x]
      BY <3>2, ParentNode
    <3> HIDE DEF merge
    <3> QED
      BY <3>3, <3>4, <3>5 DEF a
  <2> QED
    BY <2>1, <2>2
<1>5. ASSUME NEW n \in 0 .. k
      PROVE f[n] = IF n = 0 THEN o ELSE P(n, Hasher!ChainingValue(f[n - 1]))
  <2>1. CASE n = 0
    BY <2>1
  <2>2. CASE n # 0
    <3>1. n - 1 \in 0 .. k
      BY <1>2, <2>2
    <3>2. Hasher!ChainingValue(f[n - 1]) = fold[n - 1]
      <4> HIDE DEF f
      <4> QED
        BY <1>4, <3>1
    <3>3. f[n] = P(n, fold[n - 1])
      <4> HIDE DEF P
      <4> QED
        BY <2>2
    <3> HIDE DEF f, P
    <3> QED
      BY <2>2, <3>2, <3>3
  <2> QED
    BY <2>1, <2>2
<1>6. f = [n \in 0 .. k |-> f[n]]
  OBVIOUS
<1>7. f = [n \in 0 .. k |-> IF n = 0 THEN o ELSE P(n, Hasher!ChainingValue(f[n - 1]))]
  <2> HIDE DEF f, P
  <2> QED
    BY <1>5, <1>6
<1> HIDE DEF f
<1> QED
  BY <1>7

\* The merges of finalize, over the first chaining values of the stack
LEMMA MergesRight ==
  ASSUME NEW key, NEW flags, NEW st \in Seq(Vals(key, flags)), NEW v \in Vals(key, flags),
         NEW o, IsNode(o, v), NEW g, g.key = key, g.chunk_state.flags = flags,
         \A i \in 1 .. Len(st) : g.cv_stack[i] = st[i]
  PROVE  IsNode(Hasher!MergeRight(g, o, Len(st)),
                Fold(Vals(key, flags), Merge(key, flags), st, v)[Len(st)])
<1> DEFINE k == Len(st)
           P(a, x) == Hasher!ParentNodeOutput(a, Hasher!ChainingValue(x), key, flags)
           Is(f) == f = [n \in 0 .. k |-> IF n = 0 THEN o ELSE P(g.cv_stack[k - n + 1], f[n - 1])]
           after == CHOOSE f : Is(f)
<1>1. k \in Nat
  OBVIOUS
<1>2. Hasher!MergeRight(g, o, k) = after[k]
  <2> HIDE DEF k
  <2> QED
    BY DEF Hasher!MergeRight
<1>3. \E f : Is(f)
  <2>1. PICK f : f = [n \in 0 .. Len(st) |->
                          IF n = 0 THEN o
                          ELSE Hasher!ParentNodeOutput(st[Len(st) - n + 1],
                                 Hasher!ChainingValue(f[n - 1]), key, flags)]
    BY NodesExist
  <2>2. f = [n \in 0 .. k |-> IF n = 0 THEN o ELSE P(st[k - n + 1], f[n - 1])]
    BY <2>1, Zenon
  <2> HIDE DEF P
  <2>3. ASSUME NEW n \in 0 .. k
        PROVE f[n] = IF n = 0 THEN o ELSE P(g.cv_stack[k - n + 1], f[n - 1])
    <3>1. n # 0 => k - n + 1 \in 1 .. k
      BY <1>1
    <3>2. n # 0 => g.cv_stack[k - n + 1] = st[k - n + 1]
      BY <3>1
    <3>3. f[n] = IF n = 0 THEN o ELSE P(st[k - n + 1], f[n - 1])
      BY <2>2, Zenon
    <3> QED
      BY <3>2, <3>3
  <2>4. f = [n \in 0 .. k |-> f[n]]
    BY <2>2
  <2> HIDE DEF k
  <2>5. Is(f)
    BY <2>3, <2>4
  <2> HIDE DEF Is
  <2> QED
    BY <2>5
<1>4. Is(after)
  <2> HIDE DEF Is
  <2> QED
    BY <1>3
<1> HIDE DEF after
<1>5. \A n \in 0 .. k : after[n] = IF n = 0 THEN o ELSE P(g.cv_stack[k - n + 1], after[n - 1])
  <2> HIDE DEF P, k
  <2> QED
    BY <1>4, Zenon
<1>6. NodesMerged(st, key, flags, o, k, after)
  <2>1. after[0] = o
    BY <1>1, <1>5
  <2>2. ASSUME NEW n \in 1 .. k PROVE after[n] = P(st[k - n + 1], after[n - 1])
    <3>1. n \in 0 .. k /\ n # 0 /\ k - n + 1 \in 1 .. k
      BY <1>1
    <3>2. g.cv_stack[k - n + 1] = st[k - n + 1]
      BY <3>1
    <3>3. after[n] = P(g.cv_stack[k - n + 1], after[n - 1])
      <4> HIDE DEF P, k
      <4> QED
        BY <1>5, <3>1
    <3> HIDE DEF P
    <3> QED
      BY <3>2, <3>3
  <2> HIDE DEF k
  <2> QED
    BY <2>1, <2>2 DEF NodesMerged
<1>7. NodesFold(key, flags, st, v, after)
  BY <1>6, MergedNodes
<1>8. k \in 0 .. Len(st)
  BY <1>1
<1> QED
  BY <1>2, <1>7, <1>8 DEF NodesFold

\* A parent of the reference
LEMMA RefParentIs ==
  \A a, b, key, flags :
    Hasher!Ref!ParentOutput(a, b, key, flags) = Hasher!ParentNodeOutput(a, b, key, flags)
<1> SUFFICES ASSUME NEW a, NEW b, NEW key, NEW flags
             PROVE Hasher!Ref!ParentOutput(a, b, key, flags)
                     = Hasher!ParentNodeOutput(a, b, key, flags)
  OBVIOUS
<1>1. {"PARENT"} \cup flags = flags \cup {"PARENT"}
  OBVIOUS
<1> DEFINE marks == flags \cup {"PARENT"}
           other == {"PARENT"} \cup flags
<1>2. Hasher!Ref!ParentOutput(a, b, key, flags)
        = Hasher!Output(key, <<a, b>>, Hasher!BLOCK_LEN, 0, other)
  BY DEF Hasher!Ref!ParentOutput, Hasher!Ref!Output, Hasher!Output, Hasher!BLOCK_LEN,
         Hasher!Ref!BLOCK_LEN, Hasher!OUT_LEN, Hasher!Ref!OUT_LEN
<1>3. Hasher!ParentNodeOutput(a, b, key, flags)
        = Hasher!Output(key, <<a, b>>, Hasher!BLOCK_LEN, 0, marks)
  BY DEF Hasher!ParentNodeOutput
<1>4. marks = other
  BY <1>1
<1> HIDE DEF marks, other
<1> QED
  BY <1>2, <1>3, <1>4

\* The merges of the reference's finalize, over the whole of its stack
LEMMA FoldsRef ==
  ASSUME NEW key, NEW flags, NEW st \in Seq(Vals(key, flags)), NEW v \in Vals(key, flags),
         NEW o, IsNode(o, v), NEW g, g.key_words = key, g.flags = flags, g.cv_stack = st
  PROVE  IsNode(Hasher!Ref!FoldParents(g, o, Len(st)),
                Fold(Vals(key, flags), Merge(key, flags), st, v)[Len(st)])
<1> DEFINE k == Len(st)
           R(a, x) == Hasher!Ref!ParentOutput(a, Hasher!Ref!ChainingValue(x), key, flags)
           P(a, x) == Hasher!ParentNodeOutput(a, Hasher!ChainingValue(x), key, flags)
           Is(f) == f = [n \in 0 .. k |-> IF n = 0 THEN o ELSE R(st[k - n + 1], f[n - 1])]
           after == CHOOSE f : Is(f)
<1>1. k \in Nat
  OBVIOUS
<1>2. Hasher!Ref!FoldParents(g, o, k) = after[k]
  <2> HIDE DEF k
  <2> QED
    BY DEF Hasher!Ref!FoldParents
<1>3. \A a, x : R(a, x) = P(a, x)
  <2> SUFFICES ASSUME NEW a, NEW x PROVE R(a, x) = P(a, x)
    OBVIOUS
  <2>1. Hasher!Ref!ChainingValue(x) = Hasher!ChainingValue(x)
    BY DEF Hasher!Ref!ChainingValue, Hasher!ChainingValue, Hasher!Ref!Compress, Hasher!Compress
  <2>2. \A y : Hasher!Ref!ParentOutput(a, y, key, flags) = Hasher!ParentNodeOutput(a, y, key, flags)
    BY RefParentIs
  <2> QED
    BY <2>1, <2>2
<1>4. \E f : Is(f)
  <2>1. PICK f : f = [n \in 0 .. Len(st) |->
                          IF n = 0 THEN o
                          ELSE Hasher!ParentNodeOutput(st[Len(st) - n + 1],
                                 Hasher!ChainingValue(f[n - 1]), key, flags)]
    BY NodesExist
  <2>2. f = [n \in 0 .. k |-> IF n = 0 THEN o ELSE P(st[k - n + 1], f[n - 1])]
    BY <2>1, Zenon
  <2> HIDE DEF P, R, k
  <2>3. \A n \in 0 .. k : f[n] = IF n = 0 THEN o ELSE R(st[k - n + 1], f[n - 1])
    BY <1>3, <2>2, Zenon
  <2>4. f = [n \in 0 .. k |-> f[n]]
    BY <2>2
  <2>5. Is(f)
    BY <2>3, <2>4, Zenon
  <2> HIDE DEF Is
  <2> QED
    BY <2>5
<1>5. Is(after)
  <2> HIDE DEF Is
  <2> QED
    BY <1>4
<1> HIDE DEF after
<1>6. \A n \in 0 .. k : after[n] = IF n = 0 THEN o ELSE R(st[k - n + 1], after[n - 1])
  <2> HIDE DEF R, k
  <2> QED
    BY <1>5, Zenon
<1>7. NodesMerged(st, key, flags, o, k, after)
  <2>1. after[0] = o
    BY <1>1, <1>6
  <2>2. ASSUME NEW n \in 1 .. k PROVE after[n] = P(st[k - n + 1], after[n - 1])
    <3>1. n \in 0 .. k /\ n # 0
      BY <1>1
    <3> HIDE DEF R, P, k
    <3> QED
      BY <1>3, <1>6, <3>1
  <2> HIDE DEF k
  <2> QED
    BY <2>1, <2>2 DEF NodesMerged
<1>8. NodesFold(key, flags, st, v, after)
  BY <1>7, MergedNodes
<1>9. k \in 0 .. Len(st)
  BY <1>1
<1> QED
  BY <1>2, <1>8, <1>9 DEF NodesFold

\* The fields of the Hasher that do not change, and its count
HasherIs(key, flags, degree, b, n, g) ==
  /\ g.key = key /\ g.initial_chunk_counter = b
  /\ g.chunk_state.flags = flags /\ g.chunk_state.simd_degree = degree
  /\ g.chunk_state.chunk_counter \in Nat /\ g.chunk_state.chunk_counter >= b
  /\ Hasher!Count(g) = n

\* What is in the Hasher with k units of chunk b + t
AtChunkIs(key, flags, degree, u, b, t, k, st, g) ==
  /\ HasherIs(key, flags, degree, b, t * CHUNK_LEN + k, g)
  /\ g.cv_stack = st
  /\ g.chunk_state.chunk_counter = b + t
  /\ Hasher!ChunkCount(g.chunk_state) = k
  /\ Hasher!ChunkOutput(g.chunk_state) = LeafOut(key, flags, u, b + t, k)

\* For any place and stack
LEMMA InChunk ==
  ASSUME NEW key, NEW flags, NEW degree, NEW u \in Units, NEW b \in Nat, Hasher!SizesAssumption,
         NEW t \in Nat, NEW k \in Nat, NEW st
  PROVE  AtChunkIs(key, flags, degree, u, b, t, k, st, AtChunk(key, flags, degree, u, b, t, k, st))
<1> DEFINE c == b + t
           s == ChunkOf(key, flags, degree, u, c, k)
           g == AHasher(key, s, b, st)
           v == BlockCv(key, flags, u, c)[Blocks(k)]
           buf == Cut(u, c * CHUNK_LEN + 2 * Blocks(k), k - 2 * Blocks(k))
<1>1. CHUNK_LEN \in Nat /\ Hasher!BLOCK_LEN = 2
  BY SizesAre
<1>2. c \in Nat /\ c >= b /\ c - b = t
  OBVIOUS
<1>3. g.key = key /\ g.chunk_state = s /\ g.initial_chunk_counter = b /\ g.cv_stack = st
  BY DEF AHasher
<1>4. ChunkIs(key, flags, degree, c, k, s, v, buf)
  <2> HIDE DEF c
  <2> QED
    BY <1>1, <1>2, ChunkOfIs
<1> HIDE DEF v, buf
<1>5. /\ s.chunk_counter = c /\ s.flags = flags /\ s.simd_degree = degree
      /\ Hasher!ChunkCount(s) = k
  BY <1>4 DEF ChunkIs
<1>6. Hasher!ChunkOutput(s) = LeafOut(key, flags, u, c, k)
  <2> HIDE DEF c
  <2> QED
    BY <1>1, <1>2, LeafOutIs
<1> HIDE DEF s, g
<1>7. Hasher!Count(g) = t * CHUNK_LEN + k
  <2> HIDE DEF c
  <2> QED
    BY <1>2, <1>3, <1>5 DEF Hasher!Count
<1>8. HasherIs(key, flags, degree, b, t * CHUNK_LEN + k, g)
  BY <1>2, <1>3, <1>5, <1>7 DEF HasherIs
<1>9. AtChunkIs(key, flags, degree, u, b, t, k, st, g)
  BY <1>3, <1>5, <1>6, <1>8 DEF AtChunkIs
<1> QED
  BY <1>9 DEF AtChunk, g, s

\* For each of the three shapes of the stack
LEMMA HasherHas ==
  ASSUME NEW key, NEW flags, NEW degree, NEW u \in Units, NEW b \in Nat, Hasher!SizesAssumption,
         NEW n \in Nat, NEW g, HasherAt(key, flags, degree, u, b, n, g)
  PROVE  HasherIs(key, flags, degree, b, n, g)
<1>1. CHUNK_LEN \in Nat
  BY SizesAre
<1>2. ASSUME NEW t \in Nat, NEW k \in Nat, NEW st, n = t * CHUNK_LEN + k,
             g = AtChunk(key, flags, degree, u, b, t, k, st)
      PROVE  HasherIs(key, flags, degree, b, n, g)
  <2>1. AtChunkIs(key, flags, degree, u, b, t, k, st, g)
    BY <1>2, InChunk
  <2> QED
    BY <1>2, <2>1 DEF AtChunkIs
<1>3. CASE n = 0 /\ g = AtChunk(key, flags, degree, u, b, 0, 0, <<>>)
  <2> DEFINE z == 0
             e == <<>>
  <2>1. z \in Nat /\ n = z * CHUNK_LEN + z /\ g = AtChunk(key, flags, degree, u, b, z, z, e)
    BY <1>1, <1>3
  <2> HIDE DEF z, e
  <2> QED
    BY <1>2, <2>1
<1>4. ASSUME NEW t \in Nat, NEW k \in 1 .. CHUNK_LEN, n = t * CHUNK_LEN + k,
             g = AtChunk(key, flags, degree, u, b, t, k, StackOf(key, flags, u, b, t))
      PROVE  HasherIs(key, flags, degree, b, n, g)
  <2>1. k \in Nat
    BY <1>1
  <2> QED
    BY <1>2, <1>4, <2>1
<1>5. ASSUME NEW t \in Nat, n = t * CHUNK_LEN, PairAt(key, flags, degree, u, b, t, g)
      PROVE  HasherIs(key, flags, degree, b, n, g)
  <2> DEFINE z == 0
  <2>1. PICK h, m \in Nat :
          g = AtChunk(key, flags, degree, u, b, t, z, LooseStack(key, flags, u, b, h, m))
    BY <1>5 DEF PairAt
  <2>2. z \in Nat /\ n = t * CHUNK_LEN + z
    BY <1>1, <1>5
  <2> HIDE DEF z
  <2> QED
    BY <1>2, <2>1, <2>2
<1> QED
  BY <1>3, <1>4, <1>5 DEF HasherAt

\* The output is the node of the tree over all that was accepted.
OutputIs(key, flags, u, b, n, g) ==
  IsNode(Hasher!FinalOutput(g), Subtree(key, flags, u, b, n))

\* When a chunk is begun
LEMMA OutputWithin ==
  ASSUME NEW key, NEW flags, NEW degree, NEW u \in Units, NEW b \in Nat, Hasher!SizesAssumption,
         NEW t \in Nat, NEW k \in 1 .. CHUNK_LEN
  PROVE  OutputIs(key, flags, u, b, t * CHUNK_LEN + k,
                  AtChunk(key, flags, degree, u, b, t, k, StackOf(key, flags, u, b, t)))
<1> DEFINE V == Vals(key, flags)
           merge == Merge(key, flags)
           c == b + t
           row == Leaves(key, flags, u, b)
           st == StackOf(key, flags, u, b, t)
           g == AtChunk(key, flags, degree, u, b, t, k, st)
           o == LeafOut(key, flags, u, c, k)
           v == Leaf(key, flags, u, c, k)
           sub == Subtree(key, flags, u, b, t * CHUNK_LEN + k)
           len == Len(st)
<1>1. CHUNK_LEN \in Nat \ {0} /\ CHUNK_LEN \in Nat /\ Hasher!BLOCK_LEN = 2 /\ k \in Nat /\ k # 0
  BY SizesAre
<1>2. c \in Nat /\ c - b = t
  OBVIOUS
<1>3. merge \in [V -> [V -> V]]
  BY MergeIs, Zenon DEF Merges
<1>4. IsNode(o, v) /\ v \in V
  <2> HIDE DEF c
  <2>1. IsNode(o, v)
    BY <1>1, <1>2, LeafNode
  <2>2. v \in V
    BY <1>1, <1>2, LeafIs
  <2> QED
    BY <2>1, <2>2
<1>5. st \in Seq(V) /\ len = Hasher!CountOnes[t]
  BY StackOfIs
<1>6. Fold(V, merge, st, v)[len] = sub
  <2>1. row \in Row(V)
    BY <1>1, LeavesAre
  <2> HIDE DEF V, merge, row, v
  <2>2. Fold(V, merge, Waits(V, merge)[t][row], v)[Len(Waits(V, merge)[t][row])]
          = Tree(V, merge)[t][row][v]
    BY <1>3, <1>4, <2>1, TreeFolds
  <2>3. st = Waits(V, merge)[t][row]
    BY DEF StackOf, V, merge, row
  <2>4. sub = Tree(V, merge)[t][row][v]
    <3>1. SubtreeOver(key, flags, u, b, t, k)
      BY <1>1, SubtreeIs
    <3> QED
      BY <3>1 DEF SubtreeOver, V, merge, row, v
  <2> HIDE DEF sub, st
  <2> QED
    BY <2>2, <2>3, <2>4
<1>7. AtChunkIs(key, flags, degree, u, b, t, k, st, g)
  <2> HIDE DEF st
  <2> QED
    BY <1>1, InChunk
<1> HIDE DEF g
<1>8. /\ g.key = key /\ g.chunk_state.flags = flags /\ g.cv_stack = st
      /\ g.initial_chunk_counter = b /\ g.chunk_state.chunk_counter = c
      /\ Hasher!ChunkCount(g.chunk_state) = k
      /\ Hasher!ChunkOutput(g.chunk_state) = o
  BY <1>7 DEF AtChunkIs, HasherIs
<1> HIDE DEF c, st, o, v, sub
<1>9. CASE len = 0
  <2>1. t = 0
    BY <1>5, <1>9, SomeOnes, Zenon
  <2>2. c = b
    BY <2>1 DEF c
  <2>3. Hasher!FinalOutput(g) = o
    BY <1>8, <1>9, <2>2 DEF Hasher!FinalOutput, Hasher!Asserting
  <2>4. Fold(V, merge, st, v)[len] = v
    <3>1. Folds(V, merge, st, v, Fold(V, merge, st, v))
      <4> HIDE DEF V, merge
      <4> QED
        BY <1>3, <1>4, <1>5, FoldIs
    <3> HIDE DEF V, merge, len
    <3> QED
      BY <1>9, <3>1 DEF Folds
  <2> HIDE DEF V, merge, len
  <2>5. IsNode(Hasher!FinalOutput(g), sub)
    BY <1>4, <1>6, <2>3, <2>4
  <2> QED
    BY <2>5 DEF OutputIs, g, sub, st
<1>10. CASE len # 0
  <2>1. Hasher!FinalOutput(g) = Hasher!MergeRight(g, o, len)
    BY <1>1, <1>2, <1>5, <1>8, <1>10 DEF Hasher!FinalOutput, Hasher!Asserting
  <2>2. \A i \in 1 .. Len(st) : g.cv_stack[i] = st[i]
    BY <1>8
  <2>3. IsNode(Hasher!MergeRight(g, o, Len(st)), Fold(Vals(key, flags), Merge(key, flags), st, v)[Len(st)])
    BY <1>4, <1>5, <1>8, <2>2, MergesRight
  <2>4. IsNode(Hasher!FinalOutput(g), sub)
    BY <1>6, <2>1, <2>3
  <2> QED
    BY <2>4 DEF OutputIs, g, sub, st
<1> QED
  BY <1>9, <1>10

\* When the last of the subtrees is not merged yet
LEMMA OutputBetween ==
  ASSUME NEW key, NEW flags, NEW degree, NEW u \in Units, NEW b \in Nat, Hasher!SizesAssumption,
         NEW t \in Nat, NEW g, PairAt(key, flags, degree, u, b, t, g)
  PROVE  OutputIs(key, flags, u, b, t * CHUNK_LEN, g)
<1>1. PICK h, m \in Nat :
        /\ m # 0
        /\ t = (m + 1) * 2 ^ h
        /\ g = AtChunk(key, flags, degree, u, b, t, 0, LooseStack(key, flags, u, b, h, m))
  BY DEF PairAt
<1> DEFINE V == Vals(key, flags)
           merge == Merge(key, flags)
           row == Leaves(key, flags, u, b)
           high == Up(V, merge)[h][row]
           st == LooseStack(key, flags, u, b, h, m)
           low == Waits(V, merge)[m][high]
           y == high[m]
           n == (m + 1) * 2 ^ h - 1
           sub == Subtree(key, flags, u, b, t * CHUNK_LEN)
<1>2. CHUNK_LEN \in Nat \ {0} /\ CHUNK_LEN \in Nat /\ Hasher!BLOCK_LEN = 2
  BY SizesAre
<1>3. merge \in [V -> [V -> V]]
  BY MergeIs, Zenon DEF Merges
<1>4. row \in Row(V) /\ \A i \in Nat : row[i] = Leaf(key, flags, u, b + i, CHUNK_LEN)
  <2>1. row \in Row(V)
    BY <1>2, LeavesAre
  <2> QED
    BY <2>1 DEF Leaves
<1>5. st = Append(low, y)
  BY DEF LooseStack
<1> HIDE DEF st, V, merge, row
<1>6. high \in Row(V) /\ y \in V
  <2>1. UpByRows(V, merge, Up(V, merge))
    BY <1>3, UpAbove
  <2>2. high \in Row(V)
    BY <1>4, <2>1, Zenon DEF UpByRows
  <2> HIDE DEF high
  <2> QED
    BY <2>2 DEF Row
<1>7. Fold(V, merge, low, y)[Len(low)] = Tree(V, merge)[m][high][y]
  <2> HIDE DEF high, y
  <2> QED
    BY <1>3, <1>6, TreeFolds
<1>8. n \in Nat /\ Tree(V, merge)[m][high][y] = Tree(V, merge)[n][row][row[n]]
  <2>1. Raised(V, merge, h, m, row)
    BY <1>3, <1>4, TreeRaised
  <2> QED
    BY <2>1 DEF Raised
<1>9. low \in Seq(V) /\ Len(low) = Hasher!CountOnes[m] /\ Len(low) # 0
  <2> HIDE DEF high
  <2>1. WaitsByPairs(V, merge, Waits(V, merge))
    BY <1>3, WaitsGrow
  <2>2. low \in Seq(V)
    BY <1>6, <2>1 DEF WaitsByPairs
  <2>3. Len(low) = Hasher!CountOnes[m]
    BY <1>3, <1>6, WaitsLength
  <2> QED
    BY <1>1, <2>2, <2>3, SomeOnes
<1> HIDE DEF low
<1>10. PICK under, x : Pushed(V, low, under, x)
  BY <1>9, LastPushed
<1>11. under \in Seq(V) /\ x \in V /\ low = Append(under, x) /\ Len(low) = Len(under) + 1
  BY <1>10 DEF Pushed
<1>12. sub = Tree(V, merge)[n][row][row[n]]
  <2>1. n = t - 1
    BY <1>1
  <2>2. row[n] = Leaf(key, flags, u, b + n, CHUNK_LEN)
    BY <1>4, <1>8
  <2>3. t * CHUNK_LEN = n * CHUNK_LEN + CHUNK_LEN
    <3> HIDE DEF n
    <3>1. t = n + 1
      BY <1>8, <2>1
    <3> QED
      BY <1>2, <1>8, <3>1
  <2> HIDE DEF n
  <2>4. SubtreeOver(key, flags, u, b, n, CHUNK_LEN)
    <3>1. CHUNK_LEN \in 1 .. CHUNK_LEN
      BY <1>2
    <3> QED
      BY <1>2, <1>8, <3>1, SubtreeIs
  <2>5. Subtree(key, flags, u, b, n * CHUNK_LEN + CHUNK_LEN)
          = Tree(V, merge)[n][row][Leaf(key, flags, u, b + n, CHUNK_LEN)]
    BY <2>4 DEF SubtreeOver, V, merge, row
  <2> QED
    BY <2>2, <2>3, <2>5
<1> DEFINE k == Len(under)
           v == merge[x][y]
           o == Hasher!ParentNodeOutput(x, y, key, flags)
<1>13. k \in Nat /\ Len(st) = k + 2 /\ Len(st) \in Nat /\ st[k + 1] = x /\ st[k + 2] = y
       /\ \A i \in 1 .. k : st[i] = under[i]
  <2>1. st = Append(Append(under, x), y)
    BY <1>5, <1>11
  <2> HIDE DEF y
  <2>2. Append(under, x) \in Seq(V) /\ Len(Append(under, x)) = k + 1 /\ k \in Nat
    BY <1>11
  <2> QED
    BY <1>6, <1>11, <2>1, <2>2
<1>14. IsNode(o, v) /\ v \in V
  <2> HIDE DEF y
  <2>1. IsNode(o, v)
    BY <1>6, <1>11, ParentNode DEF V, merge
  <2>2. v \in V
    BY <1>3, <1>6, <1>11
  <2> QED
    BY <2>1, <2>2
<1>15. Fold(V, merge, low, y)[Len(low)] = Fold(V, merge, under, v)[k]
  <2> HIDE DEF y
  <2>1. Peels(V, merge, under, x, y)
    BY <1>3, <1>6, <1>11, FoldPeels, Zenon
  <2>2. k \in 0 .. Len(under)
    BY <1>13
  <2>3. Fold(V, merge, Append(under, x), y)[k + 1] = Fold(V, merge, under, merge[x][y])[k]
    BY <2>1, <2>2 DEF Peels
  <2> QED
    BY <1>11, <2>3
<1> DEFINE z == 0
<1>16. AtChunkIs(key, flags, degree, u, b, t, z, st, g)
  <2>1. z \in Nat /\ g = AtChunk(key, flags, degree, u, b, t, z, st)
    BY <1>1 DEF st
  <2> HIDE DEF z
  <2> QED
    BY <2>1, InChunk
<1>17. /\ g.key = key /\ g.chunk_state.flags = flags /\ g.cv_stack = st
       /\ Hasher!ChunkCount(g.chunk_state) = 0
  BY <1>16 DEF AtChunkIs, HasherIs
<1> HIDE DEF y, v, o, k
<1>18. Hasher!FinalOutput(g) = Hasher!MergeRight(g, o, k)
  <2>1. Len(st) # 0 /\ Len(st) >= 2 /\ Len(st) - 2 = k /\ Len(st) - 1 = k + 1
    BY <1>13
  <2>2. st[Len(st) - 1] = x /\ st[Len(st)] = y
    BY <1>13, <2>1
  <2> QED
    BY <1>17, <2>1, <2>2 DEF Hasher!FinalOutput, Hasher!Asserting, o
<1>19. IsNode(Hasher!MergeRight(g, o, Len(under)),
              Fold(Vals(key, flags), Merge(key, flags), under, v)[Len(under)])
  <2>1. \A i \in 1 .. Len(under) : g.cv_stack[i] = under[i]
    BY <1>13, <1>17 DEF k
  <2>2. under \in Seq(Vals(key, flags)) /\ v \in Vals(key, flags)
    BY <1>11, <1>14 DEF V
  <2> QED
    BY <1>14, <1>17, <2>1, <2>2, MergesRight
<1>20. Fold(V, merge, under, v)[k] = sub
  <2> HIDE DEF n, high, sub
  <2> QED
    BY <1>7, <1>8, <1>12, <1>15
<1>21. IsNode(Hasher!FinalOutput(g), sub)
  <2> HIDE DEF sub
  <2> QED
    BY <1>18, <1>19, <1>20 DEF V, merge, k
<1> QED
  BY <1>21 DEF OutputIs

\* At any place
LEMMA OutputAt ==
  ASSUME NEW key, NEW flags, NEW degree, NEW u \in Units, NEW b \in Nat, Hasher!SizesAssumption,
         NEW n \in Nat, NEW g, HasherAt(key, flags, degree, u, b, n, g)
  PROVE  OutputIs(key, flags, u, b, n, g)
<1>1. CHUNK_LEN \in Nat \ {0} /\ CHUNK_LEN \in Nat /\ Hasher!BLOCK_LEN = 2
  BY SizesAre
<1>2. CASE n = 0 /\ g = AtChunk(key, flags, degree, u, b, 0, 0, <<>>)
  <2> DEFINE z == 0
             e == <<>>
  <2>1. z \in Nat /\ g = AtChunk(key, flags, degree, u, b, z, z, e) /\ b + z = b
        /\ n = z /\ z \in 0 .. CHUNK_LEN
    BY <1>1, <1>2
  <2> HIDE DEF z, e
  <2>2. AtChunkIs(key, flags, degree, u, b, z, z, e, g)
    BY <2>1, InChunk
  <2>3. /\ g.cv_stack = e /\ g.chunk_state.chunk_counter = b
        /\ g.initial_chunk_counter = b
        /\ Hasher!ChunkOutput(g.chunk_state) = LeafOut(key, flags, u, b, z)
    BY <2>1, <2>2 DEF AtChunkIs, HasherIs
  <2>4. Hasher!FinalOutput(g) = LeafOut(key, flags, u, b, z)
    <3>1. Len(e) = 0
      BY EmptyIs DEF e
    <3> QED
      BY <2>3, <3>1 DEF Hasher!FinalOutput, Hasher!Asserting
  <2>5. IsNode(LeafOut(key, flags, u, b, z), Leaf(key, flags, u, b, z))
    BY <2>1, LeafNode
  <2>6. SubtreeOfLeaf(key, flags, u, b, z)
    BY <1>1, <2>1, SubtreeLeaf
  <2>7. IsNode(Hasher!FinalOutput(g), Subtree(key, flags, u, b, n))
    BY <2>1, <2>4, <2>5, <2>6 DEF SubtreeOfLeaf
  <2> QED
    BY <2>7 DEF OutputIs
<1>3. ASSUME NEW t \in Nat, NEW k \in 1 .. CHUNK_LEN, n = t * CHUNK_LEN + k,
             g = AtChunk(key, flags, degree, u, b, t, k, StackOf(key, flags, u, b, t))
      PROVE  OutputIs(key, flags, u, b, n, g)
  BY <1>3, OutputWithin
<1>4. ASSUME NEW t \in Nat, n = t * CHUNK_LEN, PairAt(key, flags, degree, u, b, t, g)
      PROVE  OutputIs(key, flags, u, b, n, g)
  BY <1>4, OutputBetween
<1> QED
  BY <1>2, <1>3, <1>4 DEF HasherAt

(***************************************************************************)
(* The hasher of the reference implementation.                             *)
(***************************************************************************)

\* The reference Hasher with n units of chunk t
RefState(key, flags, u, t, n) ==
  [chunk_state |-> RefChunkOf(key, flags, u, t, n), key_words |-> key,
   cv_stack |-> StackOf(key, flags, u, 0, t), flags |-> flags]

\* The reference merges what a chunk completes.
CarriesInto(key, flags, u, t, h) ==
  Hasher!Ref!AddChunkChainingValue(h, Leaf(key, flags, u, t, CHUNK_LEN), t + 1)
    = [h EXCEPT !.cv_stack = StackOf(key, flags, u, 0, t + 1)]

\* By the number of zeros at the end of the new count of chunks (Carried)
LEMMA RefCarries ==
  ASSUME NEW key, NEW flags, NEW u \in Units, Hasher!SizesAssumption, NEW t \in Nat,
         NEW h, h.cv_stack = StackOf(key, flags, u, 0, t), h.key_words = key, h.flags = flags
  PROVE  CarriesInto(key, flags, u, t, h)
<1> DEFINE V == Vals(key, flags)
           merge == Merge(key, flags)
           row == Leaves(key, flags, u, 0)
           st == StackOf(key, flags, u, 0, t)
           v == Leaf(key, flags, u, t, CHUNK_LEN)
           k == Len(st)
           fold == Fold(V, merge, st, v)
           t1 == t + 1
           times == Hasher!Ref!TrailingZeros[t1]
           R(a, x) == Hasher!Ref!ParentCv(a, x, key, flags)
           Is(f) == f = [n \in 0 .. k |-> IF n = 0 THEN v ELSE R(st[k - n + 1], f[n - 1])]
           cv == CHOOSE f : Is(f)
<1>1. CHUNK_LEN \in Nat \ {0} /\ CHUNK_LEN \in Nat /\ Hasher!BLOCK_LEN = 2 /\ t1 \in Nat
  BY SizesAre
<1>2. merge \in [V -> [V -> V]]
  BY MergeIs, Zenon DEF Merges
<1>3. row \in Row(V) /\ row[t] = v
  <2>1. 0 + t = t
    OBVIOUS
  <2>2. row[t] = v
    BY <2>1 DEF Leaves
  <2>3. 0 \in Nat
    OBVIOUS
  <2>4. row \in Row(V)
    <3> DEFINE z == 0
    <3>1. z \in Nat
      OBVIOUS
    <3> HIDE DEF z
    <3>2. Leaves(key, flags, u, z) \in Row(Vals(key, flags))
      BY <1>1, <3>1, LeavesAre
    <3> QED
      BY <3>2 DEF z
  <2> QED
    BY <2>2, <2>4
<1>4. v \in V
  BY <1>1, LeafIs
<1>5. st \in Seq(V) /\ k \in Nat
  <2> DEFINE z == 0
  <2>1. z \in Nat
    OBVIOUS
  <2> HIDE DEF z
  <2>2. StackOf(key, flags, u, z, t) \in Seq(Vals(key, flags))
    BY <2>1, StackOfIs
  <2> HIDE DEF st
  <2>3. st \in Seq(V)
    BY <2>2 DEF st, z
  <2> QED
    BY <2>3
<1>6. st = Waits(V, merge)[t][row] /\ StackOf(key, flags, u, 0, t1) = Waits(V, merge)[t1][row]
  BY DEF StackOf
<1> HIDE DEF v, row, st
<1>7. Folds(V, merge, st, v, fold)
  <2> HIDE DEF V, merge
  <2> QED
    BY <1>2, <1>4, <1>5, FoldIs
<1>8. \A a, x \in V : R(a, x) = merge[a][x]
  <2> SUFFICES ASSUME NEW a \in V, NEW x \in V PROVE R(a, x) = merge[a][x]
    OBVIOUS
  <2> DEFINE o == Hasher!ParentNodeOutput(a, x, key, flags)
  <2>1. R(a, x) = Hasher!Ref!ChainingValue(o)
    <3>1. Hasher!Ref!ParentOutput(a, x, key, flags) = o
      BY RefParentIs
    <3> HIDE DEF o
    <3> QED
      BY <3>1 DEF Hasher!Ref!ParentCv
  <2>2. Hasher!Ref!ChainingValue(o) = Hasher!ChainingValue(o)
    <3> HIDE DEF o
    <3> QED
      BY DEF Hasher!Ref!ChainingValue, Hasher!ChainingValue, Hasher!Ref!Compress, Hasher!Compress
  <2>3. Hasher!ChainingValue(o) = merge[a][x]
    BY ParentNode
  <2> QED
    BY <2>1, <2>2, <2>3
<1>9. Is(fold)
  <2>1. \A n \in 0 .. k : fold[n] = IF n = 0 THEN v ELSE R(st[k - n + 1], fold[n - 1])
    <3> SUFFICES ASSUME NEW n \in 0 .. k
                 PROVE fold[n] = IF n = 0 THEN v ELSE R(st[k - n + 1], fold[n - 1])
      OBVIOUS
    <3>1. CASE n = 0
      BY <1>7, <3>1 DEF Folds
    <3>2. CASE n # 0
      <4>1. n \in 1 .. k /\ n - 1 \in 0 .. k /\ k - n + 1 \in 1 .. k
        BY <1>5, <3>2
      <4>2. st[k - n + 1] \in V /\ fold[n - 1] \in V
        <5> HIDE DEF fold, V
        <5> QED
          BY <1>5, <1>7, <4>1 DEF Folds
      <4>3. fold[n] = merge[st[k - n + 1]][fold[n - 1]]
        <5> HIDE DEF fold, V, merge
        <5> QED
          BY <1>7, <4>1 DEF Folds
      <4> HIDE DEF R, fold, merge, V
      <4> QED
        BY <1>8, <3>2, <4>2, <4>3
    <3> QED
      BY <3>1, <3>2
  <2>2. fold = [n \in 0 .. k |-> fold[n]]
    <3> HIDE DEF fold, V, merge, k
    <3> QED
      BY <1>7 DEF Folds, k
  <2> HIDE DEF R, fold, k
  <2> QED
    BY <2>1, <2>2, Zenon
<1>10. Is(cv)
  <2> HIDE DEF Is
  <2> QED
    BY <1>9
<1> HIDE DEF cv
<1>11. \A n \in 0 .. k : cv[n] = fold[n]
  <2> DEFINE S == {n \in Nat : n <= k => cv[n] = fold[n]}
  <2> HIDE DEF fold, R
  <2>1. \A n \in 0 .. k : cv[n] = IF n = 0 THEN v ELSE R(st[k - n + 1], cv[n - 1])
    <3> HIDE DEF k
    <3> QED
      BY <1>10, Zenon
  <2>2. \A n \in 0 .. k : fold[n] = IF n = 0 THEN v ELSE R(st[k - n + 1], fold[n - 1])
    <3> HIDE DEF k
    <3> QED
      BY <1>9
  <2>3. 0 \in S
    BY <1>5, <2>1, <2>2
  <2>4. ASSUME NEW n \in Nat, n \in S PROVE n + 1 \in S
    <3> DEFINE n1 == n + 1
    <3>1. n1 \in Nat /\ n1 - 1 = n /\ n1 # 0
      OBVIOUS
    <3>2. ASSUME n1 <= k PROVE cv[n1] = fold[n1]
      <4>1. n1 \in 0 .. k /\ n <= k
        BY <1>5, <3>1, <3>2
      <4>2. cv[n] = fold[n]
        BY <2>4, <4>1
      <4> HIDE DEF n1, k
      <4>3. cv[n1] = R(st[k - n1 + 1], cv[n])
        BY <2>1, <3>1, <4>1
      <4>4. fold[n1] = R(st[k - n1 + 1], fold[n])
        BY <2>2, <3>1, <4>1
      <4> QED
        BY <4>2, <4>3, <4>4
    <3> HIDE DEF n1, k
    <3>3. n1 \in S
      BY <3>1, <3>2
    <3> QED
      BY <3>3 DEF n1
  <2>5. \A n \in Nat : n \in S
    <3> HIDE DEF S
    <3> QED
      BY <2>3, <2>4, Induction
  <2> QED
    BY <1>5, <2>5
<1>12. Carries(V, merge, t, row)
  <2> HIDE DEF V, merge
  <2> QED
    BY <1>2, <1>3, Carried
<1>13. times \in 0 .. k /\ Merged(V, merge, st, v, times) = StackOf(key, flags, u, 0, t1)
  <2> HIDE DEF V, merge
  <2> QED
    BY <1>3, <1>6, <1>12 DEF Carries
<1>14. Append(SubSeq(st, 1, k - times), cv[times]) = StackOf(key, flags, u, 0, t1)
  <2>1. cv[times] = fold[times]
    <3> HIDE DEF times, k, fold
    <3> QED
      BY <1>11, <1>13
  <2> HIDE DEF times, V, merge
  <2> QED
    BY <1>13, <2>1 DEF Merged
<1>15. Hasher!Ref!AddChunkChainingValue(h, v, t1)
         = [h EXCEPT !.cv_stack = Append(SubSeq(@, 1, k - times), cv[times])]
  <2>1. h.cv_stack = st
    BY DEF st
  <2> HIDE DEF t1
  <2> QED
    BY <2>1, Zenon DEF Hasher!Ref!AddChunkChainingValue, cv, Hasher!Ref!Taken
<1>16. h.cv_stack = st
  BY DEF st
<1> DEFINE x == cv[times]
           size == k - times
<1> HIDE DEF x, size
<1>17. [h EXCEPT !.cv_stack = Append(SubSeq(@, 1, size), x)]
         = [h EXCEPT !.cv_stack = Append(SubSeq(st, 1, size), x)]
  BY <1>16, Zenon
<1>18. Hasher!Ref!AddChunkChainingValue(h, v, t1)
         = [h EXCEPT !.cv_stack = StackOf(key, flags, u, 0, t1)]
  <2>1. Append(SubSeq(st, 1, size), x) = StackOf(key, flags, u, 0, t1)
    BY <1>14, Zenon DEF size, x
  <2>2. Hasher!Ref!AddChunkChainingValue(h, v, t1)
         = [h EXCEPT !.cv_stack = Append(SubSeq(@, 1, size), x)]
    BY <1>15 DEF size, x
  <2> HIDE DEF t1, times, k, Is, fold
  <2> QED
    BY <1>17, <2>1, <2>2, Zenon
<1> QED
  BY <1>18 DEF CarriesInto, v

\* The reference Hasher with these fields
ARefHasher(key, flags, cs, st) ==
  [chunk_state |-> cs, key_words |-> key, cv_stack |-> st, flags |-> flags]

\* Only the stack, or only the chunk state, is changed.
LEMMA RefFields ==
  ASSUME NEW key, NEW flags, NEW cs, NEW st, NEW cs2, NEW st2
  PROVE  /\ [ARefHasher(key, flags, cs, st) EXCEPT !.cv_stack = st2]
              = ARefHasher(key, flags, cs, st2)
         /\ [ARefHasher(key, flags, cs, st) EXCEPT !.chunk_state = cs2]
              = ARefHasher(key, flags, cs2, st)
  BY DEF ARefHasher

\* A full chunk is closed.
ClosesRef(key, flags, u, t, n) ==
  Hasher!Ref!CloseChunk(RefState(key, flags, u, t, n))
    = IF n = CHUNK_LEN THEN RefState(key, flags, u, t + 1, 0) ELSE RefState(key, flags, u, t, n)

\* Only a full chunk is closed: its value is merged as far as it can be.
LEMMA RefCloses ==
  ASSUME NEW key, NEW flags, NEW u \in Units, Hasher!SizesAssumption, NEW t \in Nat, NEW n \in Nat
  PROVE  ClosesRef(key, flags, u, t, n)
<1> DEFINE s == RefChunkOf(key, flags, u, t, n)
           st == StackOf(key, flags, u, 0, t)
           h == ARefHasher(key, flags, s, st)
           t1 == t + 1
           st1 == StackOf(key, flags, u, 0, t1)
           new == RefChunkOf(key, flags, u, t1, 0)
           v == Leaf(key, flags, u, t, CHUNK_LEN)
<1>1. CHUNK_LEN \in Nat /\ Hasher!BLOCK_LEN = 2 /\ t1 \in Nat
  BY SizesAre
<1>2. RefState(key, flags, u, t, n) = h /\ RefState(key, flags, u, t1, 0) = ARefHasher(key, flags, new, st1)
  BY DEF RefState, ARefHasher
<1>3. s.chunk_counter = t /\ Hasher!Ref!ChunkSize(s) = n
      /\ Hasher!Ref!ChunkOutput(s) = LeafOut(key, flags, u, t, n)
  <2>1. RefChunkIs(key, flags, u, t, n, s)
    BY <1>1, RefChunkOfIs
  <2> QED
    BY <2>1 DEF RefChunkIs
<1>4. h.chunk_state = s /\ h.key_words = key /\ h.flags = flags /\ h.cv_stack = st
  BY DEF ARefHasher
<1>5. CASE n # CHUNK_LEN
  <2>1. Hasher!Ref!CloseChunk(h) = h
    <3> HIDE DEF h, s
    <3> QED
      BY <1>3, <1>4, <1>5 DEF Hasher!Ref!CloseChunk
  <2> HIDE DEF h
  <2> QED
    BY <1>2, <1>5, <2>1 DEF ClosesRef
<1>6. CASE n = CHUNK_LEN
  <2> DEFINE added == Hasher!Ref!AddChunkChainingValue(h,
                        Hasher!Ref!ChainingValue(Hasher!Ref!ChunkOutput(s)), t1)
  <2>1. Hasher!Ref!ChainingValue(Hasher!Ref!ChunkOutput(s)) = v
    <3> DEFINE o == LeafOut(key, flags, u, t, n)
    <3>1. Hasher!Ref!ChainingValue(o) = Hasher!ChainingValue(o)
      <4> HIDE DEF o
      <4> QED
        BY DEF Hasher!Ref!ChainingValue, Hasher!ChainingValue, Hasher!Ref!Compress, Hasher!Compress
    <3>2. Hasher!ChainingValue(o) = v
      BY <1>6 DEF Leaf
    <3> HIDE DEF o, v, s
    <3>3. Hasher!Ref!ChunkOutput(s) = o
      BY <1>3 DEF o
    <3> QED
      BY <3>1, <3>2, <3>3
  <2>2. added = [h EXCEPT !.cv_stack = st1]
    <3> HIDE DEF h
    <3>1. CarriesInto(key, flags, u, t, h)
      BY <1>4, RefCarries
    <3> HIDE DEF v, s
    <3> QED
      BY <2>1, <3>1 DEF CarriesInto, v
  <2>3. Hasher!Ref!NewChunk(key, t1, flags) = new
    <3> HIDE DEF t1
    <3> QED
      BY <1>1, RefNewChunkIs
  <2>4. Hasher!Ref!CloseChunk(h) = [added EXCEPT !.chunk_state = Hasher!Ref!NewChunk(key, t1, flags)]
    <3> HIDE DEF h, s
    <3> QED
      BY <1>3, <1>4, <1>6 DEF Hasher!Ref!CloseChunk
  <2> HIDE DEF added, new, st1, s, st
  <2>5. [h EXCEPT !.cv_stack = st1] = ARefHasher(key, flags, s, st1)
    BY RefFields
  <2>6. [ARefHasher(key, flags, s, st1) EXCEPT !.chunk_state = new] = ARefHasher(key, flags, new, st1)
    BY RefFields
  <2> HIDE DEF h
  <2>7. Hasher!Ref!CloseChunk(h) = ARefHasher(key, flags, new, st1)
    BY <2>2, <2>3, <2>4, <2>5, <2>6, Zenon
  <2> HIDE DEF t1
  <2> QED
    BY <1>2, <1>6, <2>7 DEF ClosesRef, t1
<1> QED
  BY <1>5, <1>6

\* The reference Hasher after n units
RefAt(key, flags, u, n) == RefState(key, flags, u, Full(n), LastOf(n))

\* A turn of its update takes some of the input.
FillsRef(key, flags, u, n, m, x) ==
  /\ x \in 1 .. m
  /\ Hasher!Ref!FillChunk(RefAt(key, flags, u, n), Cut(u, n, m))
       = [hasher |-> RefAt(key, flags, u, n + x), input |-> Cut(u, n + x, m - x)]

\* It takes what the chunk has room for, at least one unit.
LEMMA RefFills ==
  ASSUME NEW key, NEW flags, NEW u \in Units, Hasher!SizesAssumption,
         NEW n \in Nat, NEW m \in Nat, m # 0
  PROVE  \E x \in Nat : FillsRef(key, flags, u, n, m, x)
<1> DEFINE l == CHUNK_LEN
           t0 == Full(n)
           n0 == LastOf(n)
           closing == n0 = l
           t == IF closing THEN t0 + 1 ELSE t0
           k == IF closing THEN 0 ELSE n0
           room == l - k
           x == IF room < m THEN room ELSE m
           s == RefChunkOf(key, flags, u, t, k)
           st == StackOf(key, flags, u, 0, t)
           open == ARefHasher(key, flags, s, st)
           k1 == k + x
           s1 == RefChunkOf(key, flags, u, t, k1)
           input == Cut(u, n, m)
<1>1. CHUNK_LEN \in Nat \ {0} /\ CHUNK_LEN \in Nat /\ Hasher!BLOCK_LEN = 2
  BY SizesAre
<1>2. t0 \in Nat /\ n0 \in 0 .. l /\ n = t0 * l + n0
  BY <1>1, FullIs
<1> HIDE DEF t0, n0
<1>3. t \in Nat /\ k \in Nat /\ k < l /\ room \in 1 .. l /\ x \in 1 .. m /\ x <= room /\ k1 \in 1 .. l
  BY <1>1, <1>2
<1>4. n = t * l + k
  <2>1. CASE closing
    <3>1. t = t0 + 1 /\ k = 0
      BY <2>1
    <3>2. t * l = t0 * l + l
      BY <1>1, <1>2, <3>1
    <3>3. t * l \in Nat
      BY <1>1, <1>3
    <3> QED
      BY <1>2, <2>1, <3>1, <3>2, <3>3
  <2>2. CASE ~closing
    BY <1>2, <2>2
  <2> QED
    BY <2>1, <2>2
<1>5. Hasher!Ref!CloseChunk(RefAt(key, flags, u, n)) = open
  <2>1. ClosesRef(key, flags, u, t0, n0)
    <3>1. n0 \in Nat
      BY <1>1, <1>2
    <3> QED
      BY <1>2, <3>1, RefCloses
  <2>2. open = RefState(key, flags, u, t, k)
    BY DEF RefState, ARefHasher
  <2>3. RefState(key, flags, u, t, k)
          = IF closing THEN RefState(key, flags, u, t0 + 1, 0) ELSE RefState(key, flags, u, t0, n0)
    OBVIOUS
  <2> HIDE DEF open, t, k
  <2> QED
    BY <2>1, <2>2, <2>3 DEF ClosesRef, RefAt, t0, n0
<1> HIDE DEF t, k, x
<1>6. open.chunk_state = s /\ open.key_words = key /\ open.flags = flags /\ open.cv_stack = st
  BY DEF ARefHasher
<1>7. Hasher!Ref!ChunkSize(s) = k
  <2>1. RefChunkIs(key, flags, u, t, k, s)
    BY <1>1, <1>3, RefChunkOfIs
  <2> QED
    BY <2>1 DEF RefChunkIs
<1>8. Len(input) = m
  <2>1. IsCut(u, n, m, input)
    BY CutIs
  <2> HIDE DEF input
  <2> QED
    BY <2>1 DEF IsCut
<1>9. Hasher!Ref!Shorter(l - Hasher!Ref!ChunkSize(s), Len(input)) = x
  <2> HIDE DEF input, s
  <2> QED
    BY <1>7, <1>8 DEF Hasher!Ref!Shorter, x
<1>10. /\ Hasher!Ref!Taken(input, x) = Cut(u, n, x)
       /\ Hasher!Ref!Dropped(input, x) = Cut(u, n + x, m - x)
  <2>1. SplitIs(u, n, m, x)
    <3>1. x \in 0 .. m
      BY <1>3
    <3> QED
      BY <3>1, CutSplit
  <2> QED
    BY <2>1 DEF SplitIs, Hasher!Taken, Hasher!Dropped, Hasher!Ref!Taken, Hasher!Ref!Dropped
<1>11. Hasher!Ref!UpdateChunk(s, Cut(u, n, x)) = s1
  <2>1. x \in Nat
    BY <1>3
  <2>2. RefUpdatesChunk(key, flags, u, t, k, x)
    BY <1>1, <1>3, <2>1, RefChunkUpdated
  <2> QED
    BY <1>4, <2>2 DEF RefUpdatesChunk
<1>12. RefAt(key, flags, u, n + x) = ARefHasher(key, flags, s1, st)
  <2>1. n + x = t * l + k1
    <3> DEFINE p == t * l
    <3>1. p \in Nat
      BY <1>1, <1>3
    <3> HIDE DEF p
    <3>2. (p + k) + x = p + (k + x)
      BY <1>3, <3>1
    <3> QED
      BY <1>4, <3>2 DEF p
  <2> HIDE DEF k1
  <2>2. Full(t * CHUNK_LEN + k1) = t /\ LastOf(t * CHUNK_LEN + k1) = k1
    BY <1>1, <1>3, FullOnly, Zenon
  <2>3. Full(n + x) = t /\ LastOf(n + x) = k1
    BY <2>1, <2>2
  <2> QED
    BY <2>3 DEF RefAt, RefState, ARefHasher
<1> HIDE DEF s, s1, st, input
<1>13. Hasher!Ref!FillChunk(RefAt(key, flags, u, n), input)
         = [hasher |-> [open EXCEPT !.chunk_state = Hasher!Ref!UpdateChunk(@, Hasher!Ref!Taken(input, x))],
            input |-> Hasher!Ref!Dropped(input, x)]
  <2> HIDE DEF open
  <2> QED
    BY <1>5, <1>6, <1>9 DEF Hasher!Ref!FillChunk
<1>14. [open EXCEPT !.chunk_state = Hasher!Ref!UpdateChunk(@, Hasher!Ref!Taken(input, x))]
         = [open EXCEPT !.chunk_state = s1]
  <2> HIDE DEF open
  <2> QED
    BY <1>6, <1>10, <1>11
<1>15. [open EXCEPT !.chunk_state = s1] = ARefHasher(key, flags, s1, st)
  BY RefFields
<1> HIDE DEF open
<1>16. Hasher!Ref!FillChunk(RefAt(key, flags, u, n), input)
         = [hasher |-> RefAt(key, flags, u, n + x), input |-> Cut(u, n + x, m - x)]
  BY <1>10, <1>12, <1>13, <1>14, <1>15
<1>17. FillsRef(key, flags, u, n, m, x)
  BY <1>3, <1>16 DEF FillsRef, input
<1>18. x \in Nat
  BY <1>3
<1> QED
  BY <1>17, <1>18

\* An update of the reference Hasher
RefUpdates(key, flags, u, n, m) ==
  Hasher!Ref!Update(RefAt(key, flags, u, n), Cut(u, n, m)) = RefAt(key, flags, u, n + m)

\* An update of the reference adds what it is given, in turns of a chunk at most.
LEMMA RefUpdated ==
  ASSUME NEW key, NEW flags, NEW u \in Units, Hasher!SizesAssumption,
         NEW n \in Nat, NEW m \in Nat
  PROVE  RefUpdates(key, flags, u, n, m)
<1> DEFINE St(x) == [hasher |-> RefAt(key, flags, u, n + x), input |-> Cut(u, n + x, m - x)]
           Takes(x, y) == y \in x + 1 .. m /\ Hasher!Ref!FillChunk(St(x).hasher, St(x).input) = St(y)
           next == [x \in 0 .. m |-> IF x = m THEN m ELSE CHOOSE y \in 0 .. m : Takes(x, y)]
           s == RefAt(key, flags, u, n)
           input == Cut(u, n, m)
           Body(t) == IF t.input = <<>> THEN t ELSE Hasher!Ref!FillChunk(t.hasher, t.input)
           F(f) == [i \in 0 .. Len(input) |->
                      IF i = 0 THEN [hasher |-> s, input |-> input] ELSE Body(f[i - 1])]
           turn == CHOOSE f : f = F(f)
<1>1. ASSUME NEW x \in 0 .. m PROVE Len(St(x).input) = m - x /\ (St(x).input = <<>> <=> x = m)
  <2> DEFINE t == Cut(u, n + x, m - x)
  <2>1. n + x \in Nat /\ m - x \in Nat
    OBVIOUS
  <2>2. IsCut(u, n + x, m - x, t)
    BY <2>1, CutIs
  <2> HIDE DEF t
  <2>3. Len(t) = m - x /\ (t = <<>> <=> x = m)
    BY <2>1, <2>2 DEF IsCut
  <2> QED
    BY <2>3 DEF t
<1>2. ASSUME NEW x \in 0 .. m, x # m PROVE \E y \in 0 .. m : Takes(x, y)
  <2> DEFINE n1 == n + x
             m1 == m - x
  <2>1. n1 \in Nat /\ m1 \in Nat /\ m1 # 0
    BY <1>2
  <2>2. PICK z \in Nat : FillsRef(key, flags, u, n1, m1, z)
    <3> HIDE DEF n1, m1
    <3> QED
      BY <2>1, RefFills, Zenon
  <2>3. z \in 1 .. m1
    BY <2>2 DEF FillsRef
  <2> DEFINE y == x + z
  <2>4. y \in x + 1 .. m /\ y \in 0 .. m /\ n1 + z = n + y /\ m1 - z = m - y
        /\ n1 = n + x /\ n1 + z = n + y
    BY <2>3
  <2>5. Hasher!Ref!FillChunk(RefAt(key, flags, u, n1), Cut(u, n1, m1))
          = [hasher |-> RefAt(key, flags, u, n1 + z), input |-> Cut(u, n1 + z, m1 - z)]
    BY <2>2 DEF FillsRef
  <2> HIDE DEF y
  <2>6. Hasher!Ref!FillChunk(RefAt(key, flags, u, n + x), Cut(u, n + x, m - x)) = St(y)
    BY <2>4, <2>5
  <2> QED
    BY <2>4, <2>6
<1>3. \A x \in 0 .. m : next[x] = IF x = m THEN m ELSE CHOOSE y \in 0 .. m : Takes(x, y)
  OBVIOUS
<1>4. \A x \in 0 .. m : x # m => next[x] \in 0 .. m /\ Takes(x, next[x])
  <2> HIDE DEF Takes, next
  <2> QED
    BY <1>2, <1>3
<1>5. next \in [0 .. m -> 0 .. m] /\ next[m] = m /\ \A x \in 0 .. m : x # m => next[x] > x
  <2>1. next[m] = m
    BY <1>3
  <2>2. \A x \in 0 .. m : x # m => next[x] > x
    <3> HIDE DEF next, St
    <3> QED
      BY <1>4
  <2>3. next = [x \in 0 .. m |-> next[x]]
    OBVIOUS
  <2> HIDE DEF next, Takes
  <2>4. \A x \in 0 .. m : next[x] \in 0 .. m
    BY <1>4, <2>1
  <2> QED
    BY <2>1, <2>2, <2>3, <2>4
<1> HIDE DEF next
<1>6. PICK p : Advance(m, next, p)
  BY <1>5, Advances
<1> DEFINE g == [i \in 0 .. m |-> St(p[i])]
<1>7. p \in [0 .. m -> 0 .. m] /\ p[0] = 0 /\ p[m] = m /\ \A i \in 1 .. m : p[i] = next[p[i - 1]]
  BY <1>6 DEF Advance
<1>8. ASSUME NEW x \in 0 .. m PROVE Body(St(x)) = St(next[x])
  <2>1. CASE x = m
    <3>1. St(x).input = <<>> /\ next[x] = x
      BY <1>1, <1>5, <2>1
    <3> HIDE DEF St
    <3> QED
      BY <3>1
  <2>2. CASE x # m
    <3>1. St(x).input # <<>> /\ Takes(x, next[x])
      BY <1>1, <1>4, <2>2, Zenon
    <3> HIDE DEF St
    <3> QED
      BY <3>1
  <2> QED
    BY <2>1, <2>2
<1>9. Len(input) = m /\ St(0) = [hasher |-> s, input |-> input]
  <2>1. IsCut(u, n, m, input)
    <3>1. n \in Nat
      OBVIOUS
    <3> QED
      BY <3>1, CutIs
  <2>2. Len(input) = m
    <3> HIDE DEF input
    <3> QED
      BY <2>1 DEF IsCut
  <2>3. n + 0 = n /\ n + 0 = n /\ m - 0 = m
    OBVIOUS
  <2> QED
    BY <2>2, <2>3
<1> HIDE DEF St, Body, s, input, Takes
<1>10. g = F(g)
  <2>1. ASSUME NEW i \in 0 .. m PROVE g[i] = IF i = 0 THEN St(0) ELSE Body(g[i - 1])
    <3>1. CASE i = 0
      BY <1>7, <3>1
    <3>2. CASE i # 0
      <4>1. i \in 1 .. m /\ i - 1 \in 0 .. m
        BY <3>2
      <4>2. g[i] = St(p[i]) /\ g[i - 1] = St(p[i - 1]) /\ p[i] = next[p[i - 1]] /\ p[i - 1] \in 0 .. m
        BY <1>7, <4>1, Zenon
      <4> QED
        BY <1>8, <3>2, <4>2
    <3> QED
      BY <3>1, <3>2
  <2>2. g = [i \in 0 .. m |-> g[i]]
    OBVIOUS
  <2> HIDE DEF g
  <2> QED
    BY <1>9, <2>1, <2>2, Zenon
<1>11. turn = F(turn)
  <2> HIDE DEF F, g
  <2> QED
    BY <1>10
<1> HIDE DEF turn
<1>12. \A i \in 0 .. m : turn[i] = IF i = 0 THEN St(0) ELSE Body(turn[i - 1])
  <2>1. \A i \in 0 .. Len(input) : turn[i] = F(turn)[i]
    BY <1>11, Zenon
  <2> QED
    BY <1>9, <2>1
<1>13. turn[m] = g[m]
  <2> DEFINE S == {i \in Nat : i <= m => turn[i] = g[i]}
  <2>0. \A i \in 0 .. m : g[i] = IF i = 0 THEN St(0) ELSE Body(g[i - 1])
    <3>1. \A i \in 0 .. Len(input) : g[i] = F(g)[i]
      <4> HIDE DEF g
      <4> QED
        BY <1>10, Zenon
    <3> HIDE DEF g
    <3> QED
      BY <1>9, <3>1
  <2> HIDE DEF g
  <2>1. 0 \in S
    BY <1>12, <2>0
  <2>2. ASSUME NEW i \in Nat, i \in S PROVE i + 1 \in S
    <3> SUFFICES ASSUME i + 1 <= m PROVE turn[i + 1] = g[i + 1]
      OBVIOUS
    <3> DEFINE j == i + 1
    <3>1. j \in 0 .. m /\ j # 0 /\ j - 1 = i /\ turn[i] = g[i]
      BY <2>2
    <3> HIDE DEF j
    <3>2. turn[j] = Body(turn[j - 1]) /\ g[j] = Body(g[j - 1])
      BY <1>12, <2>0, <3>1
    <3>3. turn[j] = g[j]
      BY <3>1, <3>2
    <3> QED
      BY <3>3 DEF j
  <2>3. \A i \in Nat : i \in S
    <3> HIDE DEF S
    <3> QED
      BY <2>1, <2>2, Induction
  <2>4. m \in S
    BY <2>3
  <2> QED
    BY <2>4
<1>14. turn[m] = St(m)
  <2>1. g[m] = St(p[m])
    OBVIOUS
  <2> HIDE DEF g
  <2> QED
    BY <1>7, <1>13, <2>1
<1>15. Hasher!Ref!Update(s, input) = turn[Len(input)].hasher
  BY DEF Hasher!Ref!Update, turn, Body
<1>16. Hasher!Ref!Update(s, input) = RefAt(key, flags, u, n + m)
  BY <1>9, <1>14, <1>15 DEF St
<1> QED
  BY <1>16 DEF s, input, RefUpdates

\* A new one
LEMMA RefNew ==
  ASSUME NEW key, NEW flags, NEW u \in Units, Hasher!SizesAssumption
  PROVE  Hasher!Ref!NewHasher(key, flags) = RefAt(key, flags, u, 0)
<1> DEFINE z == 0
           n == 0
<1>1. CHUNK_LEN \in Nat \ {0} /\ CHUNK_LEN \in Nat /\ z \in Nat /\ n \in Nat /\ n <= CHUNK_LEN
  BY SizesAre
<1>2. Full(n) = 0 /\ LastOf(n) = 0
  <2>1. n <= CHUNK_LEN => Full(n) = 0 /\ LastOf(n) = n
    <3> HIDE DEF n
    <3> QED
      BY <1>1, FullIs
  <2> QED
    BY <1>1, <2>1
<1>3. Hasher!Ref!NewChunk(key, 0, flags) = RefChunkOf(key, flags, u, 0, 0)
  <2>1. Hasher!Ref!NewChunk(key, z, flags) = RefChunkOf(key, flags, u, z, 0)
    <3> HIDE DEF z
    <3> QED
      BY <1>1, RefNewChunkIs
  <2> QED
    BY <2>1
<1>4. StackOf(key, flags, u, 0, 0) = <<>>
  <2>1. StackOf(key, flags, u, z, 0) = <<>>
    <3> HIDE DEF z
    <3> QED
      BY <1>1, EmptyStack
  <2> QED
    BY <2>1
<1>5. RefAt(key, flags, u, n) = RefState(key, flags, u, 0, 0)
  <2> HIDE DEF n
  <2> QED
    BY <1>2 DEF RefAt
<1> QED
  BY <1>3, <1>4, <1>5 DEF RefState, Hasher!Ref!NewHasher

\* Its output is the node of the tree over all it was given.
RefOutputIs(key, flags, u, n) ==
  /\ IsNode(Hasher!Ref!RootNode(RefAt(key, flags, u, n)), Subtree(key, flags, u, 0, n))
  /\ RefAt(key, flags, u, n).key_words = key
  /\ RefAt(key, flags, u, n).flags = flags

\* Merging all that waits gives the tree (TreeFolds).
LEMMA RefOutput ==
  ASSUME NEW key, NEW flags, NEW u \in Units, Hasher!SizesAssumption, NEW n \in Nat
  PROVE  RefOutputIs(key, flags, u, n)
<1> DEFINE V == Vals(key, flags)
           merge == Merge(key, flags)
           b == 0
           t == Full(n)
           k == LastOf(n)
           row == Leaves(key, flags, u, b)
           st == StackOf(key, flags, u, b, t)
           s == RefChunkOf(key, flags, u, t, k)
           g == ARefHasher(key, flags, s, st)
           o == LeafOut(key, flags, u, t, k)
           v == Leaf(key, flags, u, t, k)
           sub == Subtree(key, flags, u, b, n)
<1>1. CHUNK_LEN \in Nat \ {0} /\ CHUNK_LEN \in Nat /\ Hasher!BLOCK_LEN = 2 /\ b \in Nat
  BY SizesAre
<1>2. t \in Nat /\ k \in Nat
  <2>1. t \in Nat /\ k \in 0 .. CHUNK_LEN
    BY <1>1, FullIs
  <2> QED
    BY <1>1, <2>1
<1>3. merge \in [V -> [V -> V]]
  BY MergeIs, Zenon DEF Merges
<1>4. b + t = t
  BY <1>2
<1>5. sub = Tree(V, merge)[t][row][v]
  BY <1>4 DEF Subtree
<1>6. RefAt(key, flags, u, n) = g
  BY DEF RefAt, RefState, ARefHasher
<1> HIDE DEF b, t, k
<1>7. IsNode(o, v) /\ v \in V
  <2>1. IsNode(o, v)
    BY <1>1, <1>2, LeafNode
  <2>2. v \in V
    BY <1>1, <1>2, LeafIs
  <2> QED
    BY <2>1, <2>2
<1>8. st \in Seq(V)
  BY <1>1, <1>2, StackOfIs
<1>9. Fold(V, merge, st, v)[Len(st)] = sub
  <2>1. row \in Row(V)
    BY <1>1, LeavesAre
  <2> HIDE DEF V, merge, row, v
  <2>2. Fold(V, merge, Waits(V, merge)[t][row], v)[Len(Waits(V, merge)[t][row])]
          = Tree(V, merge)[t][row][v]
    BY <1>2, <1>3, <1>7, <2>1, TreeFolds
  <2>3. st = Waits(V, merge)[t][row]
    BY DEF StackOf, V, merge, row
  <2> HIDE DEF sub, st
  <2> QED
    BY <1>5, <2>2, <2>3
<1>10. Hasher!Ref!ChunkOutput(s) = o
  <2>1. RefChunkIs(key, flags, u, t, k, s)
    BY <1>1, <1>2, RefChunkOfIs
  <2> QED
    BY <2>1 DEF RefChunkIs
<1>11. g.chunk_state = s /\ g.key_words = key /\ g.flags = flags /\ g.cv_stack = st
  BY DEF ARefHasher
<1> HIDE DEF g, s, st, o, v, sub
<1>12. Hasher!Ref!RootNode(g) = Hasher!Ref!FoldParents(g, o, Len(st))
  BY <1>10, <1>11 DEF Hasher!Ref!RootNode
<1>13. IsNode(Hasher!Ref!FoldParents(g, o, Len(st)), Fold(Vals(key, flags), Merge(key, flags), st, v)[Len(st)])
  BY <1>7, <1>8, <1>11, FoldsRef
<1>14. IsNode(Hasher!Ref!RootNode(g), sub)
  BY <1>9, <1>12, <1>13
<1> QED
  BY <1>6, <1>11, <1>14 DEF RefOutputIs, sub, b

(***************************************************************************)
(* Alike results.                                                          *)
(***************************************************************************)

\* The hash of an input that is there at once is that of the reference.
OnceIsRef(key, flags, degree, u, n) ==
  Hasher!RootHash(Hasher!HashAllAtOnce(Cut(u, 0, n), key, flags, degree))
    = Hasher!Ref!RootOutputBlock(Hasher!Ref!RootNode(RefAt(key, flags, u, n)), 0)

\* Both have the node of the tree over the whole input.
LEMMA OnceAlike ==
  ASSUME NEW key, NEW flags, NEW degree, NEW u \in Units, Hasher!SizesAssumption,
         Fits(degree), NEW n \in Nat
  PROVE  OnceIsRef(key, flags, degree, u, n)
<1> DEFINE o == Hasher!HashAllAtOnce(Cut(u, 0, n), key, flags, degree)
           p == Hasher!Ref!RootNode(RefAt(key, flags, u, n))
           v == Subtree(key, flags, u, 0, n)
<1>1. IsNode(o, v)
  <2>1. AtOnceIs(key, flags, degree, u, n)
    BY AllAtOnce
  <2> QED
    BY <2>1 DEF AtOnceIs
<1>2. IsNode(p, v)
  <2>1. RefOutputIs(key, flags, u, n)
    BY RefOutput
  <2> QED
    BY <2>1 DEF RefOutputIs
<1>3. v.counter = 0
  BY WholeCounter
<1> HIDE DEF o, p, v
<1>4. Hasher!RootHash(o) = Hasher!Ref!RootOutputBlock(o, 0)
  BY <1>1, <1>3, RootIs
<1>5. o = p
  BY <1>1, <1>2, OneNode
<1> QED
  BY <1>4, <1>5 DEF OnceIsRef, o, p

\* The incremental Hasher gives the same.
FinalIsRef(key, flags, degree, u, n, g) ==
  /\ Hasher!Finalize(g)
       = Hasher!Ref!RootOutputBlock(Hasher!Ref!RootNode(RefAt(key, flags, u, n)), 0)
  /\ Hasher!Finalize(g)
       = Hasher!RootHash(Hasher!HashAllAtOnce(Cut(u, 0, n), key, flags, degree))

\* All three have the node of the tree over the whole input.
LEMMA FinalAlike ==
  ASSUME NEW key, NEW flags, NEW degree, NEW u \in Units, Hasher!SizesAssumption,
         Fits(degree), NEW n \in Nat, NEW g, HasherAt(key, flags, degree, u, 0, n, g)
  PROVE  FinalIsRef(key, flags, degree, u, n, g)
<1> DEFINE o == Hasher!FinalOutput(g)
           p == Hasher!Ref!RootNode(RefAt(key, flags, u, n))
           v == Subtree(key, flags, u, 0, n)
           z == 0
<1>1. IsNode(o, v) /\ g.initial_chunk_counter = 0
  <2>1. z \in Nat /\ HasherAt(key, flags, degree, u, z, n, g)
    OBVIOUS
  <2> HIDE DEF z
  <2>2. OutputIs(key, flags, u, z, n, g)
    BY <2>1, OutputAt
  <2>3. HasherIs(key, flags, degree, z, n, g)
    BY <2>1, HasherHas
  <2> QED
    BY <2>2, <2>3 DEF OutputIs, HasherIs, z
<1>2. IsNode(p, v)
  <2>1. RefOutputIs(key, flags, u, n)
    BY RefOutput
  <2> QED
    BY <2>1 DEF RefOutputIs
<1>3. v.counter = 0
  BY WholeCounter
<1> HIDE DEF o, p, v
<1>4. Hasher!RootHash(o) = Hasher!Ref!RootOutputBlock(o, 0)
  BY <1>1, <1>3, RootIs
<1>5. o = p
  BY <1>1, <1>2, OneNode
<1>6. Hasher!Finalize(g) = Hasher!RootHash(o)
  BY <1>1 DEF Hasher!Finalize, Hasher!Asserting, o
<1>7. OnceIsRef(key, flags, degree, u, n)
  BY OnceAlike
<1> QED
  BY <1>4, <1>5, <1>6, <1>7 DEF OnceIsRef, FinalIsRef, p

\* The keys of derive_key, from the context, are alike.
LEMMA ContextAlike ==
  ASSUME Hasher!SizesAssumption, NEW degree, Fits(degree)
  PROVE  Hasher!HashDeriveKeyContext(<<7, 7, 7>>, degree) = Hasher!Ref!DeriveKeyContext(<<7, 7, 7>>)
<1> DEFINE u == [i \in Nat |-> 7]
           key == Hasher!IV
           flags == {"DERIVE_KEY_CONTEXT"}
           n == 3
           z == 0
           context == <<7, 7, 7>>
<1>1. u \in Units /\ n \in Nat /\ z \in Nat
  BY DEF Units
<1>2. context = Cut(u, z, n)
  <2>1. \A i \in 1 .. n : u[z + i] = 7 /\ context[i] = 7
    OBVIOUS
  <2>2. context \in Seq(Nat) /\ Len(context) = n
    OBVIOUS
  <2> HIDE DEF u, context, n, z
  <2>3. \A i \in 1 .. n : context[i] = u[z + i]
    BY <2>1
  <2> QED
    BY <1>1, <2>2, <2>3, CutOnly, Zenon
<1>3. OnceIsRef(key, flags, degree, u, n)
  <2> HIDE DEF u, n, key, flags
  <2> QED
    BY <1>1, OnceAlike
<1>4. Hasher!Ref!NewHasher(key, flags) = RefAt(key, flags, u, z)
  <2> HIDE DEF u, key, flags
  <2> QED
    BY <1>1, RefNew
<1>5. Hasher!Ref!Update(RefAt(key, flags, u, z), Cut(u, z, n)) = RefAt(key, flags, u, n)
  <2>1. z + n = n
    OBVIOUS
  <2> HIDE DEF u, key, flags, n, z
  <2>2. RefUpdates(key, flags, u, z, n)
    BY <1>1, RefUpdated
  <2> QED
    BY <2>1, <2>2 DEF RefUpdates
<1>6. Hasher!Ref!IV = Hasher!IV
  BY DEF Hasher!Ref!IV, Hasher!IV
<1> HIDE DEF u, n, context
<1>7. Hasher!Ref!DeriveKeyContext(context)
        = Hasher!Ref!RootOutputBlock(Hasher!Ref!RootNode(RefAt(key, flags, u, n)), 0)
  <2>1. Hasher!Ref!Update(Hasher!Ref!NewHasher(key, flags), context) = RefAt(key, flags, u, n)
    BY <1>2, <1>4, <1>5
  <2> QED
    BY <1>6, <2>1 DEF Hasher!Ref!DeriveKeyContext, Hasher!Ref!Finalize
<1>8. Hasher!HashDeriveKeyContext(context, degree)
        = Hasher!RootHash(Hasher!HashAllAtOnce(Cut(u, 0, n), key, flags, degree))
  BY <1>2 DEF Hasher!HashDeriveKeyContext
<1>9. Hasher!HashDeriveKeyContext(context, degree) = Hasher!Ref!DeriveKeyContext(context)
  BY <1>3, <1>7, <1>8 DEF OnceIsRef
<1> QED
  BY <1>9 DEF context

(***************************************************************************)
(* The inductive invariant.                                                *)
(***************************************************************************)

\* The input: its units are numbered.
Numbers == [i \in Nat |-> i]

\* A Hasher that was reset after an offset: it starts anew, but has the offset.
ResetAt(key, flags, degree, b) ==
  AHasher(key, Hasher!NewChunkState(key, 0, flags, degree), b, <<>>)

\* What the Hasher and the reference Hasher are: a function of where the Hasher
\* was started and of what it was given, up to the shape of the stack
InvFor(key, flags, degree) ==
  /\ Fits(degree)
  /\ origin \in Nat /\ fed \in Nat /\ fed <= MaxInput
  /\ reference = RefAt(key, flags, Numbers, IF origin = 0 THEN fed ELSE 0)
  /\ \/ HasherAt(key, flags, degree, Numbers, origin, fed, hasher) /\ Room(origin, fed)
     \/ /\ origin = 0 /\ fed = 0
        /\ \E b \in Nat \ {0} : hasher = ResetAt(key, flags, degree, b)

\* With some key, flags and degree: those the hasher was made with
HasherInv == \E key, flags, degree : InvFor(key, flags, degree)

\* The model's inputs are parts of it.
LEMMA NumbersAre ==
  /\ Numbers \in Units
  /\ \A a, n \in Nat : Hasher!Span(a, a + n) = Cut(Numbers, a, n)
<1>1. Numbers \in Units
  BY DEF Numbers, Units
<1>2. ASSUME NEW a \in Nat, NEW n \in Nat PROVE Hasher!Span(a, a + n) = Cut(Numbers, a, n)
  <2>1. (a + n) - a = n
    OBVIOUS
  <2>2. \A i \in 1 .. n : Numbers[a + i] = a + i
    BY DEF Numbers
  <2>3. Hasher!Span(a, a + n) = [i \in 1 .. n |-> a + i]
    BY <2>1 DEF Hasher!Span
  <2> QED
    BY <2>2, <2>3, Zenon DEF Cut
<1> QED
  BY <1>1, <1>2

\* A new Hasher
LEMMA NewIs ==
  ASSUME NEW key, NEW flags, NEW degree, NEW u \in Units, NEW b \in Nat, Hasher!SizesAssumption
  PROVE  HasherAt(key, flags, degree, u, b, 0,
                  AHasher(key, Hasher!NewChunkState(key, b, flags, degree), b, <<>>))
<1>1. CHUNK_LEN \in Nat
  BY SizesAre
<1> DEFINE s == Hasher!NewChunkState(key, b, flags, degree)
<1>2. s = ChunkOf(key, flags, degree, u, b, 0)
  BY <1>1, NewChunkIs
<1>3. b + 0 = b
  OBVIOUS
<1> HIDE DEF s
<1>4. AHasher(key, s, b, <<>>) = AtChunk(key, flags, degree, u, b, 0, 0, <<>>)
  BY <1>2, <1>3 DEF AtChunk
<1>5. HasherAt(key, flags, degree, u, b, 0, AHasher(key, s, b, <<>>))
  BY <1>4 DEF HasherAt
<1> QED
  BY <1>5 DEF s

\* Nothing always has room.
LEMMA SomeRoom ==
  ASSUME Hasher!SizesAssumption, NEW b \in Nat
  PROVE  Room(b, 0)
<1>1. SUFFICES ASSUME b # 0 PROVE 0 <= Hasher!LowestOne[b] * CHUNK_LEN
  BY DEF Room
<1>2. PICK e, q \in Nat : Hasher!LowestOne[b] = 2 ^ e
  BY <1>1, LowestDivides, Zenon DEF Lowest
<1>3. 2 ^ e \in Nat /\ CHUNK_LEN \in Nat
  BY TallIs, SizesAre
<1> DEFINE x == 2 ^ e
<1> HIDE DEF x
<1>4. x \in Nat /\ Hasher!LowestOne[b] = x
  BY <1>2, <1>3 DEF x
<1>5. 0 <= x * CHUNK_LEN
  BY <1>3, <1>4
<1> QED
  BY <1>4, <1>5

\* A Hasher that was given nothing
LEMMA NothingIs ==
  ASSUME NEW key, NEW flags, NEW degree, NEW u \in Units, NEW b \in Nat, Hasher!SizesAssumption,
         NEW g, HasherAt(key, flags, degree, u, b, 0, g)
  PROVE  g = AHasher(key, Hasher!NewChunkState(key, b, flags, degree), b, <<>>)
<1>1. CHUNK_LEN \in Nat \ {0} /\ CHUNK_LEN \in Nat
  BY SizesAre
<1>2. CASE g = AtChunk(key, flags, degree, u, b, 0, 0, <<>>)
  <2>1. Hasher!NewChunkState(key, b, flags, degree) = ChunkOf(key, flags, degree, u, b, 0)
    BY <1>1, NewChunkIs
  <2>2. b + 0 = b
    OBVIOUS
  <2> QED
    BY <1>2, <2>1, <2>2 DEF AtChunk
<1>3. ASSUME NEW t \in Nat, NEW k \in 1 .. CHUNK_LEN, 0 = t * CHUNK_LEN + k PROVE FALSE
  <2> DEFINE p == t * CHUNK_LEN
  <2>1. p \in Nat /\ 0 = p + k
    BY <1>1, <1>3
  <2> HIDE DEF p
  <2> QED
    BY <2>1
<1>4. ASSUME NEW t \in Nat, 0 = t * CHUNK_LEN, PairAt(key, flags, degree, u, b, t, g) PROVE FALSE
  <2>1. t = 0
    BY <1>1, <1>4
  <2>2. PICK h, m \in Nat : t = (m + 1) * 2 ^ h
    BY <1>4 DEF PairAt
  <2>3. 2 ^ h \in Nat \ {0}
    BY TallIs, Zenon
  <2> DEFINE x == 2 ^ h
  <2> HIDE DEF x
  <2>4. x \in Nat \ {0} /\ 0 = (m + 1) * x
    BY <2>1, <2>2, <2>3 DEF x
  <2> QED
    BY <2>4
<1> QED
  BY <1>2, <1>3, <1>4 DEF HasherAt

\* Any Hasher of the invariant
LEMMA RecordIs ==
  ASSUME NEW key, NEW flags, NEW degree, NEW u \in Units, NEW b \in Nat, Hasher!SizesAssumption,
         NEW n \in Nat, NEW g, HasherAt(key, flags, degree, u, b, n, g)
  PROVE  \E cs, st : /\ g = AHasher(key, cs, b, st)
                     /\ cs.flags = flags /\ cs.simd_degree = degree
<1>1. \E cs, st : g = AHasher(key, cs, b, st)
  BY DEF HasherAt, PairAt, AtChunk
<1>2. PICK cs, st : g = AHasher(key, cs, b, st)
  BY <1>1
<1>3. g.chunk_state = cs
  BY <1>2 DEF AHasher
<1>4. HasherIs(key, flags, degree, b, n, g)
  BY HasherHas
<1> QED
  BY <1>2, <1>3, <1>4 DEF HasherIs

\* A new hasher has it.
LEMMA InvInit ==
  ASSUME Hasher!SizesAssumption, Hasher!RoomAssumption, Hasher!DegreesAssumption, Hasher!Init
  PROVE  HasherInv
<1>1. PICK mode \in Modes, degree \in Degrees :
        LET refKey == IF mode = "DeriveKeyMaterial" THEN Hasher!Ref!DeriveKeyContext(<<7, 7, 7>>)
                      ELSE Hasher!KeyWords(mode, degree)
        IN  /\ hasher = Hasher!NewInternal(Hasher!KeyWords(mode, degree), Hasher!FlagsByte(mode), degree)
            /\ reference = Hasher!Ref!NewHasher(refKey, Hasher!FlagsByte(mode))
            /\ origin = 0
            /\ fed = 0
            /\ panicked = FALSE
  BY DEF Hasher!Init
<1> DEFINE key == Hasher!KeyWords(mode, degree)
           flags == Hasher!FlagsByte(mode)
           z == 0
<1>2. Fits(degree)
  <2>1. MaxSimdDegree \in Nat /\ degree <= MaxSimdDegree /\ \E d \in 0 .. 4 : degree = 2 ^ d
    BY DEF Hasher!DegreesAssumption
  <2>2. PICK d \in 0 .. 4 : degree = 2 ^ d
    BY <2>1, Zenon
  <2>3. d \in Nat
    OBVIOUS
  <2> QED
    BY <2>1, <2>2, <2>3 DEF Fits
<1>3. reference = Hasher!Ref!NewHasher(key, flags)
  <2>1. CASE mode = "DeriveKeyMaterial"
    <3>1. key = Hasher!HashDeriveKeyContext(<<7, 7, 7>>, degree)
      BY <2>1 DEF Hasher!KeyWords
    <3>2. key = Hasher!Ref!DeriveKeyContext(<<7, 7, 7>>)
      <4>1. Hasher!HashDeriveKeyContext(<<7, 7, 7>>, degree) = Hasher!Ref!DeriveKeyContext(<<7, 7, 7>>)
        BY <1>2, ContextAlike
      <4> HIDE DEF key
      <4> QED
        BY <3>1, <4>1
    <3> HIDE DEF key, flags
    <3> QED
      BY <1>1, <2>1, <3>2 DEF flags
  <2>2. CASE mode # "DeriveKeyMaterial"
    BY <1>1, <2>2
  <2> QED
    BY <2>1, <2>2
<1>4. hasher = AHasher(key, Hasher!NewChunkState(key, z, flags, degree), z, <<>>)
  <2> HIDE DEF key, flags
  <2>1. hasher = Hasher!NewInternal(key, flags, degree)
    BY <1>1 DEF key, flags
  <2> QED
    BY <2>1 DEF Hasher!NewInternal, AHasher
<1> HIDE DEF key, flags
<1>5. origin = z /\ fed = 0 /\ z \in Nat /\ 0 \in Nat
  BY <1>1
<1>6. Numbers \in Units
  BY NumbersAre
<1>7. reference = RefAt(key, flags, Numbers, 0)
  <2>1. Hasher!Ref!NewHasher(key, flags) = RefAt(key, flags, Numbers, 0)
    BY <1>6, RefNew
  <2> QED
    BY <1>3, <2>1
<1>8. 0 <= MaxInput
  BY DEF Hasher!RoomAssumption
<1> HIDE DEF z
<1>9. HasherAt(key, flags, degree, Numbers, z, 0, hasher)
  <2>1. HasherAt(key, flags, degree, Numbers, z, 0,
                 AHasher(key, Hasher!NewChunkState(key, z, flags, degree), z, <<>>))
    BY <1>5, <1>6, NewIs
  <2> QED
    BY <1>4, <2>1
<1>10. Room(z, 0)
  BY <1>5, SomeRoom
<1>11. reference = RefAt(key, flags, Numbers, IF origin = 0 THEN fed ELSE 0)
  BY <1>5, <1>7
<1>12. InvFor(key, flags, degree)
  BY <1>2, <1>5, <1>8, <1>9, <1>10, <1>11 DEF InvFor
<1> QED
  BY <1>12 DEF HasherInv

\* The update that a Hasher started past chunk 0 does not refuse has room.
LEMMA RoomKept ==
  ASSUME Hasher!SizesAssumption, NEW b \in Nat, NEW n \in Nat, NEW len \in Nat, Room(b, n),
         NEW g, g.initial_chunk_counter = b, Hasher!Count(g) = n, ~Hasher!UpdatePanics(g, len)
  PROVE  Room(b, n + len)
<1>1. SUFFICES ASSUME b # 0 PROVE n + len <= Hasher!LowestOne[b] * CHUNK_LEN
  BY DEF Room
<1> DEFINE x == Hasher!LowestOne[b] * CHUNK_LEN
<1>2. x \in Nat
  <2>1. PICK e, q \in Nat : Hasher!LowestOne[b] = 2 ^ e
    BY <1>1, LowestDivides DEF Lowest
  <2>2. 2 ^ e \in Nat /\ CHUNK_LEN \in Nat
    BY TallIs, SizesAre
  <2> DEFINE y == 2 ^ e
  <2> HIDE DEF y
  <2>3. y \in Nat /\ Hasher!LowestOne[b] = y
    BY <2>1, <2>2 DEF y
  <2> QED
    BY <2>2, <2>3
<1>3. Hasher!MaxSubtreeLen(b) = x
  BY DEF Hasher!MaxSubtreeLen
<1> HIDE DEF x
<1>4. ~(len > x - n)
  BY <1>1, <1>3 DEF Hasher!UpdatePanics
<1>5. n + len <= x
  BY <1>2, <1>4
<1> QED
  BY <1>5 DEF x

\* What a Hasher that was reset after an offset has
LEMMA ResetHas ==
  ASSUME NEW key, NEW flags, NEW degree, NEW b \in Nat \ {0}, Hasher!SizesAssumption,
         NEW g, g = ResetAt(key, flags, degree, b)
  PROVE  /\ g.initial_chunk_counter = b /\ g.cv_stack = <<>>
         /\ g.chunk_state = Hasher!NewChunkState(key, 0, flags, degree)
         /\ g.chunk_state.chunk_counter = 0
         /\ Hasher!Count(g) # 0
<1> DEFINE s == Hasher!NewChunkState(key, 0, flags, degree)
<1>1. CHUNK_LEN \in Nat /\ CHUNK_LEN >= 2 /\ Hasher!BLOCK_LEN = 2
  BY SizesAre
<1>2. g.initial_chunk_counter = b /\ g.cv_stack = <<>> /\ g.chunk_state = s
  BY DEF ResetAt, AHasher
<1>3. s.chunk_counter = 0 /\ s.blocks_compressed = 0 /\ s.buf = <<>>
  BY DEF Hasher!NewChunkState
<1>4. Hasher!ChunkCount(s) = 0
  <2> HIDE DEF s
  <2> QED
    BY <1>1, <1>3, EmptyIs DEF Hasher!ChunkCount
<1> HIDE DEF s
<1>5. Hasher!Count(g) = (0 - b) * CHUNK_LEN + 0
  BY <1>2, <1>3, <1>4 DEF Hasher!Count
<1>6. (0 - b) * CHUNK_LEN < 0
  <2>1. b * CHUNK_LEN > 0
    <3>1. b >= 1
      OBVIOUS
    <3>2. b * CHUNK_LEN >= 1 * CHUNK_LEN
      BY <1>1, <3>1
    <3> QED
      BY <1>1, <3>2
  <2>2. (0 - b) * CHUNK_LEN = 0 - b * CHUNK_LEN
    BY <1>1
  <2> DEFINE x == b * CHUNK_LEN
  <2>3. x \in Nat
    BY <1>1
  <2> HIDE DEF x
  <2> QED
    BY <2>1, <2>2, <2>3 DEF x
<1>7. Hasher!Count(g) # 0
  <2> DEFINE x == (0 - b) * CHUNK_LEN
  <2>1. x \in Int
    BY <1>1
  <2> HIDE DEF x
  <2> QED
    BY <1>5, <1>6, <2>1 DEF x
<1> QED
  BY <1>2, <1>3, <1>7 DEF s

\* update panics, or accepts the input.
LEMMA InvUpdate ==
  ASSUME Hasher!SizesAssumption, Hasher!RoomAssumption, NEW key, NEW flags, NEW degree,
         InvFor(key, flags, degree), NEW len \in Lengths, Hasher!Update(len)
  PROVE  InvFor(key, flags, degree)'
<1> DEFINE u == Numbers
           from == origin * CHUNK_LEN + fed
<1>1. CHUNK_LEN \in Nat /\ MaxInput \in Nat /\ len \in Nat
  BY SizesAre DEF Hasher!RoomAssumption
<1>2. Fits(degree) /\ origin \in Nat /\ fed \in Nat /\ fed <= MaxInput /\ from \in Nat
      /\ reference = RefAt(key, flags, u, IF origin = 0 THEN fed ELSE 0)
  BY <1>1 DEF InvFor
<1>3. u \in Units /\ \A a, n \in Nat : Hasher!Span(a, a + n) = Cut(u, a, n)
  BY NumbersAre
<1>4. Hasher!Position = from
  BY DEF Hasher!Position
<1> HIDE DEF u
<1>5. CASE Hasher!UpdatePanics(hasher, len)
  <2>1. UNCHANGED <<hasher, origin, fed, reference>>
    BY <1>5 DEF Hasher!Update
  <2> QED
    BY <2>1 DEF InvFor
<1>6. CASE ~Hasher!UpdatePanics(hasher, len)
  <2>1. /\ hasher' = Hasher!UpdateWithJoin(hasher, Hasher!Span(from, from + len))
        /\ reference' = IF origin = 0 THEN Hasher!Ref!Update(reference, Hasher!Span(fed, fed + len))
                        ELSE reference
        /\ fed' = fed + len
        /\ origin' = origin
        /\ from + len <= MaxInput
    <3> HIDE DEF from
    <3> QED
      BY <1>4, <1>6 DEF Hasher!Update
  <2>2. ~\E b \in Nat \ {0} : hasher = ResetAt(key, flags, degree, b)
    <3>1. ASSUME NEW b \in Nat \ {0}, hasher = ResetAt(key, flags, degree, b) PROVE FALSE
      <4>1. hasher.initial_chunk_counter = b /\ hasher.chunk_state.chunk_counter = 0
        BY <3>1, ResetHas
      <4> QED
        BY <1>6, <4>1 DEF Hasher!UpdatePanics
    <3> QED
      BY <3>1
  <2>3. HasherAt(key, flags, degree, u, origin, fed, hasher) /\ Room(origin, fed)
    BY <2>2 DEF InvFor, u
  <2>4. HasherIs(key, flags, degree, origin, fed, hasher)
    BY <1>2, <1>3, <2>3, HasherHas
  <2>5. Room(origin, fed + len)
    <3>1. hasher.initial_chunk_counter = origin /\ Hasher!Count(hasher) = fed
      BY <2>4 DEF HasherIs
    <3> QED
      BY <1>1, <1>2, <1>6, <2>3, <3>1, RoomKept
  <2>6. UpdatedIs(key, flags, degree, u, origin, fed, len, hasher)
    BY <1>1, <1>2, <1>3, <2>3, <2>5, Updated
  <2>7. HasherAt(key, flags, degree, u, origin, fed + len, hasher')
    <3>1. Hasher!Span(from, from + len) = Cut(u, from, len)
      <4> HIDE DEF from
      <4> QED
        BY <1>1, <1>2, <1>3
    <3> QED
      BY <2>1, <2>6, <3>1 DEF UpdatedIs
  <2>8. fed + len \in Nat /\ fed + len <= MaxInput
    <3> DEFINE x == origin * CHUNK_LEN
    <3>1. x \in Nat
      BY <1>1, <1>2
    <3>2. (x + fed) + len <= MaxInput
      BY <2>1
    <3> HIDE DEF x
    <3> QED
      BY <1>1, <1>2, <3>1, <3>2
  <2>9. reference' = RefAt(key, flags, u, IF origin = 0 THEN fed + len ELSE 0)
    <3>1. CASE origin = 0
      <4>1. reference = RefAt(key, flags, u, fed)
        BY <1>2, <3>1
      <4>2. Hasher!Span(fed, fed + len) = Cut(u, fed, len)
        BY <1>1, <1>2, <1>3
      <4>3. RefUpdates(key, flags, u, fed, len)
        BY <1>1, <1>2, <1>3, RefUpdated
      <4>4. reference' = RefAt(key, flags, u, fed + len)
        BY <2>1, <3>1, <4>1, <4>2, <4>3 DEF RefUpdates
      <4> QED
        BY <3>1, <4>4
    <3>2. CASE origin # 0
      BY <1>2, <2>1, <3>2
    <3> QED
      BY <3>1, <3>2
  <2> DEFINE n == fed + len
  <2> HIDE DEF n
  <2>10. /\ origin' = origin /\ fed' = n /\ n \in Nat /\ n <= MaxInput
         /\ reference' = RefAt(key, flags, u, IF origin = 0 THEN n ELSE 0)
         /\ HasherAt(key, flags, degree, u, origin, n, hasher') /\ Room(origin, n)
    BY <2>1, <2>5, <2>7, <2>8, <2>9 DEF n
  <2>11. reference' = RefAt(key, flags, u, IF origin' = 0 THEN fed' ELSE 0)
    BY <2>10
  <2>12. HasherAt(key, flags, degree, u, origin', fed', hasher') /\ Room(origin', fed')
    BY <2>10
  <2> QED
    BY <1>2, <2>10, <2>11, <2>12 DEF InvFor, u
<1> QED
  BY <1>5, <1>6

\* reset gives a new Hasher, but for the offset.
LEMMA ResetGives ==
  ASSUME NEW key, NEW flags, NEW degree, NEW b, NEW cs, NEW st,
         cs.flags = flags, cs.simd_degree = degree,
         hasher = AHasher(key, cs, b, st), Hasher!Reset
  PROVE  hasher' = AHasher(key, Hasher!NewChunkState(key, 0, flags, degree), b, <<>>)
<1>1. hasher.key = key /\ hasher.chunk_state = cs
  BY DEF AHasher
<1> DEFINE new == Hasher!NewChunkState(key, 0, flags, degree)
<1>2. hasher' = [hasher EXCEPT !.chunk_state = new, !.cv_stack = <<>>]
  BY <1>1, Zenon DEF Hasher!Reset
<1> HIDE DEF new
<1>3. hasher' = AHasher(key, new, b, <<>>)
  BY <1>2, Zenon DEF AHasher
<1> QED
  BY <1>3 DEF new

\* reset
LEMMA InvReset ==
  ASSUME Hasher!SizesAssumption, Hasher!RoomAssumption, NEW key, NEW flags, NEW degree,
         InvFor(key, flags, degree), Hasher!Reset
  PROVE  InvFor(key, flags, degree)'
<1> DEFINE u == Numbers
           new == Hasher!NewChunkState(key, 0, flags, degree)
<1>1. u \in Units
  BY NumbersAre
<1>2. origin' = 0 /\ fed' = 0 /\ reference' = Hasher!Ref!NewHasher(reference.key_words, reference.flags)
  BY DEF Hasher!Reset
<1>3. Fits(degree) /\ 0 <= MaxInput /\ 0 \in Nat
  BY DEF InvFor, Hasher!RoomAssumption
<1>4. reference' = RefAt(key, flags, u, 0)
  <2> DEFINE n == IF origin = 0 THEN fed ELSE 0
  <2>1. n \in Nat /\ reference = RefAt(key, flags, u, n)
    BY DEF InvFor
  <2> HIDE DEF n, u
  <2>2. RefOutputIs(key, flags, u, n)
    BY <1>1, <2>1, RefOutput
  <2>3. reference.key_words = key /\ reference.flags = flags
    BY <2>1, <2>2 DEF RefOutputIs
  <2> QED
    BY <1>1, <1>2, <2>3, RefNew
<1>5. \E b \in Nat : hasher' = AHasher(key, new, b, <<>>)
  <2>1. CASE HasherAt(key, flags, degree, u, origin, fed, hasher)
    <3>1. origin \in Nat /\ fed \in Nat
      BY DEF InvFor
    <3> HIDE DEF u
    <3>2. PICK cs, st : /\ hasher = AHasher(key, cs, origin, st)
                        /\ cs.flags = flags /\ cs.simd_degree = degree
      BY <1>1, <2>1, <3>1, RecordIs
    <3>3. hasher' = AHasher(key, Hasher!NewChunkState(key, 0, flags, degree), origin, <<>>)
      BY <3>2, ResetGives
    <3> QED
      BY <3>1, <3>3
  <2>2. ASSUME NEW b \in Nat \ {0}, hasher = ResetAt(key, flags, degree, b)
        PROVE  \E b2 \in Nat : hasher' = AHasher(key, new, b2, <<>>)
    <3>1. hasher = AHasher(key, new, b, <<>>)
      BY <2>2 DEF ResetAt
    <3>2. new.flags = flags /\ new.simd_degree = degree
      BY DEF Hasher!NewChunkState
    <3> HIDE DEF new
    <3>3. hasher' = AHasher(key, Hasher!NewChunkState(key, 0, flags, degree), b, <<>>)
      BY <3>1, <3>2, ResetGives
    <3> QED
      BY <3>3 DEF new
  <2> QED
    BY <2>1, <2>2 DEF InvFor
<1>6. PICK b \in Nat : hasher' = AHasher(key, new, b, <<>>)
  BY <1>5
<1>7. \/ HasherAt(key, flags, degree, u, 0, 0, hasher') /\ Room(0, 0)
      \/ b # 0 /\ hasher' = ResetAt(key, flags, degree, b)
  <2>1. CASE b = 0
    <3> DEFINE z == 0
    <3>1. z \in Nat
      OBVIOUS
    <3> HIDE DEF u, z
    <3>2. HasherAt(key, flags, degree, u, z, 0,
                   AHasher(key, Hasher!NewChunkState(key, z, flags, degree), z, <<>>))
      BY <1>1, <3>1, NewIs
    <3>3. Room(z, 0)
      BY <3>1, SomeRoom
    <3>4. hasher' = AHasher(key, Hasher!NewChunkState(key, 0, flags, degree), 0, <<>>)
      BY <1>6, <2>1 DEF new
    <3> QED
      BY <3>2, <3>3, <3>4 DEF z
  <2>2. CASE b # 0
    BY <1>6, <2>2 DEF ResetAt
  <2> QED
    BY <2>1, <2>2
<1> HIDE DEF new
<1>8. reference' = RefAt(key, flags, u, IF origin' = 0 THEN fed' ELSE 0)
  BY <1>2, <1>4
<1>9. \/ HasherAt(key, flags, degree, u, origin', fed', hasher') /\ Room(origin', fed')
      \/ /\ origin' = 0 /\ fed' = 0
         /\ \E b2 \in Nat \ {0} : hasher' = ResetAt(key, flags, degree, b2)
  BY <1>2, <1>7
<1> QED
  BY <1>2, <1>3, <1>8, <1>9 DEF InvFor

\* set_input_offset
LEMMA InvOffset ==
  ASSUME Hasher!SizesAssumption, Hasher!RoomAssumption, NEW key, NEW flags, NEW degree,
         InvFor(key, flags, degree), NEW offset \in Offsets, Hasher!SetInputOffset(offset)
  PROVE  InvFor(key, flags, degree)'
<1> DEFINE u == Numbers
           new(c) == Hasher!NewChunkState(key, c, flags, degree)
<1>1. u \in Units
  BY NumbersAre
<1>2. CASE Hasher!Count(hasher) # 0 \/ offset % CHUNK_LEN # 0
  <2>1. UNCHANGED <<hasher, origin, fed, reference>>
    BY <1>2 DEF Hasher!SetInputOffset
  <2> QED
    BY <2>1 DEF InvFor
<1>3. CASE ~(Hasher!Count(hasher) # 0 \/ offset % CHUNK_LEN # 0)
  <2>1. Hasher!Count(hasher) = 0
    BY <1>3
  <2>2. /\ origin' = offset \div CHUNK_LEN
        /\ hasher' = [hasher EXCEPT !.chunk_state.chunk_counter = origin',
                                    !.initial_chunk_counter = origin']
        /\ fed' = fed /\ reference' = reference
    BY <1>3 DEF Hasher!SetInputOffset
  <2>3. origin' \in Nat
    <3>1. offset \in Nat /\ CHUNK_LEN \in Nat \ {0}
      BY SizesAre DEF Hasher!RoomAssumption
    <3> QED
      BY <2>2, <3>1
  <2>4. ~\E b \in Nat \ {0} : hasher = ResetAt(key, flags, degree, b)
    BY <2>1, ResetHas
  <2>5. HasherAt(key, flags, degree, u, origin, fed, hasher) /\ origin \in Nat /\ fed \in Nat
        /\ Fits(degree) /\ fed <= MaxInput
        /\ reference = RefAt(key, flags, u, IF origin = 0 THEN fed ELSE 0)
    BY <2>4 DEF InvFor
  <2> HIDE DEF u
  <2>6. fed = 0
    <3>1. HasherIs(key, flags, degree, origin, fed, hasher)
      BY <1>1, <2>5, HasherHas
    <3> QED
      BY <2>1, <3>1 DEF HasherIs
  <2>7. hasher = AHasher(key, new(origin), origin, <<>>)
    BY <1>1, <2>5, <2>6, NothingIs
  <2> DEFINE o == origin'
  <2>8. o \in Nat /\ origin' = o
    BY <2>3
  <2>9. hasher' = [hasher EXCEPT !.chunk_state.chunk_counter = o, !.initial_chunk_counter = o]
    BY <2>2
  <2> HIDE DEF o
  <2>10. hasher' = AHasher(key, new(o), o, <<>>)
    <3>1. [new(origin) EXCEPT !.chunk_counter = o] = new(o)
      BY DEF Hasher!NewChunkState
    <3> DEFINE s == new(origin)
               s2 == new(o)
    <3>2. hasher = AHasher(key, s, origin, <<>>) /\ [s EXCEPT !.chunk_counter = o] = s2
      BY <2>7, <3>1
    <3> HIDE DEF s, s2
    <3>3. hasher' = AHasher(key, s2, o, <<>>)
      BY <2>9, <3>2, Zenon DEF AHasher
    <3> QED
      BY <3>3 DEF s2
  <2>11. HasherAt(key, flags, degree, u, o, 0, hasher') /\ Room(o, 0)
    BY <1>1, <2>8, <2>10, NewIs, SomeRoom
  <2>12. reference' = RefAt(key, flags, u, IF origin' = 0 THEN fed' ELSE 0)
    BY <2>2, <2>5, <2>6
  <2>13. HasherAt(key, flags, degree, u, origin', fed', hasher') /\ Room(origin', fed')
    BY <2>2, <2>6, <2>8, <2>11
  <2> QED
    BY <2>2, <2>3, <2>5, <2>12, <2>13 DEF InvFor, u
<1> QED
  BY <1>2, <1>3

\* No more values wait on the stack than the number of chunks has binary digits, but one.
LEMMA StackRoom ==
  ASSUME NEW key, NEW flags, NEW degree, NEW u \in Units, NEW b \in Nat, Hasher!SizesAssumption,
         NEW n \in Nat, n <= CHUNK_LEN * 2 ^ MAX_DEPTH,
         NEW g, HasherAt(key, flags, degree, u, b, n, g)
  PROVE  Len(g.cv_stack) <= MAX_DEPTH + 1
<1> DEFINE top == 2 ^ MAX_DEPTH
<1>1. CHUNK_LEN \in Nat \ {0} /\ CHUNK_LEN \in Nat /\ MAX_DEPTH \in Nat /\ top \in Nat
  <2>1. CHUNK_LEN \in Nat \ {0} /\ CHUNK_LEN \in Nat /\ MAX_DEPTH \in Nat
    BY SizesAre
  <2> QED
    BY <2>1, TallIs
<1>2. \A t \in Nat : t < top => Hasher!CountOnes[t] \in 0 .. MAX_DEPTH
  BY <1>1, OnesFit
<1>3. n <= CHUNK_LEN * top
  OBVIOUS
<1> HIDE DEF top
<1>4. CASE n = 0 /\ g = AtChunk(key, flags, degree, u, b, 0, 0, <<>>)
  <2>1. g.cv_stack = <<>>
    BY <1>4 DEF AtChunk, AHasher
  <2> QED
    BY <1>1, <2>1, EmptyIs
<1>5. ASSUME NEW t \in Nat, NEW k \in 1 .. CHUNK_LEN, n = t * CHUNK_LEN + k,
             g = AtChunk(key, flags, degree, u, b, t, k, StackOf(key, flags, u, b, t))
      PROVE  Len(g.cv_stack) <= MAX_DEPTH + 1
  <2>1. g.cv_stack = StackOf(key, flags, u, b, t)
    BY <1>5 DEF AtChunk, AHasher
  <2>2. t < top
    <3>1. SUFFICES ASSUME t >= top PROVE FALSE
      BY <1>1
    <3>2. t * CHUNK_LEN >= top * CHUNK_LEN
      BY <1>1, <3>1
    <3> DEFINE p == t * CHUNK_LEN
               q == top * CHUNK_LEN
    <3>3. p \in Nat /\ q \in Nat /\ p >= q /\ n = p + k /\ n <= q
      BY <1>1, <1>3, <1>5, <3>2
    <3> HIDE DEF p, q
    <3> QED
      BY <3>3
  <2>3. Len(g.cv_stack) = Hasher!CountOnes[t]
    <3>1. Len(StackOf(key, flags, u, b, t)) = Hasher!CountOnes[t]
      BY StackOfIs, Zenon
    <3> QED
      BY <2>1, <3>1
  <2>4. Hasher!CountOnes[t] \in 0 .. MAX_DEPTH
    BY <1>2, <2>2
  <2> QED
    BY <1>1, <2>3, <2>4
<1>6. ASSUME NEW t \in Nat, n = t * CHUNK_LEN, PairAt(key, flags, degree, u, b, t, g)
      PROVE  Len(g.cv_stack) <= MAX_DEPTH + 1
  <2>1. PICK h, m \in Nat :
          /\ t = (m + 1) * 2 ^ h
          /\ g = AtChunk(key, flags, degree, u, b, t, 0, LooseStack(key, flags, u, b, h, m))
    BY <1>6 DEF PairAt
  <2>2. g.cv_stack = LooseStack(key, flags, u, b, h, m)
    BY <2>1 DEF AtChunk, AHasher
  <2>3. PICK low, last : LooseIs(key, flags, u, b, h, m, low, last)
    BY LooseStackIs, Zenon
  <2>4. Len(g.cv_stack) = Hasher!CountOnes[m] + 1
    <3>1. /\ low \in Seq(Vals(key, flags)) /\ last \in Vals(key, flags)
          /\ g.cv_stack = Append(low, last) /\ Len(low) = Hasher!CountOnes[m]
      BY <2>2, <2>3 DEF LooseIs
    <3> QED
      BY <3>1
  <2>5. t <= top
    <3>1. SUFFICES ASSUME t >= top + 1 PROVE FALSE
      BY <1>1
    <3>2. t * CHUNK_LEN >= (top + 1) * CHUNK_LEN
      BY <1>1, <3>1
    <3> DEFINE p == t * CHUNK_LEN
               q == top * CHUNK_LEN
    <3>3. p \in Nat /\ q \in Nat /\ p >= q + CHUNK_LEN /\ p <= q
      BY <1>1, <1>3, <1>6, <3>2
    <3> HIDE DEF p, q
    <3> QED
      BY <1>1, <3>3
  <2>6. m < top
    <3> DEFINE x == 2 ^ h
    <3>1. x \in Nat \ {0}
      BY TallIs, Zenon
    <3>2. t = (m + 1) * x
      BY <2>1
    <3> HIDE DEF x
    <3>3. (m + 1) * x >= m + 1
      BY <3>1
    <3> QED
      BY <1>1, <2>5, <3>2, <3>3
  <2>7. Hasher!CountOnes[m] \in 0 .. MAX_DEPTH
    BY <1>2, <2>6
  <2> QED
    BY <1>1, <2>4, <2>7
<1> QED
  BY <1>4, <1>5, <1>6 DEF HasherAt

-----------------------------------------------------------------------------

\* What the invariant says where the hasher started at chunk 0
LEMMA InvAtZero ==
  ASSUME NEW key, NEW flags, NEW degree, InvFor(key, flags, degree), Hasher!SizesAssumption,
         Hasher!AtOrigin, origin = 0
  PROVE  /\ HasherAt(key, flags, degree, Numbers, 0, fed, hasher)
         /\ reference = RefAt(key, flags, Numbers, fed)
         /\ HasherIs(key, flags, degree, 0, fed, hasher)
         /\ FinalIsRef(key, flags, degree, Numbers, fed, hasher)
<1> DEFINE u == Numbers
           z == 0
<1>1. fed \in Nat /\ Fits(degree) /\ reference = RefAt(key, flags, u, fed) /\ u \in Units
      /\ z \in Nat
  BY NumbersAre DEF InvFor
<1>2. HasherAt(key, flags, degree, u, z, fed, hasher)
  <2>1. ~\E b \in Nat \ {0} : hasher = ResetAt(key, flags, degree, b)
    BY ResetHas DEF Hasher!AtOrigin
  <2> QED
    BY <2>1 DEF InvFor
<1>3. FinalIsRef(key, flags, degree, u, fed, hasher)
  <2> HIDE DEF u
  <2> QED
    BY <1>1, <1>2, FinalAlike
<1> HIDE DEF u, z
<1>4. HasherIs(key, flags, degree, z, fed, hasher)
  BY <1>1, <1>2, HasherHas
<1> QED
  BY <1>1, <1>2, <1>3, <1>4 DEF u, z

(***************************************************************************)
(* Parts of the input hashed apart (hazmat).                               *)
(***************************************************************************)

\* What PartCv has for the parts of len units, from what it has for the left
\* and the right part
PartTurn(from, to, len, lefts, rights) ==
  [at \in from .. to - len |->
     IF at = origin * CHUNK_LEN /\ at + len = Hasher!Position THEN Hasher!FinalizeNonRoot(hasher)
     ELSE IF len <= CHUNK_LEN
     THEN Hasher!FinalizeNonRoot(
            Hasher!UpdateWithJoin(Hasher!StartedAt(at), Hasher!Span(at, at + len)))
     ELSE Hasher!MergeSubtreesNonRoot(lefts[at], rights[at + Hasher!LeftSubtreeLen(len)],
                                      Hasher!Key, Hasher!Flags)]

\* The values for the parts of every length, the shorter ones first
PartOf(from, to, f) ==
  \A len \in 1 .. to - from :
    LET left == Hasher!LeftSubtreeLen(len)
    IN  f[len] = PartTurn(from, to, len, f[left], f[len - left])

\* The function that PartCv is defined by exists.
LEMMA PartCvIs ==
  ASSUME Hasher!SizesAssumption, NEW from \in Nat, NEW to \in Nat, from < to
  PROVE  \E f : PartOf(from, to, f) /\ Hasher!PartCv(from, to) = f[to - from][from]
<1> DEFINE n == to - from
           W(len, x, y) == PartTurn(from, to, len, x, y)
           left(len) == Hasher!LeftSubtreeLen(len)
           R(f, len) == W(len, f[left(len)], f[len - left(len)])
           F(f) == [len \in 1 .. n |-> R(f, len)]
           Upto(f, m) == \A len \in 1 .. m : f[len] = R(f, len)
           S == {m \in Nat : m <= n => \E f : Upto(f, m)}
           cv == CHOOSE f : f = F(f)
<1>0. CHUNK_LEN \in Nat \ {0} /\ n \in Nat \ {0}
  BY SizesAre
<1>1. ASSUME NEW f, NEW g, NEW len \in 1 .. n, \A i \in 1 .. len - 1 : f[i] = g[i]
      PROVE  R(f, len) = R(g, len)
  <2>1. CASE len <= CHUNK_LEN
    <3>1. \A x, y : W(len, x, y) = [at \in from .. to - len |->
             IF at = origin * CHUNK_LEN /\ at + len = Hasher!Position
             THEN Hasher!FinalizeNonRoot(hasher)
             ELSE Hasher!FinalizeNonRoot(
                    Hasher!UpdateWithJoin(Hasher!StartedAt(at), Hasher!Span(at, at + len)))]
      BY <2>1 DEF PartTurn
    <3> HIDE DEF W, left
    <3> QED
      BY <3>1
  <2>2. CASE ~(len <= CHUNK_LEN)
    <3>1. len \in Nat /\ len > CHUNK_LEN
      BY <1>0, <2>2
    <3>2. PICK j \in Nat : LeftIs(len, j)
      BY <3>1, LeftParts
    <3>3. left(len) \in 1 .. len - 1 /\ len - left(len) \in 1 .. len - 1
      BY <1>0, <3>1, <3>2 DEF LeftIs
    <3> HIDE DEF W, left
    <3>4. f[left(len)] = g[left(len)] /\ f[len - left(len)] = g[len - left(len)]
      BY <1>1, <3>3
    <3> QED
      BY <3>4
  <2> QED
    BY <2>1, <2>2
<1> HIDE DEF R
<1>2. 0 \in S
  BY <1>0
<1>3. ASSUME NEW m \in Nat, m \in S PROVE m + 1 \in S
  <2> SUFFICES ASSUME m + 1 <= n PROVE \E f : Upto(f, m + 1)
    OBVIOUS
  <2> HIDE DEF n
  <2>1. PICK f : Upto(f, m)
    <3>1. m <= n
      BY <1>0
    <3> HIDE DEF Upto
    <3> QED
      BY <1>3, <3>1
  <2> DEFINE g == [len \in 1 .. m + 1 |-> IF len <= m THEN f[len] ELSE R(f, m + 1)]
  <2>2. \A i \in 1 .. m : g[i] = f[i]
    OBVIOUS
  <2>3. g[m + 1] = R(f, m + 1)
    OBVIOUS
  <2> HIDE DEF g
  <2>4. ASSUME NEW len \in 1 .. m + 1 PROVE g[len] = R(g, len)
    <3>1. len \in 1 .. n /\ \A i \in 1 .. len - 1 : f[i] = g[i]
      BY <1>0, <2>2
    <3>2. R(f, len) = R(g, len)
      BY <1>1, <3>1
    <3>3. CASE len <= m
      <4>1. len \in 1 .. m
        BY <3>3
      <4> QED
        BY <2>1, <2>2, <3>2, <4>1
    <3>4. CASE ~(len <= m)
      <4>1. len = m + 1
        BY <3>4
      <4> QED
        BY <2>3, <3>2, <4>1
    <3> QED
      BY <3>3, <3>4
  <2>5. Upto(g, m + 1)
    BY <2>4
  <2> QED
    BY <2>5
<1>4. \A m \in Nat : m \in S
  <2> HIDE DEF S
  <2> QED
    BY <1>2, <1>3, Induction
<1>5. PICK f : Upto(f, n)
  <2>1. n \in S
    <3> HIDE DEF S, n
    <3> QED
      BY <1>0, <1>4
  <2> HIDE DEF Upto
  <2> QED
    BY <1>0, <2>1
<1> DEFINE g == [len \in 1 .. n |-> f[len]]
<1>6. g = F(g)
  <2>1. ASSUME NEW len \in 1 .. n PROVE f[len] = R(g, len)
    <3>1. \A i \in 1 .. len - 1 : f[i] = g[i]
      <4>1. \A i \in 1 .. len - 1 : i \in 1 .. n
        BY <1>0
      <4> HIDE DEF n
      <4> QED
        BY <4>1
    <3> HIDE DEF g
    <3>2. R(f, len) = R(g, len)
      BY <1>1, <3>1
    <3> QED
      BY <1>5, <3>2
  <2> DEFINE h == g
  <2>2. \A len \in 1 .. n : f[len] = R(h, len)
    BY <2>1
  <2> HIDE DEF h
  <2>3. g = F(h)
    BY <2>2
  <2> QED
    BY <2>3 DEF h
<1>7. cv = F(cv)
  <2> HIDE DEF F, g
  <2> QED
    BY <1>6
<1>8. Hasher!PartCv(from, to) = cv[n][from]
  BY DEF Hasher!PartCv, cv, R, PartTurn
<1> HIDE DEF cv
<1>9. \A len \in 1 .. n : cv[len] = R(cv, len)
  <2>1. \A len \in 1 .. n : cv[len] = F(cv)[len]
    BY <1>7
  <2> QED
    BY <2>1
<1>10. PartOf(from, to, cv)
  BY <1>9 DEF PartOf, R
<1> QED
  BY <1>8, <1>10

\* finalize_non_root gives the value of the part that the Hasher was given.
NonRootIs(key, flags, u, b, n, g) == Hasher!FinalizeNonRoot(g) = Subtree(key, flags, u, b, n)

\* Of any Hasher that was given something
LEMMA NonRoot ==
  ASSUME NEW key, NEW flags, NEW degree, NEW u \in Units, NEW b \in Nat, Hasher!SizesAssumption,
         NEW n \in Nat, n # 0, NEW g, HasherAt(key, flags, degree, u, b, n, g)
  PROVE  NonRootIs(key, flags, u, b, n, g)
<1>1. Hasher!Count(g) # 0
  <2>1. HasherIs(key, flags, degree, b, n, g)
    BY HasherHas
  <2> QED
    BY <2>1 DEF HasherIs
<1>2. OutputIs(key, flags, u, b, n, g)
  BY OutputAt
<1>3. Hasher!ChainingValue(Hasher!FinalOutput(g)) = Subtree(key, flags, u, b, n)
  BY <1>2, NodeIs DEF OutputIs
<1>4. Hasher!FinalizeNonRoot(g) = Subtree(key, flags, u, b, n)
  BY <1>1, <1>3 DEF Hasher!FinalizeNonRoot, Hasher!Asserting
<1> QED
  BY <1>4 DEF NonRootIs

\* A Hasher for a part that starts at chunk c
LEMMA StartedIs ==
  ASSUME NEW key, NEW flags, NEW degree, NEW b \in Nat, NEW n, Hasher!SizesAssumption,
         HasherIs(key, flags, degree, b, n, hasher), NEW c \in Nat
  PROVE  Hasher!StartedAt(c * CHUNK_LEN)
           = AHasher(key, Hasher!NewChunkState(key, c, flags, degree), c, <<>>)
<1> DEFINE at == c * CHUNK_LEN
           s == Hasher!NewChunkState(key, 0, flags, degree)
           s2 == Hasher!NewChunkState(key, c, flags, degree)
<1>1. CHUNK_LEN \in Nat \ {0}
  BY SizesAre
<1>2. at \div CHUNK_LEN = c
  <2>1. (c * CHUNK_LEN + 0) \div CHUNK_LEN = c
    <3>1. 0 \in 0 .. CHUNK_LEN - 1
      BY <1>1
    <3> QED
      BY <1>1, <3>1, DivideOnly
  <2>2. c * CHUNK_LEN + 0 = c * CHUNK_LEN
    BY <1>1
  <2> QED
    BY <2>1, <2>2
<1>3. Hasher!Key = key /\ Hasher!Flags = flags /\ Hasher!Degree = degree
  BY DEF HasherIs, Hasher!Key, Hasher!Flags, Hasher!Degree
<1>4. Hasher!NewInternal(key, flags, degree) = AHasher(key, s, 0, <<>>)
  BY DEF Hasher!NewInternal, AHasher
<1> HIDE DEF at
<1>5. Hasher!StartedAt(at)
        = [AHasher(key, s, 0, <<>>) EXCEPT !.chunk_state.chunk_counter = c,
                                           !.initial_chunk_counter = c]
  <2> HIDE DEF s
  <2> QED
    BY <1>2, <1>3, <1>4 DEF Hasher!StartedAt
<1>6. [s EXCEPT !.chunk_counter = c] = s2
  BY DEF Hasher!NewChunkState
<1> HIDE DEF s, s2
<1>7. [AHasher(key, s, 0, <<>>) EXCEPT !.chunk_state.chunk_counter = c,
                                       !.initial_chunk_counter = c]
        = AHasher(key, s2, c, <<>>)
  <2>1. ASSUME NEW h, h = AHasher(key, s, 0, <<>>),
               NEW g, g = [h EXCEPT !.chunk_state.chunk_counter = c, !.initial_chunk_counter = c]
        PROVE  g = AHasher(key, s2, c, <<>>)
    BY <1>6, <2>1 DEF AHasher
  <2> DEFINE h == AHasher(key, s, 0, <<>>)
             g == [h EXCEPT !.chunk_state.chunk_counter = c, !.initial_chunk_counter = c]
  <2>2. h = AHasher(key, s, 0, <<>>)
        /\ g = [h EXCEPT !.chunk_state.chunk_counter = c, !.initial_chunk_counter = c]
    OBVIOUS
  <2> HIDE DEF h, g
  <2>3. g = AHasher(key, s2, c, <<>>)
    BY <2>1, <2>2
  <2> QED
    BY <2>3 DEF g, h
<1> QED
  BY <1>5, <1>7 DEF at, s2

\* A part that is one chunk at most
OnePartIs(key, flags, degree, u, c, n) ==
  Hasher!FinalizeNonRoot(
    Hasher!UpdateWithJoin(AHasher(key, Hasher!NewChunkState(key, c, flags, degree), c, <<>>),
                          Cut(u, c * CHUNK_LEN, n)))
    = Subtree(key, flags, u, c, n)

\* It is hashed by a Hasher of its own.
LEMMA OnePart ==
  ASSUME NEW key, NEW flags, NEW degree, NEW u \in Units, NEW c \in Nat, Hasher!SizesAssumption,
         Fits(degree), NEW n \in 1 .. CHUNK_LEN
  PROVE  OnePartIs(key, flags, degree, u, c, n)
<1> DEFINE z == 0
           new == AHasher(key, Hasher!NewChunkState(key, c, flags, degree), c, <<>>)
           g == Hasher!UpdateWithJoin(new, Cut(u, c * CHUNK_LEN, n))
<1>1. CHUNK_LEN \in Nat /\ n \in Nat /\ n # 0 /\ n <= CHUNK_LEN
  BY SizesAre
<1>2. HasherAt(key, flags, degree, u, c, 0, new)
  BY NewIs
<1>3. Room(c, n)
  <2>1. SUFFICES ASSUME c # 0 PROVE n <= Hasher!LowestOne[c] * CHUNK_LEN
    BY DEF Room
  <2>2. PICK e, q \in Nat : Hasher!LowestOne[c] = 2 ^ e
    BY <2>1, LowestDivides DEF Lowest
  <2>3. 2 ^ e \in Nat \ {0}
    BY TallIs
  <2> DEFINE x == 2 ^ e
  <2> HIDE DEF x
  <2>4. x \in Nat \ {0} /\ Hasher!LowestOne[c] = x
    BY <2>2, <2>3 DEF x
  <2>5. n <= x * CHUNK_LEN
    <3>1. 1 * CHUNK_LEN <= x * CHUNK_LEN
      BY <1>1, <2>4
    <3> DEFINE y == x * CHUNK_LEN
    <3>2. y \in Nat /\ CHUNK_LEN <= y
      BY <1>1, <2>4, <3>1
    <3> HIDE DEF y
    <3>3. n <= y
      BY <1>1, <3>2
    <3> QED
      BY <3>3 DEF y
  <2> QED
    BY <2>4, <2>5
<1>4. 0 + n = n /\ c * CHUNK_LEN + 0 = c * CHUNK_LEN /\ z \in Nat /\ z = 0
  BY <1>1
<1> HIDE DEF new, z
<1>5. UpdatedIs(key, flags, degree, u, c, z, n, new)
  <2>1. z + n = n /\ HasherAt(key, flags, degree, u, c, z, new)
    BY <1>2, <1>4
  <2> QED
    BY <1>1, <1>3, <1>4, <2>1, Updated
<1>6. HasherAt(key, flags, degree, u, c, n, g)
  BY <1>4, <1>5 DEF UpdatedIs
<1> HIDE DEF g
<1>7. NonRootIs(key, flags, u, c, n, g)
  BY <1>1, <1>6, NonRoot
<1> QED
  BY <1>7 DEF NonRootIs, OnePartIs, g, new

\* A part, put together by the rules of hazmat, has the value of the tree over it.
PartValue(key, flags, u, c, n) ==
  Hasher!PartCv(c * CHUNK_LEN, c * CHUNK_LEN + n) = Subtree(key, flags, u, c, n)

\* By induction on the length, split as left_subtree_len does
LEMMA PartsAre ==
  ASSUME NEW key, NEW flags, NEW degree, Hasher!SizesAssumption, Fits(degree),
         origin \in Nat, fed \in Nat, fed # 0,
         HasherAt(key, flags, degree, Numbers, origin, fed, hasher),
         NEW first \in Nat, NEW size \in Nat, size # 0
  PROVE  PartValue(key, flags, Numbers, first, size)
<1> DEFINE u == Numbers
           from == first * CHUNK_LEN
           to == from + size
           n == to - from
<1>1. CHUNK_LEN \in Nat \ {0} /\ CHUNK_LEN \in Nat /\ from \in Nat /\ to \in Nat /\ from < to
      /\ n = size
  BY SizesAre
<1>2. u \in Units /\ \A a, k \in Nat : Hasher!Span(a, a + k) = Cut(u, a, k)
  BY NumbersAre
<1> HIDE DEF u
<1>3. HasherIs(key, flags, degree, origin, fed, hasher)
  BY <1>2, HasherHas DEF u
<1>4. Hasher!FinalizeNonRoot(hasher) = Subtree(key, flags, u, origin, fed)
  <2>1. NonRootIs(key, flags, u, origin, fed, hasher)
    BY <1>2, NonRoot DEF u
  <2> QED
    BY <2>1 DEF NonRootIs
<1>5. Hasher!Key = key /\ Hasher!Flags = flags
  BY <1>3 DEF HasherIs, Hasher!Key, Hasher!Flags
<1>6. PICK f : PartOf(from, to, f) /\ Hasher!PartCv(from, to) = f[to - from][from]
  <2> HIDE DEF from, to
  <2> QED
    BY <1>1, PartCvIs
<1> DEFINE Good(len) == \A c \in Nat : from <= c * CHUNK_LEN /\ c * CHUNK_LEN + len <= to
                                       => f[len][c * CHUNK_LEN] = Subtree(key, flags, u, c, len)
           S == {m \in Nat : \A len \in 1 .. m : len <= n => Good(len)}
<1>7. 0 \in S
  OBVIOUS
<1>8. ASSUME NEW m \in Nat, \A len \in 1 .. m : len <= n => Good(len), m + 1 <= n
      PROVE  Good(m + 1)
  <2> DEFINE len == m + 1
             left == Hasher!LeftSubtreeLen(len)
  <2> SUFFICES ASSUME NEW c \in Nat, from <= c * CHUNK_LEN, c * CHUNK_LEN + len <= to
               PROVE  f[len][c * CHUNK_LEN] = Subtree(key, flags, u, c, len)
    OBVIOUS
  <2> DEFINE at == c * CHUNK_LEN
  <2>1. at \in Nat /\ len \in Nat \ {0} /\ len \in 1 .. to - from /\ at \in from .. to - len
    <3>1. at \in Nat /\ from <= at /\ at + len <= to
      BY <1>1
    <3> HIDE DEF at, from, to
    <3> QED
      BY <1>1, <1>8, <3>1 DEF n
  <2> DEFINE lefts == f[left]
             rights == f[len - left]
  <2>2. f[len][at] = PartTurn(from, to, len, lefts, rights)[at]
    <3> HIDE DEF len, at, from, to
    <3> QED
      BY <1>6, <2>1 DEF PartOf
  <2>3. f[len][at] =
          IF at = origin * CHUNK_LEN /\ at + len = Hasher!Position
          THEN Hasher!FinalizeNonRoot(hasher)
          ELSE IF len <= CHUNK_LEN
          THEN Hasher!FinalizeNonRoot(
                 Hasher!UpdateWithJoin(Hasher!StartedAt(at), Hasher!Span(at, at + len)))
          ELSE Hasher!MergeSubtreesNonRoot(lefts[at], rights[at + left], key, flags)
    <3> HIDE DEF len, at, from, to, lefts, rights
    <3> QED
      BY <1>5, <2>1, <2>2 DEF PartTurn
  <2>4. CASE at = origin * CHUNK_LEN /\ at + len = Hasher!Position
    <3>1. c = origin
      BY <1>1, <2>4, Cancels
    <3>2. len = fed
      <4>1. at + len = at + fed
        BY <2>4 DEF Hasher!Position
      <4> HIDE DEF at, len
      <4> QED
        BY <2>1, <4>1
    <3> HIDE DEF at, len, left, lefts, rights
    <3> QED
      BY <1>4, <2>3, <2>4, <3>1, <3>2 DEF at, len
  <2>5. CASE ~(at = origin * CHUNK_LEN /\ at + len = Hasher!Position) /\ len <= CHUNK_LEN
    <3>1. Hasher!StartedAt(at)
            = AHasher(key, Hasher!NewChunkState(key, c, flags, degree), c, <<>>)
      BY <1>3, StartedIs
    <3>2. Hasher!Span(at, at + len) = Cut(u, at, len)
      <4> HIDE DEF at, len
      <4> QED
        BY <1>2, <2>1
    <3>3. OnePartIs(key, flags, degree, u, c, len)
      <4>1. len \in 1 .. CHUNK_LEN
        BY <1>1, <2>5
      <4> HIDE DEF len
      <4> QED
        BY <1>2, <4>1, OnePart
    <3>4. f[len][at] = Hasher!FinalizeNonRoot(
                 Hasher!UpdateWithJoin(Hasher!StartedAt(at), Hasher!Span(at, at + len)))
      <4> HIDE DEF at, len, left, lefts, rights
      <4> QED
        BY <2>3, <2>5
    <3>5. f[len][at] = Subtree(key, flags, u, c, len)
      <4> HIDE DEF len
      <4> QED
        BY <3>1, <3>2, <3>3, <3>4 DEF OnePartIs
    <3> QED
      BY <3>5
  <2>6. CASE ~(at = origin * CHUNK_LEN /\ at + len = Hasher!Position) /\ ~(len <= CHUNK_LEN)
    <3>1. len \in Nat /\ len > CHUNK_LEN
      BY <1>1, <2>6
    <3> HIDE DEF len
    <3>2. PICK j \in Nat : LeftIs(len, j)
      BY <3>1, LeftParts
    <3> DEFINE rest == len - left
    <3>3. left = Tall(j) /\ left \in Nat /\ left >= CHUNK_LEN /\ left < len /\ len <= 2 * left
          /\ rest \in 1 .. left /\ rest \in Nat
      BY <1>1, <3>1, <3>2 DEF LeftIs
    <3> DEFINE right == c + 2 ^ j
    <3>4. right \in Nat /\ right * CHUNK_LEN = at + left
      <4>1. 2 ^ j \in Nat /\ Tall(j) = CHUNK_LEN * 2 ^ j
        BY TallIs
      <4> DEFINE x == 2 ^ j
      <4>2. x \in Nat /\ left = CHUNK_LEN * x
        BY <3>3, <4>1
      <4> HIDE DEF x
      <4>3. c + x \in Nat /\ (c + x) * CHUNK_LEN = c * CHUNK_LEN + CHUNK_LEN * x
        BY <1>1, <4>2
      <4> QED
        BY <4>2, <4>3 DEF x
    <3>5. lefts[at] = Subtree(key, flags, u, c, left)
      <4>1. left \in 1 .. m /\ left <= n
        BY <1>1, <1>8, <3>3 DEF len
      <4>2. from <= c * CHUNK_LEN /\ c * CHUNK_LEN + left <= to
        <5>1. at + left <= to
          <6> HIDE DEF at, to, from, left
          <6> QED
            BY <1>1, <2>1, <3>1, <3>3
        <5> QED
          BY <5>1
      <4> HIDE DEF left, from, to, n
      <4> QED
        BY <1>8, <4>1, <4>2
    <3>6. rights[at + left] = Subtree(key, flags, u, right, rest)
      <4>1. rest \in 1 .. m /\ rest <= n
        BY <1>1, <1>8, <3>1, <3>3 DEF len
      <4>2. from <= right * CHUNK_LEN /\ right * CHUNK_LEN + rest <= to
        <5>1. from <= at + left /\ (at + left) + rest <= to
          <6> HIDE DEF at, to, from, left
          <6> QED
            BY <1>1, <2>1, <3>1, <3>3
        <5> HIDE DEF left, right, rest
        <5> QED
          BY <3>4, <5>1
      <4> HIDE DEF left, from, to, n, right, rest
      <4>3. f[rest][right * CHUNK_LEN] = Subtree(key, flags, u, right, rest)
        BY <1>8, <3>4, <4>1, <4>2
      <4> QED
        BY <3>4, <4>3 DEF rest
    <3>7. SubtreeParent(key, flags, u, c, j, rest)
      <4> HIDE DEF left, rest
      <4> QED
        BY <1>2, <3>3, SubtreeSplits
    <3> DEFINE a == Subtree(key, flags, u, c, left)
               d == Subtree(key, flags, u, right, rest)
    <3>8. a \in Vals(key, flags) /\ d \in Vals(key, flags)
      <4> HIDE DEF left, right, rest
      <4> QED
        BY <1>2, <3>3, <3>4, SubtreeValue
    <3>9. Subtree(key, flags, u, c, len) = Merge(key, flags)[a][d]
      <4>1. Tall(j) + rest = len
        <5> HIDE DEF left
        <5> QED
          BY <3>1, <3>3
      <4>2. Subtree(key, flags, u, c, Tall(j) + rest)
              = Merge(key, flags)[Subtree(key, flags, u, c, Tall(j))][Subtree(key, flags, u, c + 2 ^ j, rest)]
        BY <3>7 DEF SubtreeParent
      <4> HIDE DEF left, rest
      <4> QED
        BY <3>3, <4>1, <4>2
    <3>10. f[len][at] = Hasher!MergeSubtreesNonRoot(a, d, key, flags)
      <4> HIDE DEF a, d, at, left, rest, lefts, rights
      <4> QED
        BY <2>3, <2>6, <3>5, <3>6 DEF a, d
    <3> HIDE DEF a, d
    <3>11. Hasher!MergeSubtreesNonRoot(a, d, key, flags) = Merge(key, flags)[a][d]
      BY <3>8, ParentNode DEF Hasher!MergeSubtreesNonRoot
    <3> QED
      BY <3>9, <3>10, <3>11 DEF len
  <2> QED
    BY <2>4, <2>5, <2>6
<1>9. ASSUME NEW m \in Nat, m \in S PROVE m + 1 \in S
  <2>1. ASSUME NEW len \in 1 .. m + 1, len <= n PROVE Good(len)
    <3>1. CASE len \in 1 .. m
      <4> HIDE DEF Good, n
      <4> QED
        BY <1>9, <2>1, <3>1
    <3>2. CASE len = m + 1
      <4> HIDE DEF Good, n
      <4> QED
        BY <1>8, <1>9, <2>1, <3>2
    <3>3. len \in 1 .. m \/ len = m + 1
      OBVIOUS
    <3> QED
      BY <3>1, <3>2, <3>3
  <2> HIDE DEF Good, n
  <2> QED
    BY <2>1
<1>10. \A m \in Nat : m \in S
  <2> HIDE DEF S
  <2> QED
    BY <1>7, <1>9, Induction
<1>11. Good(n)
  <2>1. n \in S /\ n \in 1 .. n
    BY <1>1, <1>10
  <2> HIDE DEF Good, n
  <2> QED
    BY <2>1
<1>12. f[n][first * CHUNK_LEN] = Subtree(key, flags, u, first, n)
  <2>1. from <= first * CHUNK_LEN /\ first * CHUNK_LEN + n <= to
    BY <1>1
  <2> HIDE DEF from, to, n
  <2> QED
    BY <1>11, <2>1
<1>13. Hasher!PartCv(from, to) = Subtree(key, flags, u, first, size)
  BY <1>1, <1>6, <1>12
<1> QED
  BY <1>13 DEF PartValue, u

\* The greatest power of two that divides a power of two is that power.
LEMMA LowestOfPower ==
  ASSUME NEW j \in Nat
  PROVE  Hasher!LowestOne[2 ^ j] = 2 ^ j
<1> DEFINE S == {i \in Nat : Hasher!LowestOne[2 ^ i] = 2 ^ i}
<1>1. 0 \in S
  <2> DEFINE z == 0
  <2>1. z \in Nat /\ 2 * z + 1 = 1 /\ 2 ^ z = 1
    OBVIOUS
  <2> HIDE DEF z
  <2>2. Hasher!LowestOne[2 * z + 1] = 1
    BY <2>1, LowestOneIs, Zenon
  <2>3. z \in S
    BY <2>1, <2>2
  <2> QED
    BY <2>3 DEF z
<1>2. ASSUME NEW i \in Nat, i \in S PROVE i + 1 \in S
  <2> DEFINE x == 2 ^ i
  <2>1. x \in Nat \ {0} /\ 2 ^ (i + 1) = 2 * x
    BY PowerDoubles
  <2>2. Hasher!LowestOne[x] = x
    BY <1>2
  <2> HIDE DEF x
  <2>3. Hasher!LowestOne[2 * x] = 2 * x
    BY <2>1, <2>2, LowestOneIs
  <2> QED
    BY <2>1, <2>3
<1>3. \A i \in Nat : i \in S
  <2> HIDE DEF S
  <2> QED
    BY <1>1, <1>2, Induction
<1> QED
  BY <1>3

\* Where left_subtree_len splits, a Hasher that starts there takes the right part at once.
LEMMA RightFits ==
  ASSUME NEW key, NEW flags, NEW degree, NEW j \in Nat, Hasher!SizesAssumption,
         NEW len \in Nat, len <= Tall(j)
  PROVE  ~Hasher!UpdatePanics(
            AHasher(key, Hasher!NewChunkState(key, 2 ^ j, flags, degree), 2 ^ j, <<>>), len)
<1> DEFINE c == 2 ^ j
           g == AHasher(key, Hasher!NewChunkState(key, c, flags, degree), c, <<>>)
           z == 0
<1>1. c \in Nat /\ Tall(j) = CHUNK_LEN * c /\ CHUNK_LEN \in Nat /\ Hasher!LowestOne[c] = c
  BY TallIs, SizesAre, LowestOfPower
<1> HIDE DEF c
<1>2. HasherIs(key, flags, degree, c, z, g)
  <2>1. HasherAt(key, flags, degree, Numbers, c, 0, g)
    BY <1>1, NumbersAre, NewIs
  <2>2. z \in Nat /\ HasherAt(key, flags, degree, Numbers, c, z, g)
    BY <2>1
  <2> HIDE DEF g, z
  <2> QED
    BY <1>1, <2>2, NumbersAre, HasherHas
<1> HIDE DEF g
<1>3. /\ g.initial_chunk_counter = c /\ Hasher!Count(g) = 0
      /\ g.chunk_state.chunk_counter \in Nat /\ g.chunk_state.chunk_counter >= c
  BY <1>2 DEF HasherIs
<1>4. Hasher!MaxSubtreeLen(c) = c * CHUNK_LEN
  BY <1>1 DEF Hasher!MaxSubtreeLen
<1> DEFINE x == c * CHUNK_LEN
<1>5. x \in Nat /\ len <= x
  <2>1. CHUNK_LEN * c = x /\ x \in Nat
    BY <1>1
  <2> HIDE DEF x
  <2> QED
    BY <1>1, <2>1
<1> HIDE DEF x
<1>6. ~(len > x - 0) /\ Hasher!MaxSubtreeLen(c) = x
  BY <1>4, <1>5 DEF x
<1>7. ~(g.chunk_state.chunk_counter < g.initial_chunk_counter)
  BY <1>1, <1>3
<1>8. ~Hasher!UpdatePanics(g, len)
  BY <1>3, <1>6, <1>7 DEF Hasher!UpdatePanics
<1> QED
  BY <1>8 DEF g, c

\* The parts of the whole, merged
MergesWhole(key, flags, degree, u, n, j) ==
  Hasher!MergeSubtreesRoot(Subtree(key, flags, u, 0, Tall(j)),
                           Subtree(key, flags, u, 2 ^ j, n - Tall(j)), key, flags)
    = Hasher!RootHash(Hasher!HashAllAtOnce(Cut(u, 0, n), key, flags, degree))

\* merge_subtrees_root gives the hash of the whole from the values of its two parts.
LEMMA WholeMerged ==
  ASSUME NEW key, NEW flags, NEW degree, NEW u \in Units, Hasher!SizesAssumption, Fits(degree),
         NEW n \in Nat, NEW j \in Nat, LeftIs(n, j)
  PROVE  MergesWhole(key, flags, degree, u, n, j)
<1> DEFINE left == Tall(j)
           rest == n - left
           z == 0
           c == 2 ^ j
           a == Subtree(key, flags, u, z, left)
           d == Subtree(key, flags, u, c, rest)
           v == Subtree(key, flags, u, z, n)
           o == Hasher!HashAllAtOnce(Cut(u, 0, n), key, flags, degree)
           p == Hasher!ParentNodeOutput(a, d, key, flags)
<1>1. left \in Nat /\ rest \in 1 .. left /\ rest \in Nat /\ left + rest = n
  <2>1. left \in Nat /\ left < n /\ n <= 2 * left
    BY DEF LeftIs
  <2> HIDE DEF left
  <2> QED
    BY <2>1
<1>2. z \in Nat /\ c \in Nat /\ z + c = c
  BY TallIs
<1>3. v = Merge(key, flags)[a][d]
  <2> HIDE DEF rest, z
  <2>1. SubtreeParent(key, flags, u, z, j, rest)
    BY <1>1, <1>2, SubtreeSplits
  <2>2. Subtree(key, flags, u, z, left + rest)
          = Merge(key, flags)[a][Subtree(key, flags, u, z + c, rest)]
    BY <2>1 DEF SubtreeParent
  <2> HIDE DEF left, c
  <2> QED
    BY <1>1, <1>2, <2>2
<1>4. a \in Vals(key, flags) /\ d \in Vals(key, flags)
  <2> HIDE DEF left, rest, z, c
  <2> QED
    BY <1>1, <1>2, SubtreeValue
<1>5. IsNode(o, v)
  <2>1. AtOnceIs(key, flags, degree, u, n)
    BY AllAtOnce
  <2> QED
    BY <2>1 DEF AtOnceIs
<1> HIDE DEF a, d, v
<1>6. IsNode(p, v)
  BY <1>3, <1>4, ParentNode
<1> HIDE DEF o, p
<1>7. o = p
  BY <1>5, <1>6, OneNode
<1>8. Hasher!MergeSubtreesRoot(a, d, key, flags) = Hasher!RootHash(o)
  BY <1>7 DEF Hasher!MergeSubtreesRoot, p
<1> QED
  BY <1>8 DEF MergesWhole, a, d, o

-----------------------------------------------------------------------------
(***************************************************************************)
(* What every behaviour of the hasher has.                                 *)
(***************************************************************************)
\* The inductive invariant: after any number of updates, resets and offsets (lib.rs:1066-1401,
\* hazmat.rs:225-252) the hasher is in a state that the place of its input determines.
THEOREM HasherIsTree == Hasher!Spec => []HasherInv
<1>1. Hasher!SizesAssumption /\ Hasher!RoomAssumption /\ Hasher!DegreesAssumption
  BY HasherAssumption
<1>2. Hasher!Init => HasherInv
  BY <1>1, InvInit
<1>3. HasherInv /\ [Hasher!Next]_Hasher!vars => HasherInv'
  <2> SUFFICES ASSUME HasherInv, Hasher!Next \/ UNCHANGED Hasher!vars
               PROVE  HasherInv'
    OBVIOUS
  <2>1. PICK key, flags, degree : InvFor(key, flags, degree)
    BY DEF HasherInv
  <2>2. InvFor(key, flags, degree)'
    <3>1. CASE UNCHANGED Hasher!vars
      BY <2>1, <3>1 DEF InvFor, Hasher!vars
    <3>2. CASE Hasher!Next
      <4>1. ASSUME NEW len \in Lengths, Hasher!Update(len) PROVE InvFor(key, flags, degree)'
        BY <1>1, <2>1, <4>1, InvUpdate
      <4>2. CASE Hasher!Reset
        BY <1>1, <2>1, <4>2, InvReset
      <4>3. ASSUME NEW offset \in Offsets, Hasher!SetInputOffset(offset)
            PROVE  InvFor(key, flags, degree)'
        BY <1>1, <2>1, <4>3, InvOffset
      <4> QED
        BY <3>2, <4>1, <4>2, <4>3 DEF Hasher!Next
    <3> QED
      BY <3>1, <3>2
  <2> QED
    BY <2>2 DEF HasherInv
<1> QED
  BY <1>2, <1>3, PTL DEF Hasher!Spec

\* The stack of chaining values fits into its ArrayVec of MAX_DEPTH + 1 places
\* (src/libs/blake3/src/lib.rs:1070-1075), whatever lengths the input is cut into, wherever it
\* starts and however often the hasher is reset.
THEOREM StackStaysLow == Hasher!Spec => []Hasher!StackFits
<1>1. Hasher!SizesAssumption /\ Hasher!RoomAssumption
  BY HasherAssumption
<1>2. HasherInv => Hasher!StackFits
  <2> SUFFICES ASSUME HasherInv PROVE Hasher!StackFits
    OBVIOUS
  <2>1. PICK key, flags, degree : InvFor(key, flags, degree)
    BY DEF HasherInv
  <2>2. MAX_DEPTH \in Nat /\ CHUNK_LEN \in Nat
    BY <1>1, SizesAre
  <2>3. CASE HasherAt(key, flags, degree, Numbers, origin, fed, hasher)
    <3> DEFINE room == CHUNK_LEN * 2 ^ MAX_DEPTH
    <3>1. origin \in Nat /\ fed \in Nat /\ fed <= MaxInput
      BY <2>1 DEF InvFor
    <3>2. room \in Nat
      <4> DEFINE top == 2 ^ MAX_DEPTH
      <4>1. top \in Nat
        BY <1>1, <2>2, TallIs
      <4> HIDE DEF top
      <4>2. CHUNK_LEN * top \in Nat
        BY <2>2, <4>1
      <4> QED
        BY <4>2 DEF top
    <3>3. MaxInput \in Nat /\ MaxInput <= room
      BY <1>1 DEF Hasher!RoomAssumption
    <3> HIDE DEF room
    <3>4. fed <= room
      BY <3>1, <3>2, <3>3
    <3>5. Len(hasher.cv_stack) <= MAX_DEPTH + 1
      BY <1>1, <2>3, <3>1, <3>4, NumbersAre, StackRoom DEF room
    <3> QED
      BY <3>5 DEF Hasher!StackFits
  <2>4. ASSUME NEW b \in Nat \ {0}, hasher = ResetAt(key, flags, degree, b)
        PROVE  Hasher!StackFits
    <3>1. hasher.cv_stack = <<>>
      BY <1>1, <2>4, ResetHas
    <3> QED
      BY <2>2, <3>1, EmptyIs DEF Hasher!StackFits
  <2> QED
    BY <2>1, <2>3, <2>4 DEF InvFor
<1> QED
  BY <1>2, HasherIsTree, PTL

\* The incremental hasher (src/libs/blake3/src/lib.rs:1066-1401) gives the hash that the reference
\* implementation gives, whatever lengths the input is cut into, whatever the SIMD degree, the
\* mode and the resets between.
THEOREM FinalizeIsReference == Hasher!Spec => []Hasher!FinalizeMatchesReference
<1>1. Hasher!SizesAssumption
  BY HasherAssumption
<1>2. HasherInv => Hasher!FinalizeMatchesReference
  <2> SUFFICES ASSUME HasherInv, Hasher!AtOrigin, origin = 0
               PROVE  Hasher!Finalize(hasher) = Hasher!Ref!Finalize(reference)
    BY DEF Hasher!FinalizeMatchesReference
  <2>1. PICK key, flags, degree : InvFor(key, flags, degree)
    BY DEF HasherInv
  <2>2. /\ reference = RefAt(key, flags, Numbers, fed)
        /\ FinalIsRef(key, flags, degree, Numbers, fed, hasher)
    BY <1>1, <2>1, InvAtZero
  <2> QED
    BY <2>2 DEF FinalIsRef, Hasher!Ref!Finalize
<1> QED
  BY <1>2, HasherIsTree, PTL

\* hash, keyed_hash and derive_key (src/libs/blake3/src/lib.rs:879-1011), which have the whole input
\* and no stack, give the hash of the incremental hasher.
THEOREM OneShotIsFinalize == Hasher!Spec => []Hasher!OneShotAgrees
<1>1. Hasher!SizesAssumption
  BY HasherAssumption
<1>2. HasherInv => Hasher!OneShotAgrees
  <2> SUFFICES ASSUME HasherInv, Hasher!AtOrigin, origin = 0
               PROVE  Hasher!RootHash(Hasher!HashAllAtOnce(Hasher!Span(0, fed), Hasher!Key,
                                                           Hasher!Flags, Hasher!Degree))
                        = Hasher!Finalize(hasher)
    BY DEF Hasher!OneShotAgrees
  <2>1. PICK key, flags, degree : InvFor(key, flags, degree)
    BY DEF HasherInv
  <2>2. /\ HasherIs(key, flags, degree, 0, fed, hasher)
        /\ FinalIsRef(key, flags, degree, Numbers, fed, hasher)
    BY <1>1, <2>1, InvAtZero
  <2>3. Hasher!Key = key /\ Hasher!Flags = flags /\ Hasher!Degree = degree
    BY <2>2 DEF HasherIs, Hasher!Key, Hasher!Flags, Hasher!Degree
  <2>4. Hasher!Span(0, fed) = Cut(Numbers, 0, fed)
    <3>1. fed \in Nat /\ 0 + fed = fed
      BY <2>1 DEF InvFor
    <3>2. Hasher!Span(0, 0 + fed) = Cut(Numbers, 0, fed)
      BY <3>1, NumbersAre
    <3> QED
      BY <3>1, <3>2
  <2> QED
    BY <2>2, <2>3, <2>4 DEF FinalIsRef
<1> QED
  BY <1>2, HasherIsTree, PTL

\* Subtrees hashed apart, with set_input_offset and finalize_non_root, merge by the rules of
\* hazmat (src/libs/blake3/src/hazmat.rs:225-484) into the hash of the whole input, and no bound of
\* a subtree's length refuses a right part.
THEOREM PartsAreWhole == Hasher!Spec => []Hasher!SubtreesMerge
<1>1. Hasher!SizesAssumption
  BY HasherAssumption
<1>2. HasherInv => Hasher!SubtreesMerge
  <2> DEFINE n == Hasher!Position
             middle == Hasher!LeftSubtreeLen(n)
  <2> SUFFICES ASSUME HasherInv, Hasher!AtOrigin, fed > 0, n > CHUNK_LEN
               PROVE  /\ Hasher!MergeSubtreesRoot(Hasher!PartCv(0, middle), Hasher!PartCv(middle, n),
                                                  Hasher!Key, Hasher!Flags)
                           = Hasher!RootHash(Hasher!HashAllAtOnce(Hasher!Span(0, n), Hasher!Key,
                                                                  Hasher!Flags, Hasher!Degree))
                      /\ ~Hasher!UpdatePanics(Hasher!StartedAt(middle), n - middle)
    BY DEF Hasher!SubtreesMerge
  <2> DEFINE u == Numbers
             z == 0
  <2>1. PICK key, flags, degree : InvFor(key, flags, degree)
    BY DEF HasherInv
  <2>2. CHUNK_LEN \in Nat /\ origin \in Nat /\ fed \in Nat /\ fed # 0 /\ Fits(degree)
    BY <1>1, <2>1, SizesAre DEF InvFor
  <2>3. HasherAt(key, flags, degree, u, origin, fed, hasher)
    BY <2>1, <2>2 DEF InvFor
  <2>4. u \in Units /\ z \in Nat /\ \A a, k \in Nat : Hasher!Span(a, a + k) = Cut(u, a, k)
    BY NumbersAre
  <2>5. n \in Nat
    BY <2>2 DEF Hasher!Position
  <2>6. HasherIs(key, flags, degree, origin, fed, hasher)
    BY <1>1, <2>2, <2>3, <2>4, HasherHas
  <2>7. Hasher!Key = key /\ Hasher!Flags = flags /\ Hasher!Degree = degree
    BY <2>6 DEF HasherIs, Hasher!Key, Hasher!Flags, Hasher!Degree
  <2> HIDE DEF n
  <2>8. PICK j \in Nat : LeftIs(n, j)
    BY <1>1, <2>5, LeftParts
  <2> DEFINE c == 2 ^ j
             rest == n - middle
  <2>9. /\ middle = Tall(j) /\ middle \in Nat /\ middle # 0 /\ middle + rest = n
        /\ rest \in Nat /\ rest # 0 /\ rest <= Tall(j)
    <3>1. /\ middle = Tall(j) /\ middle \in Nat /\ middle >= CHUNK_LEN /\ middle < n
          /\ n <= 2 * middle /\ CHUNK_LEN # 0
      BY <1>1, <2>8, SizesAre DEF LeftIs
    <3> HIDE DEF middle
    <3> QED
      BY <2>2, <2>5, <3>1
  <2>10. c \in Nat /\ middle = c * CHUNK_LEN
    <3>1. c \in Nat /\ Tall(j) = CHUNK_LEN * c
      BY <1>1, TallIs, Zenon
    <3> HIDE DEF c, middle
    <3>2. CHUNK_LEN * c = c * CHUNK_LEN
      BY <2>2, <3>1
    <3> QED
      BY <2>9, <3>1, <3>2
  <2> HIDE DEF u
  <2>11. Hasher!PartCv(0, middle) = Subtree(key, flags, u, z, Tall(j))
    <3>1. PartValue(key, flags, u, z, middle)
      <4> HIDE DEF z, middle
      <4> QED
        BY <1>1, <2>2, <2>3, <2>4, <2>9, PartsAre DEF u
    <3>2. z * CHUNK_LEN = 0 /\ 0 + middle = middle
      <4> HIDE DEF middle
      <4> QED
        BY <2>2, <2>9
    <3> HIDE DEF z, middle
    <3> QED
      BY <2>9, <3>1, <3>2 DEF PartValue
  <2>12. Hasher!PartCv(middle, n) = Subtree(key, flags, u, c, rest)
    <3>1. PartValue(key, flags, u, c, rest)
      <4> HIDE DEF c, rest
      <4> QED
        BY <1>1, <2>2, <2>3, <2>4, <2>9, <2>10, PartsAre DEF u
    <3> HIDE DEF c, rest, middle
    <3> QED
      BY <2>9, <2>10, <3>1 DEF PartValue
  <2>13. Hasher!MergeSubtreesRoot(Subtree(key, flags, u, z, Tall(j)), Subtree(key, flags, u, c, rest),
                                  key, flags)
           = Hasher!RootHash(Hasher!HashAllAtOnce(Cut(u, 0, n), key, flags, degree))
    <3>1. MergesWhole(key, flags, degree, u, n, j)
      BY <1>1, <2>2, <2>4, <2>5, <2>8, WholeMerged
    <3> HIDE DEF middle
    <3> QED
      BY <2>9, <3>1 DEF MergesWhole
  <2>14. Hasher!Span(0, n) = Cut(u, 0, n)
    <3>1. z + n = n /\ Hasher!Span(z, z + n) = Cut(u, z, n)
      BY <2>4, <2>5
    <3> QED
      BY <3>1
  <2>15. ~Hasher!UpdatePanics(Hasher!StartedAt(middle), rest)
    <3>1. Hasher!StartedAt(c * CHUNK_LEN)
            = AHasher(key, Hasher!NewChunkState(key, c, flags, degree), c, <<>>)
      <4> HIDE DEF c
      <4> QED
        BY <1>1, <2>2, <2>6, <2>10, StartedIs
    <3>2. ~Hasher!UpdatePanics(AHasher(key, Hasher!NewChunkState(key, c, flags, degree), c, <<>>), rest)
      <4> HIDE DEF rest
      <4> QED
        BY <1>1, <2>9, RightFits
    <3> HIDE DEF middle, c, rest
    <3> QED
      BY <2>10, <3>1, <3>2
  <2> HIDE DEF z, middle, c
  <2>16. Hasher!MergeSubtreesRoot(Hasher!PartCv(0, middle), Hasher!PartCv(middle, n), key, flags)
           = Hasher!RootHash(Hasher!HashAllAtOnce(Hasher!Span(0, n), key, flags, degree))
    BY <2>11, <2>12, <2>13, <2>14
  <2> QED
    BY <2>7, <2>15, <2>16
<1> QED
  BY <1>2, HasherIsTree, PTL
=============================================================================
