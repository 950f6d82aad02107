--------------------------------- MODULE Ntt --------------------------------
(***************************************************************************)
(* ntt_optimized (src/src/prover_main.cpp): the number-theoretic transform *)
(* of a vector, in place.  After the bit-reversal permutation each level   *)
(* runs its blocks in parallel (`omp parallel for`), a block going through *)
(* its butterflies one by one; a barrier ends the level.                   *)
(*                                                                         *)
(* A butterfly reads two elements and later writes both: other blocks may  *)
(* read and write in between.  How the blocks are dealt out to threads is  *)
(* left open, so every schedule is allowed for.                            *)
(***************************************************************************)
EXTENDS Integers, Functions, FiniteSetsExt

CONSTANTS
  P,        (* the field's modulus                                         *)
  G,        (* a generator of its multiplicative group                     *)
  N,        (* the length of the vector, a power of two                    *)
  Word32    (* number of values of uint32_t                                *)

\* N is a power of two: a divisor can be doubled until it is N.
NttAssumption ==
  /\ P \in Nat \ {0, 1}
  /\ G \in 1 .. P - 1
  /\ N \in Nat \ {0, 1}
  /\ \A l \in 1 .. N : N % l = 0 /\ 2 * l <= N => N % (2 * l) = 0
  /\ (P - 1) % N = 0
  /\ Word32 \in Nat /\ 2 * P <= Word32

Index == 0 .. N - 1
Field == 0 .. P - 1

VARIABLES
  data,     (* the argument: what main fills the vector with               *)
  a,        (* the vector                                                  *)
  phase,    (* "reverse", "levels" or "done"                               *)
  i, j,     (* the counters of the bit reversal                            *)
  len,      (* the length of this level's blocks                           *)
  block     (* of each block's start: its butterfly j, its twiddle factor, *)
            (* and the pair it has read and not written yet, if any        *)

vars == <<data, a, phase, i, j, len, block>>

-----------------------------------------------------------------------------
(* The field, in 32-bit words.                                             *)

field_add(x, y) == LET sum == (x + y) % Word32 IN IF sum >= P THEN sum - P ELSE sum

field_sub(x, y) == IF x >= y THEN x - y ELSE (x + P - y) % Word32

field_mul(x, y) == (x * y) % P

\* base to the exp-th, by squaring
power(base, exp) ==
  LET pow[e \in 0 .. exp] ==
        [b \in Field |->
           IF e = 0 THEN 1
           ELSE LET rest == pow[e \div 2][field_mul(b, b)]
                IN  IF e % 2 = 1 THEN field_mul(rest, b) ELSE rest]
  IN  pow[exp][base]

Root(n) == power(G, (P - 1) \div n)

-----------------------------------------------------------------------------
\* main's vector: consecutive numbers from the seed, which may wrap around.
Vector(seed) == [k \in Index |-> ((seed + k) % Word32) % P]

Blocks(l) == {k \in Index : k % l = 0}

\* Mutant: the twiddle factor runs on from block to block.
RunOn(l, start) == [j |-> 0, w |-> power(Root(l), (start \div 2) % l), pair |-> <<>>]

\* A block at its first butterfly
FirstButterfly(l, start) == [j |-> 0, w |-> 1, pair |-> <<>>]

StartLevel(l) == [start \in Blocks(l) |-> FirstButterfly(l, start)]

Init ==
  /\ \E seed \in 0 .. Word32 - 1 : data = Vector(seed)
  /\ a = data
  /\ phase = "reverse"
  /\ i = 1
  /\ j = 0
  /\ len = 2
  /\ block = <<>>

\* j counts up with its bits in reverse: the carry runs from the top down.
NextReversed(n) ==
  LET carry[bit \in 0 .. N] ==
        [k \in Index |->
           IF bit > 0 /\ (k \div bit) % 2 = 1 THEN carry[bit \div 2][k - bit] ELSE k + bit]
  IN  carry[N \div 2][n]

Swap(f, x, y) == [f EXCEPT ![x] = f[y], ![y] = f[x]]

ReverseStep ==
  /\ phase = "reverse"
  /\ i < N
  /\ j' = NextReversed(j)
  /\ a' = IF i < j' THEN Swap(a, i, j') ELSE a
  /\ i' = i + 1
  /\ UNCHANGED <<data, phase, len, block>>

ReverseDone ==
  /\ phase = "reverse"
  /\ i >= N
  /\ phase' = "levels"
  /\ block' = StartLevel(len)
  /\ UNCHANGED <<data, a, i, j, len>>

\* Mutant: the partner is a whole block away.
BlockAway(start, k) == (start + k + len) % N

Partner(start, k) == start + k + len \div 2

ReadPair(start) ==
  LET b == block[start] IN
  /\ b.j < len \div 2
  /\ b.pair = <<>>
  /\ block' = [block EXCEPT ![start].pair = <<a[start + b.j], a[Partner(start, b.j)]>>]
  /\ UNCHANGED <<data, a, phase, i, j, len>>

WritePair(start) ==
  LET b == block[start]
      u == b.pair[1]
      v == field_mul(b.pair[2], b.w)
  IN
  /\ b.pair # <<>>
  /\ a' = [a EXCEPT ![start + b.j] = field_add(u, v),
                    ![Partner(start, b.j)] = field_sub(u, v)]
  /\ block' = [block EXCEPT ![start] =
                 [j |-> b.j + 1, w |-> field_mul(b.w, Root(len)), pair |-> <<>>]]
  /\ UNCHANGED <<data, phase, i, j, len>>

\* The barrier at the end of the parallel loop
LevelDone ==
  /\ phase = "levels"
  /\ \A start \in Blocks(len) : block[start].j = len \div 2
  /\ \/ /\ 2 * len <= N
        /\ len' = 2 * len
        /\ block' = StartLevel(2 * len)
        /\ UNCHANGED phase
     \/ /\ 2 * len > N
        /\ phase' = "done"
        /\ UNCHANGED <<len, block>>
  /\ UNCHANGED <<data, a, i, j>>

\* The transform is over; only deadlock checking needs this.
Terminating == phase = "done" /\ UNCHANGED vars

Next ==
  \/ ReverseStep
  \/ ReverseDone
  \/ phase = "levels" /\ \E start \in Blocks(len) : ReadPair(start) \/ WritePair(start)
  \/ LevelDone
  \/ Terminating

Spec == Init /\ [][Next]_vars

-----------------------------------------------------------------------------
(* Properties.                                                             *)

\* The definition of the transform: element k is the sum of data[m] times
\* the k*m-th power of the N-th root of unity.
Transform ==
  [k \in Index |->
     FoldFunctionOnSet(field_add, 0,
       [m \in Index |-> field_mul(data[m], power(Root(N), (k * m) % N))], Index)]

\* What the transform leaves in the vector is the transform by definition,
\* in whatever order the blocks of a level take their steps (lines 64-91).
\* On the way every element stays reduced: neither sum nor difference
\* overflows the word, and neither leaves the field (lines 32-39, 83-86).
ComputesTransform ==
  /\ a \in [Index -> Field]
  /\ phase = "done" => a = Transform

\* The parallel loop has no race: what a block has read is still there when
\* it writes, for no other block of the level touches it (lines 79-88).
ReadsStayCurrent ==
  phase = "levels" =>
    \A start \in Blocks(len) :
      LET b == block[start]
      IN  b.pair # <<>> => b.pair = <<a[start + b.j], a[Partner(start, b.j)]>>
=============================================================================
