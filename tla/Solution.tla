------------------------------- MODULE Solution -----------------------------
(***************************************************************************)
(* What becomes of one seed, from its matrices to the line main prints:    *)
(* the product the CPU device accumulates in int32 (compute_cpu.cpp), the  *)
(* solution's bytes and the difficulty check (miner.cpp), and Base58       *)
(* (main.cpp).  One element of C stands for all: each is a sum of its own. *)
(*                                                                         *)
(* The solution's hash may be anything.  A character of Base58 is known by *)
(* its place in the alphabet.                                              *)
(***************************************************************************)
EXTENDS Integers, Sequences, SequencesExt, FiniteSetsExt

CONSTANTS
  K,            (* length of A's rows and B's columns                      *)
  ABytes,       (* elements of A: uint8_t                                  *)
  BBytes,       (* elements of B: int8_t                                   *)
  WordBytes,    (* the bytes of an element of C                            *)
  Seeds,        (* the seeds, in bytes                                     *)
  HashBytes,    (* the values of a hash's bytes,                           *)
  HashLength    (* and their number                                        *)

Byte == 0 .. 255
Word == 2 ^ (8 * WordBytes)

SolutionAssumption ==
  /\ ABytes \subseteq Byte
  /\ BBytes \subseteq -128 .. 127
  /\ WordBytes \in Nat \ {0}
  /\ K \in Nat /\ K * 255 * 128 < Word \div 2
  /\ Seeds \subseteq Seq(Byte)
  \* The nonce in a seed is counted up before it is first hashed.
  /\ \A s \in Seeds : \E m \in DOMAIN s : s[m] # 0
  /\ HashBytes \subseteq Byte
  /\ HashLength \in Nat \ {0}

VARIABLES
  stage,        (* "multiply", "check", "encode" or "done"                 *)
  A, B,         (* a row of A and a column of B                            *)
  k,            (* matmul's loop counter                                   *)
  c,            (* the element of C                                        *)
  seed,
  hash,         (* of the solution                                         *)
  difficulty,
  success,      (* the outcome of the check                                *)
  data,         (* the solution's bytes                                    *)
  done,         (* how many of them are encoded                            *)
  digits,       (* base-58 digits so far, the lowest first                 *)
  text          (* what encode_base58 returns                              *)

product == <<A, B, k, c>>
check == <<hash, difficulty, success>>
encoding == <<done, digits, text>>
vars == <<stage, product, seed, check, data, encoding>>

-----------------------------------------------------------------------------
(* The product.                                                            *)

\* An int32_t holding n
Signed(n) == LET m == n % Word IN IF m < Word \div 2 THEN m ELSE m - Word

\* Mutant: A's bytes taken for signed ones too.
BothSigned(x, y) == IF x > 127 THEN (x - 256) * y ELSE x * y

Term(x, y) == x * y

Init ==
  /\ stage = "multiply"
  /\ A \in [1 .. K -> ABytes]
  /\ B \in [1 .. K -> BBytes]
  /\ k = 0
  /\ c = 0
  /\ seed \in Seeds
  /\ hash = <<>>
  /\ difficulty = 0
  /\ success = FALSE
  /\ data = <<>>
  /\ done = 0
  /\ digits = <<0>>
  /\ text = <<>>

MultiplyAdd ==
  /\ stage = "multiply"
  /\ k < K
  /\ c' = Signed(c + Term(A[k + 1], B[k + 1]))
  /\ k' = k + 1
  /\ UNCHANGED <<stage, A, B, seed, check, data, encoding>>

\* The element's bytes in memory, the lowest first
LittleEndian(n) == [m \in 1 .. WordBytes |-> ((n % Word) \div 2 ^ (8 * (m - 1))) % 256]

\* Seed and product are hashed.
MakeSolution ==
  /\ stage = "multiply"
  /\ k >= K
  /\ data' = seed \o LittleEndian(c)
  /\ hash' \in [1 .. HashLength -> HashBytes]
  /\ difficulty' \in 0 .. 8 * HashLength
  /\ stage' = "check"
  /\ UNCHANGED <<product, seed, success, encoding>>

-----------------------------------------------------------------------------
(* The check.                                                              *)

\* Mutant: the mask keeps the low bits of the byte after the full ones.
LowBits(byte, n) == byte % 2 ^ n

\* byte & mask, where the mask has n ones from the top
HighBits(byte, n) == byte - (byte % 2 ^ (8 - n))

check_diff_fast(h, bits) ==
  /\ \A m \in 1 .. bits \div 8 : h[m] = 0
  /\ bits % 8 > 0 => HighBits(h[bits \div 8 + 1], bits % 8) = 0

\* Only what passes is printed.
CheckDifficulty ==
  /\ stage = "check"
  /\ success' = check_diff_fast(hash, difficulty)
  /\ stage' = IF success' THEN "encode" ELSE "done"
  /\ UNCHANGED <<product, seed, hash, difficulty, data, encoding>>

-----------------------------------------------------------------------------
(* Base58.                                                                 *)

\* The digits of n, the lowest first
DigitsOf(n) ==
  LET of[m \in 0 .. n] == IF m = 0 THEN <<>> ELSE <<m % 58>> \o of[m \div 58]
  IN  of[n]

\* Mutant: the last carry becomes one digit, however large it is.
AddByteOnce(ds, byte) ==
  LET carry[m \in 1 .. Len(ds) + 1] ==
        IF m = 1 THEN byte ELSE (carry[m - 1] + 256 * ds[m - 1]) \div 58
      last == carry[Len(ds) + 1]
  IN  [m \in 1 .. Len(ds) |-> (carry[m] + 256 * ds[m]) % 58]
        \o IF last > 0 THEN <<last % 58>> ELSE <<>>

\* digits * 256 + byte: what is carried into each digit, and the new digits
AddByte(ds, byte) ==
  LET carry[m \in 1 .. Len(ds) + 1] ==
        IF m = 1 THEN byte ELSE (carry[m - 1] + 256 * ds[m - 1]) \div 58
  IN  [m \in 1 .. Len(ds) |-> (carry[m] + 256 * ds[m]) % 58]
        \o DigitsOf(carry[Len(ds) + 1])

EncodeByte ==
  /\ stage = "encode"
  /\ done < Len(data)
  /\ digits' = AddByte(digits, data[done + 1])
  /\ done' = done + 1
  /\ UNCHANGED <<stage, product, seed, check, data, text>>

\* How many elements at the start of s are zero
LeadingZeros(s) == Max({m \in 0 .. Len(s) : \A n \in 1 .. m : s[n] = 0})

Characters(bytes, ds) == [m \in 1 .. LeadingZeros(bytes) |-> 0] \o Reverse(ds)

FinishEncoding ==
  /\ stage = "encode"
  /\ done >= Len(data)
  /\ text' = Characters(data, digits)
  /\ stage' = "done"
  /\ UNCHANGED <<product, seed, check, data, done, digits>>

\* The line is printed; only deadlock checking needs this.
Terminating == stage = "done" /\ UNCHANGED vars

Next ==
  \/ MultiplyAdd \/ MakeSolution
  \/ CheckDifficulty
  \/ EncodeByte \/ FinishEncoding
  \/ Terminating

Spec == Init /\ [][Next]_vars

-----------------------------------------------------------------------------
(* Properties.                                                             *)

\* The sum of the first n terms, in unbounded integers
ExactSum(n) == FoldLeft(LAMBDA x, y : x + y, 0, [m \in 1 .. n |-> A[m] * B[m]])

\* The 32-bit accumulator never overflows: after every term it is the exact
\* sum of unsigned times signed bytes (compute_cpu.cpp:18-46, README.md:61).
ProductIsExact == c = ExactSum(k)

\* A number's bits from the top, and how many of them are zero
Bits(h) == [m \in 1 .. 8 * Len(h) |-> (h[(m - 1) \div 8 + 1] \div 2 ^ (7 - ((m - 1) % 8))) % 2]

\* The byte-wise check asks for as many leading zero bits as the difficulty
\* says, which is how miner_openblas.py:91-96 counts (miner.cpp:11-19).
ChecksLeadingZeros ==
  stage \in {"encode", "done"} =>
    (success <=> LeadingZeros(Bits(hash)) >= difficulty)

\* The value of a sequence of digits in a base, the highest first
Value(s, base) == FoldLeft(LAMBDA x, y : x * base + y, 0, s)

\* The text can be decoded: it has the value of the bytes, and as many
\* leading ones (digits zero) as the bytes have leading zeros, which is what
\* tells apart solutions that differ in them (main.cpp:27-35).  On the way
\* the digits have the value of the bytes read so far, no zero digit is on
\* top, and they fit the buffer of 138/100 of the length (main.cpp:13-26).
TextDecodes ==
  /\ Value(Reverse(digits), 58) = Value(SubSeq(data, 1, done), 256)
  /\ Len(digits) > 1 => digits[Len(digits)] # 0
  /\ Len(digits) <= (Len(data) * 138) \div 100 + 1
  /\ text # <<>> =>
       /\ Value(text, 58) = Value(data, 256)
       /\ LeadingZeros(text) = LeadingZeros(data)
=============================================================================
