---------------------------- MODULE Blake3Proofs ----------------------------
(***************************************************************************)
(* The reader of the extended output, for blocks of any length, a stream   *)
(* of any length and reads of any length; and b3sum, for any names, any    *)
(* list of arguments and any number of changes to the files.               *)
(*                                                                         *)
(* The reader names a byte by its block and its place in it, the stream by *)
(* its position.  The two names agree by division (Division).  A read is   *)
(* put together from three pieces; FillArithmetic says how many bytes each *)
(* has and at which position it starts, and so that no byte is left out    *)
(* or given twice where the pieces meet.                                   *)
(*                                                                         *)
(* What b3sum says of a line depends on reading back a name that was       *)
(* printed.  From the inside out: unescape undoes the escapes              *)
(* (UnescapeUndoes); a path reads back as the name of its file, if it      *)
(* holds no replacement character (PathReadsBack); a line is split where   *)
(* its hash is, or into something that is no hash (SplitPlain,             *)
(* SplitTagged); so a line is read as what it was printed for, or refused  *)
(* (LineReadsBack); and a checkfile is cut into the lines that were        *)
(* printed, for none of them holds an end of a line (Tails, FirstLine).    *)
(* The invariant CliInv then follows the two commands step by step:        *)
(* CliLines, that the lines not yet judged are those that are left in the  *)
(* checkfile, is what its other parts rest on.                             *)
(*                                                                         *)
(* What Blake3HasherProofs proves of the hasher holds of the whole,        *)
(* because a run that starts as the hasher is a run of the hasher          *)
(* (HasherRuns), and one that starts as another part never is the hasher.  *)
(***************************************************************************)
EXTENDS Blake3HasherProofs, MCBlake3

(***************************************************************************)
(* Blocks and positions.                                                   *)
(***************************************************************************)

\* A position is a block and a place in it.
LEMMA Division ==
  ASSUME NEW n \in Nat
  PROVE  /\ n \div OutputBlockLen \in Nat
         /\ n % OutputBlockLen \in 0 .. OutputBlockLen - 1
         /\ n = (n \div OutputBlockLen) * OutputBlockLen + (n % OutputBlockLen)
BY BlockAssumption, SMT

\* Blocks are added, and so are their bytes.
LEMMA Distributes ==
  ASSUME NEW a \in Nat, NEW b \in Nat
  PROVE  (a + b) * OutputBlockLen = a * OutputBlockLen + b * OutputBlockLen
BY BlockAssumption, SMT

\* The bytes of so many blocks.
LEMMA ProductIsNat ==
  ASSUME NEW a \in Nat
  PROVE  a * OutputBlockLen \in Nat
BY BlockAssumption, SMT

(***************************************************************************)
(* The pieces of a read as sequences of bytes.                             *)
(***************************************************************************)

\* The bytes of the stream
Bytes == [block : Nat, index : Nat]

\* The position of one
At(byte) == byte.block * OutputBlockLen + byte.index

\* A piece of one block gives consecutive positions.
LEMMA BlockBytesAt ==
  ASSUME NEW block \in Nat, NEW from \in Nat, NEW n \in Nat
  PROVE  /\ BlockBytes(block, from, n) \in Seq(Bytes)
         /\ Len(BlockBytes(block, from, n)) = n
         /\ \A i \in 1 .. n :
              At(BlockBytes(block, from, n)[i]) = block * OutputBlockLen + from + i - 1
<1> DEFINE s == BlockBytes(block, from, n)
<1>1. \A i \in 1 .. n : from + i - 1 \in Nat /\ [block |-> block, index |-> from + i - 1] \in Bytes
  BY DEF Bytes
<1>2. s \in [1 .. n -> Bytes]
  BY <1>1 DEF BlockBytes
<1>3. s \in Seq(Bytes) /\ Len(s) = n
  BY <1>2
<1>4. \A i \in 1 .. n : At(s[i]) = block * OutputBlockLen + from + i - 1
  BY ProductIsNat DEF BlockBytes, At
<1> QED
  BY <1>3, <1>4

\* So do whole blocks, across their ends.
LEMMA XofManyAt ==
  ASSUME NEW first \in Nat, NEW blocks \in Nat
  PROVE  /\ XofMany(first, blocks) \in Seq(Bytes)
         /\ Len(XofMany(first, blocks)) = blocks * OutputBlockLen
         /\ \A i \in 1 .. blocks * OutputBlockLen :
              At(XofMany(first, blocks)[i]) = first * OutputBlockLen + i - 1
<1> DEFINE s == XofMany(first, blocks)
           n == blocks * OutputBlockLen
           q(i) == (i - 1) \div OutputBlockLen
           r(i) == (i - 1) % OutputBlockLen
<1>1. n \in Nat
  BY ProductIsNat
<1>2. ASSUME NEW i \in 1 .. n
      PROVE  /\ [block |-> first + q(i), index |-> r(i)] \in Bytes
             /\ (first + q(i)) * OutputBlockLen + r(i) = first * OutputBlockLen + i - 1
  <2>1. i - 1 \in Nat
    BY <1>1
  <2>2. /\ q(i) \in Nat /\ r(i) \in Nat
        /\ i - 1 = q(i) * OutputBlockLen + r(i)
    BY <2>1, Division, BlockAssumption
  <2>3. (first + q(i)) * OutputBlockLen = first * OutputBlockLen + q(i) * OutputBlockLen
    BY <2>2, Distributes
  <2>4. first * OutputBlockLen \in Nat /\ q(i) * OutputBlockLen \in Nat
    BY <2>2, ProductIsNat
  <2> HIDE DEF q, r
  <2> QED
    BY <2>1, <2>2, <2>3, <2>4 DEF Bytes
<1>3. s = [i \in 1 .. n |-> [block |-> first + q(i), index |-> r(i)]]
  BY DEF XofMany
<1> HIDE DEF s, n, q, r
<1>4. s \in [1 .. n -> Bytes]
  BY <1>2, <1>3
<1>5. s \in Seq(Bytes) /\ Len(s) = n
  BY <1>1, <1>4
<1>6. \A i \in 1 .. n : At(s[i]) = first * OutputBlockLen + i - 1
  BY <1>2, <1>3 DEF At
<1> QED
  BY <1>5, <1>6 DEF s, n

\* Two pieces, the second of which begins where the first ends.
LEMMA PiecesJoin ==
  ASSUME NEW a \in Seq(Bytes), NEW b \in Seq(Bytes), NEW start \in Nat,
         \A i \in 1 .. Len(a) : At(a[i]) = start + i - 1,
         \A i \in 1 .. Len(b) : At(b[i]) = start + Len(a) + i - 1
  PROVE  /\ a \o b \in Seq(Bytes)
         /\ Len(a \o b) = Len(a) + Len(b)
         /\ \A i \in 1 .. Len(a) + Len(b) : At((a \o b)[i]) = start + i - 1
<1>1. /\ a \o b \in Seq(Bytes) /\ Len(a \o b) = Len(a) + Len(b)
      /\ \A i \in 1 .. Len(a) + Len(b) :
           (a \o b)[i] = IF i <= Len(a) THEN a[i] ELSE b[i - Len(a)]
  OBVIOUS
<1>2. Len(a) \in Nat /\ Len(b) \in Nat
  OBVIOUS
<1>3. ASSUME NEW i \in 1 .. Len(a) + Len(b)
      PROVE  At((a \o b)[i]) = start + i - 1
  <2>1. CASE i <= Len(a)
    BY <2>1, <1>1, <1>2
  <2>2. CASE ~(i <= Len(a))
    <3>1. i - Len(a) \in 1 .. Len(b) /\ (a \o b)[i] = b[i - Len(a)]
      BY <2>2, <1>1, <1>2
    <3>2. At(b[i - Len(a)]) = start + Len(a) + (i - Len(a)) - 1
      BY <3>1
    <3> QED
      BY <3>1, <3>2, <1>2
  <2> QED
    BY <2>1, <2>2
<1> QED
  BY <1>1, <1>3

(***************************************************************************)
(* What a read does: how long its pieces are and where they start.         *)
(***************************************************************************)

\* The place in its block at which a read of n bytes ends.
EndPlace(n) ==
  IF Leftover(n) > 0 THEN Leftover(n)
  ELSE IF EndsBlock(n) THEN 0
  ELSE position_within_block + InBlock(n)

\* A read is made of the rest of a block, whole blocks, and the start of one.
LEMMA PieceLengths ==
  ASSUME TypeOK, NEW n \in Nat
  PROVE  /\ InBlock(n) \in 0 .. n
         /\ FullBlocks(n) \in Nat
         /\ Leftover(n) \in 0 .. OutputBlockLen - 1
         /\ FullBlocks(n) * OutputBlockLen \in Nat
         /\ n = InBlock(n) + FullBlocks(n) * OutputBlockLen + Leftover(n)
         /\ n = InBlock(n) => FullBlocks(n) = 0 /\ Leftover(n) = 0
<1>1. InBlock(n) \in 0 .. n
  BY BlockAssumption DEF TypeOK, InBlock
<1>2. n - InBlock(n) \in Nat
  BY <1>1
<1>3. /\ FullBlocks(n) \in Nat /\ Leftover(n) \in 0 .. OutputBlockLen - 1
      /\ n - InBlock(n) = FullBlocks(n) * OutputBlockLen + Leftover(n)
  BY <1>2, Division DEF FullBlocks, Leftover
<1>4. FullBlocks(n) * OutputBlockLen \in Nat
  BY <1>3, ProductIsNat
<1>5. n - InBlock(n) = 0 => FullBlocks(n) = 0 /\ Leftover(n) = 0
  BY BlockAssumption DEF FullBlocks, Leftover
<1> QED
  BY <1>1, <1>3, <1>4, <1>5, BlockAssumption

\* Each piece starts where the one before it ends.
LEMMA FillArithmetic ==
  ASSUME TypeOK, NEW n \in Nat
  PROVE  /\ NextBlock(n) \in Nat
         /\ EndPlace(n) \in 0 .. OutputBlockLen - 1
         /\ \/ NextBlock(n) * OutputBlockLen = Position + InBlock(n)
            \/ FullBlocks(n) = 0 /\ Leftover(n) = 0
         /\ (NextBlock(n) + FullBlocks(n)) * OutputBlockLen + EndPlace(n) = Position + n
<1>1. /\ OutputBlockLen \in Nat \ {0} /\ counter \in Nat
      /\ position_within_block \in 0 .. OutputBlockLen - 1
      /\ counter * OutputBlockLen \in Nat /\ Position \in Nat
      /\ Position = counter * OutputBlockLen + position_within_block
  BY BlockAssumption, ProductIsNat DEF TypeOK, Position
<1>2. NextBlock(n) \in Nat
  BY <1>1 DEF NextBlock
<1> DEFINE start == NextBlock(n) * OutputBlockLen
           whole == FullBlocks(n) * OutputBlockLen
<1>3. /\ InBlock(n) \in 0 .. n /\ whole \in Nat /\ start \in Nat
      /\ Leftover(n) \in 0 .. OutputBlockLen - 1
      /\ n = InBlock(n) + whole + Leftover(n)
  BY <1>2, ProductIsNat, PieceLengths
<1>4. (NextBlock(n) + FullBlocks(n)) * OutputBlockLen
        = NextBlock(n) * OutputBlockLen + FullBlocks(n) * OutputBlockLen
  BY <1>2, PieceLengths, Distributes
<1>5. ASSUME start = Position + InBlock(n), EndPlace(n) = Leftover(n)
      PROVE  (NextBlock(n) + FullBlocks(n)) * OutputBlockLen + EndPlace(n) = Position + n
  <2>1. start + whole + Leftover(n) = Position + n
    <3> HIDE DEF start, whole
    <3> QED
      BY <1>3, <1>1, <1>5
  <2> QED
    BY <1>4, <1>5, <2>1
<1>6. (counter + 1) * OutputBlockLen = counter * OutputBlockLen + OutputBlockLen
  BY <1>1, SMT
\* The read starts with whole blocks.
<1>7. CASE position_within_block = 0
  <2>1. InBlock(n) = 0 /\ ~EndsBlock(n) /\ NextBlock(n) = counter
    BY <1>7 DEF InBlock, EndsBlock, NextBlock
  <2>2. EndPlace(n) = Leftover(n)
    BY <2>1, <1>3, <1>7 DEF EndPlace
  <2>3. NextBlock(n) * OutputBlockLen = Position + InBlock(n)
    BY <1>1, <1>7, <2>1
  <2> QED
    BY <1>3, <1>2, <1>5, <2>2, <2>3
\* The read reaches the end of the block it starts in.
<1>8. CASE EndsBlock(n)
  <2>1. /\ NextBlock(n) = counter + 1
        /\ position_within_block + InBlock(n) = OutputBlockLen
    BY <1>8 DEF EndsBlock, NextBlock
  <2>2. EndPlace(n) = Leftover(n)
    BY <1>3, <1>8 DEF EndPlace
  <2>3. NextBlock(n) * OutputBlockLen = Position + InBlock(n)
    BY <1>3, <1>1, <1>6, <2>1
  <2> QED
    BY <1>3, <1>2, <1>5, <2>2, <2>3
\* The read ends within the block it starts in.
<1>9. CASE position_within_block # 0 /\ ~EndsBlock(n)
  <2>1. /\ InBlock(n) = n /\ NextBlock(n) = counter
        /\ position_within_block + n \in 0 .. OutputBlockLen - 1
    BY <1>1, <1>9 DEF InBlock, EndsBlock, NextBlock
  <2>2. FullBlocks(n) = 0 /\ Leftover(n) = 0
    BY <2>1, PieceLengths
  <2>3. EndPlace(n) = position_within_block + n
    BY <1>9, <2>1, <2>2 DEF EndPlace
  <2> QED
    BY <1>1, <1>2, <2>1, <2>2, <2>3 DEF Position
<1> QED
  BY <1>7, <1>8, <1>9

\* The bytes of a read are those from the position on.
LEMMA FillReads ==
  ASSUME TypeOK, NEW n \in Nat, Fill(n)
  PROVE  /\ TypeOK'
         /\ Position' = Position + n
         /\ Len(got') = n
         /\ \A i \in 1 .. n : At(got'[i]) = Position + i - 1
<1> DEFINE k == InBlock(n)
           first == NextBlock(n)
           full == FullBlocks(n)
           left == Leftover(n)
           a == BlockBytes(counter, position_within_block, k)
           b == XofMany(first, full)
           c == BlockBytes(first + full, 0, left)
<1>1. /\ counter \in Nat /\ position_within_block \in Nat /\ Position \in Nat
      /\ OutputBlockLen \in Nat
  BY BlockAssumption, ProductIsNat DEF TypeOK, Position
<1>2. /\ k \in Nat /\ full \in Nat /\ left \in Nat /\ full * OutputBlockLen \in Nat
      /\ n = k + full * OutputBlockLen + left
  BY <1>1, PieceLengths
<1>3. /\ first \in Nat
      /\ (first * OutputBlockLen = Position + k) \/ (full = 0 /\ left = 0)
  BY FillArithmetic
<1>4. /\ a \in Seq(Bytes) /\ Len(a) = k
      /\ \A i \in 1 .. Len(a) : At(a[i]) = Position + i - 1
  <2>1. /\ a \in Seq(Bytes) /\ Len(a) = k
        /\ \A i \in 1 .. k :
             At(a[i]) = counter * OutputBlockLen + position_within_block + i - 1
    <3>1. k \in Nat /\ counter \in Nat /\ position_within_block \in Nat
      BY <1>1, <1>2
    <3> HIDE DEF k
    <3> QED
      BY <3>1, BlockBytesAt
  <2> HIDE DEF a, k
  <2> QED
    BY <2>1 DEF Position
<1>5. /\ b \in Seq(Bytes) /\ Len(b) = full * OutputBlockLen
      /\ \A i \in 1 .. Len(b) : At(b[i]) = Position + Len(a) + i - 1
  <2>1. /\ b \in Seq(Bytes) /\ Len(b) = full * OutputBlockLen
        /\ \A i \in 1 .. full * OutputBlockLen : At(b[i]) = first * OutputBlockLen + i - 1
    BY <1>2, <1>3, XofManyAt
  <2>2. CASE first * OutputBlockLen = Position + k
    BY <1>4, <2>1, <2>2
  <2>3. CASE full = 0 /\ left = 0
    <3>1. Len(b) = 0
      BY <2>1, <2>3, <1>1
    <3> QED
      BY <2>1, <3>1
  <2> QED
    BY <1>3, <2>2, <2>3
<1>6. /\ c \in Seq(Bytes) /\ Len(c) = left
      /\ \A i \in 1 .. left : At(c[i]) = Position + k + full * OutputBlockLen + i - 1
  <2>1. first + full \in Nat
    BY <1>2, <1>3
  <2>2. /\ c \in Seq(Bytes) /\ Len(c) = left
        /\ \A i \in 1 .. left : At(c[i]) = (first + full) * OutputBlockLen + 0 + i - 1
    BY <1>2, <2>1, BlockBytesAt
  <2>3. (first + full) * OutputBlockLen = first * OutputBlockLen + full * OutputBlockLen
    BY <1>2, <1>3, Distributes
  <2>4. first * OutputBlockLen \in Nat
    BY <1>3, ProductIsNat
  <2> HIDE DEF a, b, c, k, first, full, left
  <2>5. CASE first * OutputBlockLen = Position + k
    BY <1>1, <1>2, <2>2, <2>3, <2>4, <2>5
  <2>6. CASE full = 0 /\ left = 0
    BY <2>2, <2>6
  <2> QED
    BY <1>3, <2>5, <2>6
<1>7. got' = a \o b \o c
  BY DEF Fill
<1>8. /\ counter' = first + full
      /\ position_within_block' = EndPlace(n)
  BY DEF Fill, EndPlace
<1>9. TypeOK' /\ Position' = Position + n
  BY <1>2, <1>3, <1>8, FillArithmetic DEF TypeOK, Position
<1> HIDE DEF a, b, c, k, first, full, left
<1>10. /\ a \o b \in Seq(Bytes) /\ Len(a \o b) = k + full * OutputBlockLen
       /\ \A i \in 1 .. k + full * OutputBlockLen : At((a \o b)[i]) = Position + i - 1
  <2>1. /\ a \o b \in Seq(Bytes) /\ Len(a \o b) = Len(a) + Len(b)
        /\ \A i \in 1 .. Len(a) + Len(b) : At((a \o b)[i]) = Position + i - 1
    <3>1. \A i \in 1 .. Len(a) : At(a[i]) = Position + i - 1
      BY <1>4
    <3>2. \A i \in 1 .. Len(b) : At(b[i]) = Position + Len(a) + i - 1
      BY <1>5
    <3>3. a \in Seq(Bytes) /\ b \in Seq(Bytes) /\ Position \in Nat
      BY <1>1, <1>4, <1>5
    <3> QED
      BY <3>1, <3>2, <3>3, PiecesJoin
  <2>2. Len(a) + Len(b) = k + full * OutputBlockLen
    BY <1>4, <1>5
  <2> QED
    BY <2>1, <2>2
<1>11. /\ Len(a \o b \o c) = n
       /\ \A i \in 1 .. n : At((a \o b \o c)[i]) = Position + i - 1
  <2> DEFINE ab == a \o b
  <2>1. /\ ab \in Seq(Bytes) /\ Len(ab) = k + full * OutputBlockLen
        /\ \A i \in 1 .. Len(ab) : At(ab[i]) = Position + i - 1
    BY <1>10
  <2>2. /\ c \in Seq(Bytes) /\ Len(c) = left
        /\ \A i \in 1 .. Len(c) : At(c[i]) = Position + Len(ab) + i - 1
    BY <1>1, <1>2, <1>6, <2>1
  <2> HIDE DEF ab
  <2>3. /\ Len(ab \o c) = Len(ab) + Len(c)
        /\ \A i \in 1 .. Len(ab) + Len(c) : At((ab \o c)[i]) = Position + i - 1
    BY <1>1, <2>1, <2>2, PiecesJoin
  <2>4. Len(ab) + Len(c) = n
    BY <1>2, <2>1, <2>2
  <2> QED
    BY <2>3, <2>4 DEF ab
<1> QED
  BY <1>7, <1>9, <1>11

\* A jump leaves the reader at the position it was given.
LEMMA SetPositionJumps ==
  ASSUME NEW p \in Nat, SetPosition(p)
  PROVE  TypeOK' /\ Position' = p /\ got' = <<>>
BY Division DEF SetPosition, TypeOK, Position

\* A seek leaves it where it was asked to, or at the last position there is.
LEMMA SeekJumps ==
  ASSUME NEW x \in Int, Seek(x)
  PROVE  /\ x >= 0 /\ TypeOK' /\ got' = <<>>
         /\ Position' = (IF x < MaxPosition THEN x ELSE MaxPosition)
<1>1. /\ x >= 0
      /\ SetPosition(IF x < MaxPosition THEN x ELSE MaxPosition)
      /\ (IF x < MaxPosition THEN x ELSE MaxPosition) \in Nat
  BY PositionAssumption DEF Seek
<1> QED
  BY <1>1, SetPositionJumps

(***************************************************************************)
(* What the reader keeps.                                                  *)
(***************************************************************************)

\* A step, of those that Next allows: a read, or a jump from the start of the
\* stream or from where the reader is.
LEMMA NextCases ==
  ASSUME Next, TypeOK
  PROVE  \/ \E n \in Nat : Fill(n) /\ call' = Call("read", n)
         \/ \E p \in Nat, op \in {"jumpTo", "jumpBy"}, x \in Int :
              /\ TypeOK' /\ got' = <<>> /\ call' = Call(op, x)
              /\ p = (IF op = "jumpTo" THEN x ELSE Position + x)
              /\ Position' = (IF p < MaxPosition THEN p ELSE MaxPosition)
<1>1. Position \in Nat
  BY BlockAssumption, ProductIsNat DEF TypeOK, Position
<1>2. CASE \E n \in 0 .. MaxRead : Fill(n) /\ call' = Call("read", n)
  BY <1>2, PositionAssumption
<1>3. ASSUME NEW p \in 0 .. MaxPosition,
             SetPosition(p) \/ Seek(p), call' = Call("jumpTo", p)
      PROVE  \E q \in Nat, op \in {"jumpTo", "jumpBy"}, x \in Int :
               /\ TypeOK' /\ got' = <<>> /\ call' = Call(op, x)
               /\ q = (IF op = "jumpTo" THEN x ELSE Position + x)
               /\ Position' = (IF q < MaxPosition THEN q ELSE MaxPosition)
  <2>1. p \in Nat /\ p \in Int /\ p <= MaxPosition /\ MaxPosition \in Nat
    BY PositionAssumption
  <2>2. /\ TypeOK' /\ got' = <<>>
        /\ Position' = (IF p < MaxPosition THEN p ELSE MaxPosition)
    BY <1>3, <2>1, SetPositionJumps, SeekJumps
  <2> QED
    BY <1>3, <2>1, <2>2
<1>4. ASSUME NEW x \in -MaxPosition .. MaxPosition,
             Seek(Position + x), call' = Call("jumpBy", x)
      PROVE  \E q \in Nat, op \in {"jumpTo", "jumpBy"}, y \in Int :
               /\ TypeOK' /\ got' = <<>> /\ call' = Call(op, y)
               /\ q = (IF op = "jumpTo" THEN y ELSE Position + y)
               /\ Position' = (IF q < MaxPosition THEN q ELSE MaxPosition)
  <2>1. x \in Int /\ Position + x \in Int
    BY <1>1, PositionAssumption
  <2>2. /\ Position + x \in Nat /\ TypeOK' /\ got' = <<>>
        /\ Position' = (IF Position + x < MaxPosition THEN Position + x ELSE MaxPosition)
    BY <1>4, <2>1, SeekJumps
  <2>3. "jumpBy" # "jumpTo"
    OBVIOUS
  <2> QED
    BY <1>4, <2>1, <2>2, <2>3
<1> QED
  BY <1>2, <1>3, <1>4 DEF Next, SeekFromStart, SeekFromCurrent

\* The counter counts blocks, and the reader is never at the end of one: a
\* block read to its end is left behind.
THEOREM TypeCorrectness == Spec => []TypeOK
<1>1. Init => TypeOK
  BY BlockAssumption DEF Init, TypeOK
<1>2. TypeOK /\ [Next]_vars => TypeOK'
  <2> SUFFICES ASSUME TypeOK, [Next]_vars
               PROVE  TypeOK'
    OBVIOUS
  <2>1. CASE Next
    BY <2>1, NextCases, FillReads
  <2>2. CASE UNCHANGED vars
    BY <2>2 DEF vars, TypeOK
  <2> QED
    BY <2>1, <2>2
<1> QED
  BY <1>1, <1>2, PTL DEF Spec

\* Reads of any lengths, between seeks to anywhere, are reads of one stream of
\* bytes: none is skipped or repeated where blocks meet, and a seek goes where
\* it was asked to.
THEOREM ReaderIsAStream == Spec => ReadsOneStream
<1> DEFINE positions == [i \in 1 .. Len(got) |-> got[i].block * OutputBlockLen + got[i].index]
<1>1. Init => Stream!Init
  BY BlockAssumption DEF Init, Stream!Init, Position
<1>2. TypeOK /\ [Next]_vars => [Stream!Next]_<<Position, positions, call>>
  <2> SUFFICES ASSUME TypeOK, [Next]_vars
               PROVE  [Stream!Next]_<<Position, positions, call>>
    OBVIOUS
  <2>1. Position \in Nat
    BY BlockAssumption, ProductIsNat DEF TypeOK, Position
  <2>2. ASSUME NEW n \in Nat, Fill(n), call' = Call("read", n)
        PROVE  Stream!Next
    <3>1. /\ Position' = Position + n /\ Len(got') = n
          /\ \A i \in 1 .. n : At(got'[i]) = Position + i - 1
      BY <2>2, FillReads
    <3>2. Position + n <= MaxPosition
      BY <2>2 DEF Fill
    <3>3. positions' = [i \in 1 .. n |-> Position + i - 1]
      BY <3>1 DEF At
    <3>4. call'.op = "read" /\ call'.n = n
      BY <2>2 DEF Call
    <3>5. Stream!Read(call'.n)
      BY <3>1, <3>2, <3>3, <3>4 DEF Stream!Read
    <3> QED
      BY <3>4, <3>5 DEF Stream!Next
  <2>3. ASSUME NEW p \in Nat, NEW op \in {"jumpTo", "jumpBy"}, NEW x \in Int,
               TypeOK', got' = <<>>, call' = Call(op, x),
               p = (IF op = "jumpTo" THEN x ELSE Position + x),
               Position' = (IF p < MaxPosition THEN p ELSE MaxPosition)
        PROVE  Stream!Next
    <3>1. positions' = <<>>
      BY <2>3
    <3>2. call'.op = op /\ call'.n = x
      BY <2>3 DEF Call
    <3>3. CASE op = "jumpTo"
      <4>1. p = call'.n
        BY <2>3, <3>2, <3>3
      <4>2. Stream!Jump(call'.n)
        BY <2>3, <3>1, <4>1 DEF Stream!Jump
      <4> QED
        BY <3>2, <3>3, <4>2 DEF Stream!Next
    <3>4. CASE op = "jumpBy"
      <4>1. p = Position + call'.n
        BY <2>3, <3>2, <3>4
      <4>2. Stream!Jump(Position + call'.n)
        BY <2>3, <3>1, <4>1 DEF Stream!Jump
      <4> QED
        BY <3>2, <3>4, <4>2 DEF Stream!Next
    <3> QED
      BY <3>3, <3>4
  <2>4. CASE Next
    BY <2>2, <2>3, <2>4, NextCases
  <2>5. CASE UNCHANGED vars
    BY <2>5 DEF vars, Position
  <2> QED
    BY <2>4, <2>5
<1> QED
  BY <1>1, <1>2, TypeCorrectness, PTL DEF Spec, ReadsOneStream, Stream!Spec

\* The same of the whole, in which the reader may also rest.
THEOREM ReaderStreams == PartSpec => ReadsOneStream
<1>1. PartInit => Init
  BY DEF PartInit, ReaderAtRest
<1>2. [PartNext]_<<part, hasherVars, kernelsVars, cliVars, vars>> => [Next]_vars
  BY DEF PartNext
<1>3. PartSpec => Spec
  BY <1>1, <1>2, PTL DEF PartSpec, Spec
<1> QED
  BY <1>3, ReaderIsAStream, PTL

(***************************************************************************)
(* b3sum: texts.                                                           *)
(***************************************************************************)
\* All characters
Chars ==
  STRING \cup {"bs", "nl", "cr", "bad", "fffd", "/", "sp", "n", "r", "BLAKE3", "(", ")", "=",
               "short", "one", "two", "one from there", "two from there"}

\* Steps that stay in a set, one after the other
Steps(n, D, base, step, f) ==
  /\ f \in [0 .. n -> D]
  /\ f[0] = base
  /\ \A m \in 1 .. n : f[m] = step[m][f[m - 1]]

\* A recursive function that goes up from 0 exists.
LEMMA StepByStep ==
  ASSUME NEW D, NEW n \in Nat, NEW base \in D, NEW step,
         \A m \in 1 .. n : \A x \in D : step[m][x] \in D
  PROVE  \E f : Steps(n, D, base, step, f)
<1> DEFINE S == {m \in Nat : m <= n => \E f : Steps(m, D, base, step, f)}
<1>1. 0 \in S
  <2>1. Steps(0, D, base, step, [x \in 0 .. 0 |-> base])
    BY DEF Steps
  <2> QED
    BY <2>1
<1>2. ASSUME NEW m \in Nat, m \in S PROVE m + 1 \in S
  <2> SUFFICES ASSUME m + 1 <= n PROVE \E f : Steps(m + 1, D, base, step, f)
    OBVIOUS
  <2>1. PICK f : Steps(m, D, base, step, f)
    BY <1>2
  <2>2. step[m + 1][f[m]] \in D
    BY <2>1 DEF Steps
  <2> DEFINE g == [x \in 0 .. m + 1 |-> IF x <= m THEN f[x] ELSE step[m + 1][f[m]]]
  <2>3. g \in [0 .. m + 1 -> D]
    BY <2>1, <2>2 DEF Steps
  <2>4. (\A x \in 0 .. m : g[x] = f[x]) /\ g[m + 1] = step[m + 1][f[m]]
    OBVIOUS
  <2>5. Steps(m + 1, D, base, step, g)
    <3> HIDE DEF g
    <3>1. g[0] = base
      BY <2>1, <2>4 DEF Steps
    <3>2. ASSUME NEW x \in 1 .. m + 1 PROVE g[x] = step[x][g[x - 1]]
      <4>1. CASE x <= m
        BY <2>1, <2>4, <4>1 DEF Steps
      <4>2. CASE x = m + 1
        BY <2>4, <4>2
      <4> QED
        BY <4>1, <4>2
    <3> QED
      BY <2>3, <3>1, <3>2 DEF Steps
  <2> QED
    BY <2>5
<1>3. n \in S
  <2> HIDE DEF S
  <2> QED
    BY <1>1, <1>2, Induction
<1> QED
  BY <1>3

\* A text with its special characters escaped
Escaped(t) == Cli!FlattenSeq([i \in DOMAIN t |-> Cli!EscapeChar(t[i])])

\* It comes about character by character.
Escapes(t, pre) ==
  /\ pre \in [0 .. Len(t) -> Seq(Chars)]
  /\ pre[0] = <<>>
  /\ \A i \in 0 .. Len(t) - 1 : pre[i + 1] = pre[i] \o Cli!EscapeChar(t[i + 1])

\* A character is escaped as one or two.
LEMMA EscapeCharIsText ==
  ASSUME NEW c \in Chars
  PROVE  Cli!EscapeChar(c) \in Seq(Chars) /\ Len(Cli!EscapeChar(c)) \in {1, 2}
<1>1. "bs" \in Chars /\ "n" \in Chars /\ "r" \in Chars
  BY DEF Chars
<1> HIDE DEF Chars
<1> QED
  BY <1>1 DEF Cli!EscapeChar

\* An escaped text is made of the escaped characters, one after the other.
LEMMA EscapedGrows ==
  ASSUME NEW t \in Seq(Chars), t # <<>>
  PROVE  \E pre : Escapes(t, pre) /\ pre[Len(t)] = Escaped(t)
<1> DEFINE n == Len(t)
           e == [i \in DOMAIN t |-> Cli!EscapeChar(t[i])]
<1>1. n \in Nat \ {0} /\ DOMAIN t = 1 .. n /\ (\A i \in 1 .. n : t[i] \in Chars) /\ n = Len(t)
  OBVIOUS
<1> HIDE DEF n
<1>2. \A i \in 1 .. n : e[i] = Cli!EscapeChar(t[i]) /\ e[i] \in Seq(Chars)
  BY <1>1, EscapeCharIsText
<1>3. Len(e) = n /\ n # 0
  BY <1>1, <1>2
<1>5. \E p \in [0 .. n -> Seq(Chars)] :
        p[0] = <<>> /\ \A i \in 1 .. n : p[i] = p[i - 1] \o e[i]
  <2> DEFINE D == Seq(Chars)
             base == <<>>
             step == [i \in 1 .. n |-> [x \in D |-> x \o e[i]]]
  <2> HIDE DEF e
  <2>1. base \in D /\ \A i \in 1 .. n, x \in D : x \o e[i] \in D
    BY <1>2
  <2>2. \A i \in 1 .. n, x \in D : step[i][x] = x \o e[i]
    OBVIOUS
  <2> HIDE DEF D, base, step
  <2>3. \A i \in 1 .. n : \A x \in D : step[i][x] \in D
    BY <2>1, <2>2
  <2>4. PICK p : Steps(n, D, base, step, p)
    BY <1>1, <2>1, <2>3, StepByStep
  <2>5. \A i \in 1 .. n : p[i - 1] \in D
    BY <1>1, <2>4 DEF Steps
  <2>6. \A i \in 1 .. n : p[i] = p[i - 1] \o e[i]
    BY <2>2, <2>4, <2>5 DEF Steps
  <2> QED
    BY <2>4, <2>6 DEF D, base, Steps
<1> HIDE DEF e
<1>6. PICK pre \in [0 .. n -> Seq(Chars)] :
        pre[0] = <<>> /\ \A i \in 1 .. n : pre[i] = pre[i - 1] \o e[i]
  BY <1>5
<1>7. Escapes(t, pre)
  <2>1. ASSUME NEW i \in 0 .. n - 1 PROVE pre[i + 1] = pre[i] \o Cli!EscapeChar(t[i + 1])
    <3>1. i + 1 \in 1 .. n /\ (i + 1) - 1 = i
      BY <1>1
    <3> DEFINE x == i + 1
    <3>2. pre[x] = pre[x - 1] \o e[x] /\ e[x] = Cli!EscapeChar(t[x])
      BY <1>2, <1>6, <3>1
    <3> QED
      BY <3>1, <3>2
  <2> QED
    BY <1>1, <1>6, <2>1 DEF Escapes
<1> DEFINE F(f) == [i \in 1 .. n |-> IF i = 1 THEN e[i] ELSE f[i - 1] \o e[i]]
           flat == CHOOSE f : f = F(f)
           known == [i \in 1 .. n |-> pre[i]]
<1>8. known = F(known)
  <2> HIDE DEF e
  <2>1. ASSUME NEW i \in 1 .. n PROVE known[i] = IF i = 1 THEN e[i] ELSE known[i - 1] \o e[i]
    <3>1. known[i] = pre[i - 1] \o e[i]
      BY <1>6
    <3> HIDE DEF known
    <3>2. CASE i = 1
      <4>1. pre[i - 1] = pre[0]
        BY <3>2
      <4>2. pre[0] \o e[i] = e[i]
        BY <1>2, <1>6
      <4> QED
        BY <3>1, <3>2, <4>1, <4>2
    <3>3. CASE i # 1
      <4>1. i - 1 \in 1 .. n /\ known[i - 1] = pre[i - 1]
        BY <1>1, <3>3 DEF known
      <4> QED
        BY <3>1, <3>3, <4>1
    <3> QED
      BY <3>2, <3>3
  <2> QED
    BY <2>1
<1> HIDE DEF flat
<1>9. flat = F(flat)
  <2> HIDE DEF known, F
  <2> USE DEF flat
  <2> QED
    BY <1>8
<1>10. Escaped(t) = flat[n]
  <2> USE DEF flat, e
  <2>1. Escaped(t) = Cli!FlattenSeq(e)
    BY DEF Escaped
  <2> HIDE DEF e
  <2> QED
    BY <1>3, <2>1 DEF Cli!FlattenSeq, F
<1>11. \A i \in 1 .. n : flat[i] = pre[i]
  <2> DEFINE S == {m \in Nat : \A i \in 1 .. n : i <= m => flat[i] = pre[i]}
  <2> HIDE DEF flat, e
  <2>0. ASSUME NEW i \in 1 .. n PROVE flat[i] = IF i = 1 THEN e[i] ELSE flat[i - 1] \o e[i]
    <3>1. flat[i] = F(flat)[i]
      BY <1>9
    <3> QED
      BY <3>1
  <2>1. 0 \in S
    OBVIOUS
  <2>2. ASSUME NEW m \in Nat, m \in S PROVE m + 1 \in S
    <3> SUFFICES ASSUME m + 1 \in 1 .. n PROVE flat[m + 1] = pre[m + 1]
      BY <2>2
    <3>1. CASE m = 0
      <4>1. pre[0] \o e[1] = e[1] /\ pre[1] = pre[0] \o e[1] /\ flat[1] = e[1]
        <5>1. 1 \in 1 .. n /\ e[1] \in Seq(Chars)
          BY <1>1, <1>2
        <5>2. pre[1] = <<>> \o e[1] /\ pre[0] = <<>>
          <6>1. pre[1 - 1] = pre[0]
            OBVIOUS
          <6> QED
            BY <1>6, <5>1, <6>1
        <5>3. flat[1] = e[1]
          BY <2>0, <5>1
        <5> QED
          BY <5>1, <5>2, <5>3
      <4> QED
        BY <3>1, <4>1
    <3>2. CASE m # 0
      <4>1. m \in 1 .. n /\ m + 1 \in 1 .. n /\ m + 1 # 1 /\ (m + 1) - 1 = m
        BY <1>1, <3>2
      <4>2. flat[m + 1] = flat[m] \o e[m + 1]
        BY <2>0, <4>1
      <4>3. pre[m + 1] = pre[m] \o e[m + 1]
        BY <1>6, <4>1
      <4>4. flat[m] = pre[m]
        BY <2>2, <4>1
      <4> QED
        BY <4>2, <4>3, <4>4
    <3> QED
      BY <3>1, <3>2
  <2>3. n \in S
    <3> HIDE DEF S
    <3> QED
      BY <1>1, <2>1, <2>2, Induction
  <2> QED
    BY <1>1, <2>3
<1>12. pre[Len(t)] = Escaped(t)
  <2>1. n \in 1 .. n
    BY <1>1
  <2>2. pre[n] = Escaped(t)
    BY <1>10, <1>11, <2>1
  <2> QED
    BY <1>1, <2>2
<1> QED
  BY <1>7, <1>12

\* What is there of an escaped text stays there.
LEMMA EscapedPrefix ==
  ASSUME NEW t \in Seq(Chars), NEW pre, Escapes(t, pre), NEW k \in 0 .. Len(t)
  PROVE  /\ Len(pre[k]) \in 0 .. Len(pre[Len(t)])
         /\ \A q \in 1 .. Len(pre[k]) : pre[Len(t)][q] = pre[k][q]
<1> DEFINE n == Len(t)
           Starts(m) == Len(pre[k]) \in 0 .. Len(pre[m]) /\ \A q \in 1 .. Len(pre[k]) : pre[m][q] = pre[k][q]
           S == {m \in Nat : k + m <= n => Starts(k + m)}
<1>1. n \in Nat /\ \A m \in 0 .. n : pre[m] \in Seq(Chars) /\ Len(pre[m]) \in Nat
  BY DEF Escapes
<1>2. 0 \in S
  <2>1. k + 0 = k
    OBVIOUS
  <2> QED
    BY <1>1, <2>1
<1>3. ASSUME NEW m \in Nat, m \in S PROVE m + 1 \in S
  <2> SUFFICES ASSUME k + (m + 1) <= n PROVE Starts(k + (m + 1))
    OBVIOUS
  <2> DEFINE x == k + m
  <2>1. x \in 0 .. n - 1 /\ x + 1 \in 1 .. n /\ k + (m + 1) = x + 1
    BY <1>1
  <2>2. Starts(x)
    BY <1>3, <2>1
  <2> HIDE DEF x
  <2>3. t[x + 1] \in Chars
    BY <2>1
  <2> DEFINE e == Cli!EscapeChar(t[x + 1])
  <2>4. e \in Seq(Chars)
    BY <2>3, EscapeCharIsText
  <2>5. pre[x + 1] = pre[x] \o e
    BY <2>1 DEF Escapes
  <2> HIDE DEF e
  <2>6. Len(pre[x + 1]) >= Len(pre[x]) /\ \A q \in 1 .. Len(pre[x]) : pre[x + 1][q] = pre[x][q]
    BY <1>1, <2>1, <2>4, <2>5
  <2>7. Starts(x + 1)
    <3>1. Len(pre[k]) \in Nat /\ Len(pre[x]) \in Nat /\ Len(pre[x + 1]) \in Nat
      BY <1>1, <2>1
    <3> QED
      BY <2>2, <2>6, <3>1
  <2> QED
    BY <2>1, <2>7
<1>4. \A m \in Nat : m \in S
  <2> HIDE DEF S
  <2> QED
    BY <1>2, <1>3, Induction
<1>5. n - k \in Nat /\ k + (n - k) = n
  BY <1>1
<1>6. Starts(k + (n - k))
  <2>1. n - k \in S
    BY <1>4, <1>5
  <2>2. k + (n - k) <= n
    BY <1>1, <1>5
  <2> HIDE DEF Starts
  <2> QED
    BY <2>1, <2>2
<1> QED
  BY <1>5, <1>6

\* The next characters of an escaped text are those of the next character.
LEMMA EscapedNext ==
  ASSUME NEW t \in Seq(Chars), NEW pre, Escapes(t, pre), NEW k \in 0 .. Len(t) - 1
  PROVE  LET path == pre[Len(t)]
             e == Cli!EscapeChar(t[k + 1])
             x == Len(pre[k])
         IN  /\ x \in Nat /\ Len(path) \in Nat
             /\ Len(e) \in {1, 2} /\ e \in Seq(Chars)
             /\ Len(pre[k + 1]) = x + Len(e)
             /\ x + Len(e) <= Len(path)
             /\ path[x + 1] = e[1]
             /\ Len(e) = 2 => path[x + 2] = e[2]
<1> DEFINE path == pre[Len(t)]
           e == Cli!EscapeChar(t[k + 1])
           x == Len(pre[k])
<1>1. k \in 0 .. Len(t) /\ k + 1 \in 0 .. Len(t) /\ Len(t) \in 0 .. Len(t)
      /\ k + 1 \in 1 .. Len(t)
  OBVIOUS
<1>2. pre[k] \in Seq(Chars) /\ path \in Seq(Chars) /\ pre[k + 1] = pre[k] \o e
  BY <1>1 DEF Escapes
<1>3. e \in Seq(Chars) /\ Len(e) \in {1, 2}
  BY <1>1, EscapeCharIsText
<1>4. /\ Len(pre[k + 1]) \in 0 .. Len(path)
      /\ \A q \in 1 .. Len(pre[k + 1]) : path[q] = pre[k + 1][q]
  BY <1>1, EscapedPrefix
<1> HIDE DEF e, path
<1>5. Len(pre[k + 1]) = x + Len(e) /\ pre[k + 1][x + 1] = e[1]
      /\ (Len(e) = 2 => pre[k + 1][x + 2] = e[2])
  BY <1>2, <1>3
<1>6. x \in Nat /\ Len(path) \in Nat
  BY <1>2
<1>7. path[x + 1] = e[1] /\ (Len(e) = 2 => path[x + 2] = e[2])
  <2> HIDE DEF x
  <2>1. x + 1 \in 1 .. Len(pre[k + 1]) /\ (Len(e) = 2 => x + 2 \in 1 .. Len(pre[k + 1]))
    BY <1>3, <1>5, <1>6
  <2> QED
    BY <1>4, <1>5, <2>1
<1>8. x + Len(e) <= Len(path)
  BY <1>4, <1>5, <1>6
<1> QED
  BY <1>3, <1>5, <1>6, <1>7, <1>8 DEF e, path

\* What unescape makes of a text from a place on
Meant == [c \in {"n", "r", "bs"} |-> IF c = "n" THEN "nl" ELSE IF c = "r" THEN "cr" ELSE "bs"]

UnescapedFrom(path, f, i) ==
  IF i = Len(path) + 1 THEN [ok |-> TRUE, text |-> <<>>]
  ELSE IF path[i] # "bs" THEN [f[i + 1] EXCEPT !.text = <<path[i]>> \o @]
  ELSE IF i = Len(path) \/ path[i + 1] \notin DOMAIN Meant THEN [ok |-> FALSE, text |-> <<>>]
  ELSE [f[i + 2] EXCEPT !.text = <<Meant[path[i + 1]]>> \o @]

Unescaped(path, f, low) == [i \in low .. Len(path) + 1 |-> UnescapedFrom(path, f, i)]

\* unescape goes down from the end of the path, and ends.
LEMMA UnescapedExists ==
  ASSUME NEW path \in Seq(Chars)
  PROVE  \E f : f = Unescaped(path, f, 1)
<1> DEFINE n == Len(path)
           S == {m \in Nat : m <= n => \E f : f = Unescaped(path, f, n + 1 - m)}
<1>1. n \in Nat /\ n = Len(path)
  OBVIOUS
<1> HIDE DEF n
<1>2. 0 \in S
  <2> DEFINE f == [i \in n + 1 .. n + 1 |-> [ok |-> TRUE, text |-> <<>>]]
  <2>1. f = Unescaped(path, f, n + 1)
    BY <1>1 DEF Unescaped, UnescapedFrom
  <2>2. n + 1 - 0 = n + 1
    BY <1>1
  <2> HIDE DEF f
  <2> QED
    BY <2>1, <2>2
<1>3. ASSUME NEW m \in Nat, m \in S PROVE m + 1 \in S
  <2> SUFFICES ASSUME m + 1 <= n PROVE \E g : g = Unescaped(path, g, n + 1 - (m + 1))
    OBVIOUS
  <2> DEFINE low == n - m
  <2>1. low \in 1 .. n /\ n + 1 - m = low + 1 /\ n + 1 - (m + 1) = low
    BY <1>1
  <2> HIDE DEF low
  <2>2. PICK f : f = Unescaped(path, f, low + 1)
    BY <1>1, <1>3, <2>1
  <2> DEFINE g == [i \in low .. n + 1 |-> IF i > low THEN f[i] ELSE UnescapedFrom(path, f, i)]
  <2>3. \A i \in low + 1 .. n + 1 : g[i] = f[i]
    BY <1>1, <2>1
  <2>4. ASSUME NEW i \in low .. n + 1 PROVE g[i] = UnescapedFrom(path, g, i)
    <3>1. g[i] = UnescapedFrom(path, f, i)
      <4>1. CASE i > low
        <5>1. i \in low + 1 .. Len(path) + 1 /\ g[i] = f[i]
          BY <1>1, <2>1, <4>1
        <5>2. f[i] = Unescaped(path, f, low + 1)[i]
          BY <2>2
        <5> QED
          BY <5>1, <5>2 DEF Unescaped
      <4>2. CASE i = low
        BY <1>1, <2>1, <4>2
      <4> QED
        BY <2>1, <4>1, <4>2
    <3>2. i # n + 1 => g[i + 1] = f[i + 1]
      <4>1. i # n + 1 => i + 1 \in low + 1 .. n + 1
        BY <1>1, <2>1
      <4> QED
        BY <2>3, <4>1
    <3>3. i # n + 1 /\ i # n => g[i + 2] = f[i + 2]
      <4>1. i # n + 1 /\ i # n => i + 2 \in low + 1 .. n + 1
        BY <1>1, <2>1
      <4> QED
        BY <2>3, <4>1
    <3> HIDE DEF g
    <3> QED
      BY <1>1, <3>1, <3>2, <3>3 DEF UnescapedFrom
  <2>5. g = [i \in low .. n + 1 |-> g[i]]
    OBVIOUS
  <2> HIDE DEF g
  <2>6. g = Unescaped(path, g, low)
    BY <1>1, <2>4, <2>5 DEF Unescaped
  <2> QED
    BY <2>1, <2>6
<1>4. n \in S
  <2> HIDE DEF S
  <2> QED
    BY <1>1, <1>2, <1>3, Induction
<1>5. n + 1 - n = 1
  BY <1>1
<1> QED
  BY <1>1, <1>4, <1>5

\* unescape gives back the text that was escaped.
LEMMA UnescapeUndoes ==
  ASSUME NEW t \in Seq(Chars), t # <<>>
  PROVE  Cli!unescape(Escaped(t)) = t
<1> DEFINE n == Len(t)
<1>1. PICK pre : Escapes(t, pre) /\ pre[n] = Escaped(t)
  BY EscapedGrows
<1>2. n \in Nat /\ pre[n] \in Seq(Chars)
  BY <1>1 DEF Escapes
<1> DEFINE path == Escaped(t)
           f == CHOOSE g : g = Unescaped(path, g, 1)
<1>3. f = Unescaped(path, f, 1)
  BY <1>1, <1>2, UnescapedExists
<1>4. Cli!unescape(path) = IF f[1].ok THEN f[1].text ELSE <<>>
  BY DEF Cli!unescape, Unescaped, UnescapedFrom, Meant
<1> HIDE DEF f, path
<1>5. path \in Seq(Chars) /\ path = pre[n] /\ Len(path) \in Nat
  BY <1>1, <1>2 DEF path
<1>6. \A i \in 1 .. Len(path) + 1 : f[i] = UnescapedFrom(path, f, i)
  <2> SUFFICES ASSUME NEW i \in 1 .. Len(path) + 1 PROVE f[i] = UnescapedFrom(path, f, i)
    OBVIOUS
  <2>1. f[i] = Unescaped(path, f, 1)[i]
    BY <1>3
  <2> QED
    BY <2>1 DEF Unescaped
<1> DEFINE Right(k) == f[Len(pre[k]) + 1] = [ok |-> TRUE, text |-> SubSeq(t, k + 1, n)]
           S == {m \in Nat : m <= n => Right(n - m)}
<1>7. 0 \in S
  <2>1. n - 0 = n /\ SubSeq(t, n + 1, n) = <<>>
    BY <1>2
  <2>2. f[Len(path) + 1] = [ok |-> TRUE, text |-> <<>>]
    <3>1. Len(path) + 1 \in 1 .. Len(path) + 1
      BY <1>5
    <3> QED
      BY <1>6, <3>1 DEF UnescapedFrom
  <2> QED
    BY <1>5, <2>1, <2>2
<1>8. ASSUME NEW m \in Nat, m \in S PROVE m + 1 \in S
  <2> SUFFICES ASSUME m + 1 <= n PROVE Right(n - (m + 1))
    <3> HIDE DEF Right
    <3> QED
      OBVIOUS
  <2> DEFINE k == n - (m + 1)
             x == Len(pre[k])
             e == Cli!EscapeChar(t[k + 1])
  <2>1. k \in 0 .. n - 1 /\ k + 1 = n - m
    BY <1>2
  <2>2. Right(k + 1)
    BY <1>8, <2>1
  <2> HIDE DEF k
  <2>3. /\ x \in Nat /\ Len(e) \in {1, 2} /\ e \in Seq(Chars)
        /\ Len(pre[k + 1]) = x + Len(e)
        /\ x + Len(e) <= Len(path)
        /\ path[x + 1] = e[1]
        /\ Len(e) = 2 => path[x + 2] = e[2]
    <3>1. path = pre[Len(t)]
      BY <1>5
    <3> HIDE DEF n
    <3>2. k \in 0 .. Len(t) - 1
      BY <2>1 DEF n
    <3> QED
      BY <1>1, <3>1, <3>2, EscapedNext
  <2>4. t[k + 1] \in Chars /\ SubSeq(t, k + 1, n) = <<t[k + 1]>> \o SubSeq(t, k + 2, n)
    BY <1>2, <2>1
  <2> DEFINE rest == SubSeq(t, k + 2, n)
             c == t[k + 1]
  <2>5. f[x + Len(e) + 1] = [ok |-> TRUE, text |-> rest]
    <3>1. (k + 1) + 1 = k + 2
      BY <2>1
    <3> QED
      BY <2>2, <2>3, <3>1
  <2>6. f[x + 1] = UnescapedFrom(path, f, x + 1) /\ x + 1 # Len(path) + 1
    <3> HIDE DEF x, e
    <3>1. x + 1 \in 1 .. Len(path) + 1 /\ x + 1 # Len(path) + 1
      BY <1>5, <2>3
    <3> QED
      BY <1>6, <3>1
  <2>7. (c \notin {"bs", "nl", "cr"} => e = <<c>>)
        /\ (c = "bs" => e = <<"bs", "bs">>) /\ (c = "nl" => e = <<"bs", "n">>)
        /\ (c = "cr" => e = <<"bs", "r">>)
    BY DEF Cli!EscapeChar
  <2> HIDE DEF x, e, rest, c
  <2>8. f[x + 1] = [ok |-> TRUE, text |-> <<c>> \o rest]
    <3>1. CASE c \notin {"bs", "nl", "cr"}
      <4>1. Len(e) = 1 /\ e[1] = c
        BY <2>7, <3>1
      <4>2. path[x + 1] = c /\ c # "bs" /\ f[x + 1 + 1] = [ok |-> TRUE, text |-> rest]
        BY <2>3, <2>5, <3>1, <4>1
      <4>3. f[x + 1] = [[ok |-> TRUE, text |-> rest] EXCEPT !.text = <<c>> \o @]
        BY <2>6, <4>2 DEF UnescapedFrom
      <4> QED
        BY <4>3
    <3>2. CASE c \in {"bs", "nl", "cr"}
      <4>1. Len(e) = 2 /\ e[1] = "bs" /\ e[2] \in DOMAIN Meant /\ Meant[e[2]] = c
        BY <2>7, <3>2 DEF Meant
      <4>2. path[x + 1] = "bs" /\ path[x + 1 + 1] = e[2] /\ f[x + 1 + 2] = [ok |-> TRUE, text |-> rest]
        <5>1. x + 1 + 1 = x + 2 /\ x + 2 + 1 = x + 1 + 2
          BY <2>3
        <5> QED
          BY <2>3, <2>5, <4>1, <5>1
      <4>3. x + 1 # Len(path)
        BY <1>5, <2>3, <4>1
      <4>4. f[x + 1] = [[ok |-> TRUE, text |-> rest] EXCEPT !.text = <<c>> \o @]
        BY <2>6, <4>1, <4>2, <4>3 DEF UnescapedFrom
      <4> QED
        BY <4>4
    <3> QED
      BY <3>1, <3>2
  <2> QED
    BY <2>4, <2>8 DEF k, x, rest, c
<1>9. n \in S
  <2> HIDE DEF S
  <2> QED
    BY <1>2, <1>7, <1>8, Induction
<1>10. n - n = 0 /\ 0 + 1 = 1 /\ SubSeq(t, 1, n) = t
  BY <1>2
<1>11. Len(pre[0]) + 1 = 1
  BY <1>1 DEF Escapes
<1>12. f[1] = [ok |-> TRUE, text |-> t]
  <2>1. Right(0)
    <3> HIDE DEF Right
    <3> QED
      BY <1>2, <1>9, <1>10
  <2> QED
    BY <1>10, <1>11, <2>1
<1> QED
  BY <1>4, <1>12 DEF path

\* The characters the program looks for
LEMMA CharsAreThere ==
  {"bs", "nl", "cr", "bad", "fffd", "/", "sp", "n", "r", "BLAKE3", "(", ")", "=",
   "short", "one", "two", "one from there", "two from there"} \subseteq Chars
BY DEF Chars

\* An escaped text has no end of a line in it.
LEMMA EscapedHasNoBreak ==
  ASSUME NEW t \in Seq(Chars), t # <<>>
  PROVE  Escaped(t) \in Seq(Chars) /\ ~Cli!Has(Escaped(t), {"nl", "cr"})
<1> DEFINE n == Len(t)
<1>1. PICK pre : Escapes(t, pre) /\ pre[n] = Escaped(t)
  BY EscapedGrows
<1>2. n \in Nat /\ \A k \in 0 .. n : pre[k] \in Seq(Chars)
  BY <1>1 DEF Escapes
<1> DEFINE Clean(k) == \A q \in 1 .. Len(pre[k]) : pre[k][q] \notin {"nl", "cr"}
           S == {k \in Nat : k <= n => Clean(k)}
<1>3. 0 \in S
  BY <1>1 DEF Escapes
<1>4. ASSUME NEW k \in Nat, k \in S PROVE k + 1 \in S
  <2> SUFFICES ASSUME k + 1 <= n PROVE Clean(k + 1)
    OBVIOUS
  <2> DEFINE e == Cli!EscapeChar(t[k + 1])
  <2>1. t[k + 1] \in Chars
    BY <1>2
  <2>2. e \in Seq(Chars) /\ \A q \in 1 .. Len(e) : e[q] \notin {"nl", "cr"}
    BY <2>1, EscapeCharIsText DEF Cli!EscapeChar
  <2>3. pre[k + 1] = pre[k] \o e /\ pre[k] \in Seq(Chars)
    <3>1. k \in 0 .. Len(t) - 1 /\ k \in 0 .. n
      BY <1>2
    <3>2. pre[k + 1] = pre[k] \o Cli!EscapeChar(t[k + 1])
      BY <1>1, <3>1 DEF Escapes
    <3> QED
      BY <1>2, <3>1, <3>2
  <2> HIDE DEF e
  <2>4. Clean(k)
    BY <1>4, <1>2
  <2> QED
    BY <2>2, <2>3, <2>4
<1>5. Clean(n)
  <2>1. n \in S
    <3> HIDE DEF S
    <3> QED
      BY <1>2, <1>3, <1>4, Induction
  <2> HIDE DEF Clean
  <2> QED
    BY <1>2, <2>1
<1>6. Escaped(t) \in Seq(Chars) /\ \A q \in 1 .. Len(Escaped(t)) : Escaped(t)[q] \notin {"nl", "cr"}
  BY <1>1, <1>2, <1>5
<1> HIDE DEF n
<1> QED
  BY <1>6 DEF Cli!Has

\* Two spaces of an escaped text are two of the text.
DoubleSpace(s) == \E i \in 1 .. Len(s) - 1 : s[i] = "sp" /\ s[i + 1] = "sp"

\* No two spaces come together by escaping.
LEMMA EscapedDoubleSpace ==
  ASSUME NEW t \in Seq(Chars), t # <<>>, DoubleSpace(Escaped(t))
  PROVE  DoubleSpace(t)
<1> DEFINE n == Len(t)
<1>1. PICK pre : Escapes(t, pre) /\ pre[n] = Escaped(t)
  BY EscapedGrows
<1>2. n \in Nat /\ \A k \in 0 .. n : pre[k] \in Seq(Chars)
  BY <1>1 DEF Escapes
<1> DEFINE Doubled(k) == \E i \in 1 .. k - 1 : t[i] = "sp" /\ t[i + 1] = "sp"
           Ends(k) == Len(pre[k]) > 0 /\ pre[k][Len(pre[k])] = "sp" => k > 0 /\ t[k] = "sp"
           S == {k \in Nat : k <= n => Ends(k) /\ (DoubleSpace(pre[k]) => Doubled(k))}
<1>3. 0 \in S
  <2>1. pre[0] = <<>> /\ Len(pre[0]) = 0
    BY <1>1 DEF Escapes
  <2>2. ~DoubleSpace(pre[0])
    BY <2>1 DEF DoubleSpace
  <2> QED
    BY <2>1, <2>2
<1>4. ASSUME NEW k \in Nat, k \in S PROVE k + 1 \in S
  <2> SUFFICES ASSUME k + 1 <= n PROVE Ends(k + 1)
      /\ (DoubleSpace(pre[k + 1]) => Doubled(k + 1))
    OBVIOUS
  <2> DEFINE e == Cli!EscapeChar(t[k + 1])
             p == pre[k]
             next == pre[k + 1]
  <2>1. t[k + 1] \in Chars
    BY <1>2
  <2>2. e \in Seq(Chars) /\ Len(e) \in {1, 2}
    BY <2>1, EscapeCharIsText
  <2>3. (Len(e) = 2 => e[1] # "sp" /\ e[2] # "sp") /\ (Len(e) = 1
        /\ e[1] = "sp" => t[k + 1] = "sp")
    BY DEF Cli!EscapeChar
  <2>4. next = p \o e /\ p \in Seq(Chars)
    <3>1. k \in 0 .. Len(t) - 1 /\ k \in 0 .. n
      BY <1>2
    <3>2. pre[k + 1] = pre[k] \o Cli!EscapeChar(t[k + 1])
      BY <1>1, <3>1 DEF Escapes
    <3> QED
      BY <1>2, <3>1, <3>2
  <2>5. Ends(k) /\ (DoubleSpace(p) => Doubled(k))
    BY <1>4, <1>2
  <2>50. Len(p) > 0 /\ p[Len(p)] = "sp" => k > 0 /\ t[k] = "sp"
    BY <2>5
  <2> HIDE DEF e, p, next
  <2>6. /\ Len(next) = Len(p) + Len(e)
        /\ \A q \in 1 .. Len(p) : next[q] = p[q]
        /\ \A q \in 1 .. Len(e) : next[Len(p) + q] = e[q]
    BY <2>2, <2>4
  <2>7. Len(p) \in Nat
    BY <2>4
  <2>8. next[Len(next)] = "sp" => t[k + 1] = "sp"
    <3>2. CASE Len(e) = 1
      <4>1. 1 \in 1 .. Len(e) /\ Len(next) = Len(p) + 1
        BY <2>6, <3>2
      <4>2. next[Len(p) + 1] = e[1]
        BY <2>6, <4>1
      <4> QED
        BY <2>3, <3>2, <4>1, <4>2
    <3>3. CASE Len(e) = 2
      <4>1. 2 \in 1 .. Len(e) /\ Len(next) = Len(p) + 2
        BY <2>6, <3>3
      <4>2. next[Len(p) + 2] = e[2]
        BY <2>6, <4>1
      <4> QED
        BY <2>3, <3>3, <4>1, <4>2
    <3> QED
      BY <2>2, <3>2, <3>3
  <2>9. ASSUME DoubleSpace(next) PROVE Doubled(k + 1)
    <3>1. PICK i \in 1 .. Len(next) - 1 : next[i] = "sp" /\ next[i + 1] = "sp"
      BY <2>9 DEF DoubleSpace
    <3>2. CASE i < Len(p)
      <4>1. i \in 1 .. Len(p) - 1 /\ p[i] = "sp" /\ p[i + 1] = "sp"
        BY <2>6, <2>7, <3>1, <3>2
      <4>2. DoubleSpace(p)
        BY <4>1 DEF DoubleSpace
      <4> QED
        BY <2>5, <4>2
    <3>3. CASE i = Len(p)
      <4>1. p[Len(p)] = "sp" /\ Len(p) > 0
        BY <2>6, <2>7, <3>1, <3>3
      <4>2. next[Len(p) + 1] = e[1]
        BY <2>2, <2>6
      <4>3. e[1] = "sp"
        BY <3>1, <3>3, <4>2
      <4>4. t[k + 1] = "sp"
        BY <2>2, <2>3, <4>3
      <4>5. k > 0 /\ t[k] = "sp"
        BY <2>50, <4>1
      <4>6. k \in 1 .. (k + 1) - 1
        BY <4>5
      <4> QED
        BY <4>4, <4>5, <4>6
    <3>4. CASE i > Len(p)
      <4>1. Len(e) = 2 /\ i = Len(p) + 1
        <5>1. i <= Len(p) + Len(e) - 1 /\ i \in Int
          BY <2>2, <2>6, <2>7, <3>1
        <5>2. CASE Len(e) = 1
          BY <2>7, <3>4, <5>1, <5>2
        <5>3. CASE Len(e) = 2
          BY <2>7, <3>4, <5>1, <5>3
        <5> QED
          BY <2>2, <5>2, <5>3
      <4>2. next[Len(p) + 1] = e[1]
        BY <2>2, <2>6
      <4> QED
        BY <2>3, <3>1, <4>1, <4>2
    <3> QED
      BY <2>7, <3>2, <3>3, <3>4
  <2> QED
    BY <2>8, <2>9 DEF next
<1>5. DoubleSpace(pre[n]) => Doubled(n)
  <2>1. n \in S
    <3> HIDE DEF S
    <3> QED
      BY <1>2, <1>3, <1>4, Induction
  <2> HIDE DEF Doubled, Ends
  <2> QED
    BY <1>2, <2>1
<1> QED
  BY <1>1, <1>5 DEF DoubleSpace

(***************************************************************************)
(* Names.                                                                  *)
(***************************************************************************)

\* A name
NameOK(name) == name \in Seq(Chars) /\ name # <<>>

\* Names of files are texts of at least one character.
LEMMA NamesAreTexts ==
  ASSUME Cli!NamesAssumption
  PROVE  \A name \in Names : NameOK(name)
<1> SUFFICES ASSUME NEW name \in Names PROVE NameOK(name)
  OBVIOUS
<1>1. name \in Seq(STRING) /\ name # <<>>
  BY DEF Cli!NamesAssumption
<1>2. STRING \subseteq Chars
  BY DEF Chars
<1>3. name \in Seq(Chars)
  BY <1>1, <1>2, SeqMonotonic
<1> QED
  BY <1>1, <1>3 DEF NameOK

\* A replacement goes character by character.
LEMMA ReplacedIsText ==
  ASSUME NEW s \in Seq(Chars), NEW old, NEW new \in Chars
  PROVE  /\ Cli!Replaced(s, old, new) \in Seq(Chars)
         /\ Len(Cli!Replaced(s, old, new)) = Len(s)
         /\ \A i \in 1 .. Len(s) : Cli!Replaced(s, old, new)[i] = IF s[i] = old THEN new ELSE s[i]
<1>1. Cli!Replaced(s, old, new) = [i \in 1 .. Len(s) |-> IF s[i] = old THEN new ELSE s[i]]
  BY DEF Cli!Replaced
<1>2. \A i \in 1 .. Len(s) : (IF s[i] = old THEN new ELSE s[i]) \in Chars
  OBVIOUS
<1>3. Len(s) \in Nat
  OBVIOUS
<1>4. [i \in 1 .. Len(s) |-> IF s[i] = old THEN new ELSE s[i]] \in Seq(Chars)
  BY <1>2, <1>3
<1> QED
  BY <1>1, <1>3, <1>4

\* What a line says the name is
Text(name) == Cli!FileOf(Cli!Lossy(name))

\* The name in a line is the name of the same file, if a check accepts it.
LEMMA TextIsText ==
  ASSUME NEW name, NameOK(name)
  PROVE  /\ Text(name) \in Seq(Chars) /\ Text(name) # <<>>
         /\ ~Cli!Has(Text(name), {"fffd"}) => Text(name) = Cli!FileOf(name)
         /\ Cli!check_for_invalid_characters(Text(name)) => Cli!FileOf(Text(name)) = Cli!FileOf(name)
         /\ ~Cli!Has(name, {"bad", "fffd"}) => Cli!check_for_invalid_characters(Text(name))
         /\ DoubleSpace(Text(name)) => DoubleSpace(name)
<1> DEFINE lossy == Cli!Lossy(name)
           t == Text(name)
           n == Len(name)
<1>1. name \in Seq(Chars) /\ n \in Nat /\ n # 0
  BY DEF NameOK
<1>2. lossy \in Seq(Chars) /\ Len(lossy) = n
      /\ \A i \in 1 .. n : lossy[i] = IF name[i] = "bad" THEN "fffd" ELSE name[i]
  <2>1. "fffd" \in Chars /\ lossy = Cli!Replaced(name, "bad", "fffd")
    BY CharsAreThere DEF Cli!Lossy
  <2> HIDE DEF lossy
  <2> QED
    BY <1>1, <2>1, ReplacedIsText
<1> HIDE DEF lossy
<1>3. t \in Seq(Chars) /\ Len(t) = n
      /\ \A i \in 1 .. n : t[i] = IF windows /\ lossy[i] = "bs" THEN "/" ELSE lossy[i]
  <2>1. CASE windows
    <3>1. t = Cli!Replaced(lossy, "bs", "/")
      BY <2>1 DEF Text, Cli!FileOf, lossy
    <3> HIDE DEF t
    <3>2. "/" \in Chars
      BY CharsAreThere
    <3> QED
      BY <1>2, <2>1, <3>1, <3>2, ReplacedIsText
  <2>2. CASE ~windows
    <3>1. t = lossy
      BY <2>2 DEF Text, Cli!FileOf, lossy
    <3> HIDE DEF t
    <3> QED
      BY <1>2, <2>2, <3>1
  <2> QED
    BY <2>1, <2>2
<1>4. DOMAIN t = 1 .. n /\ DOMAIN name = 1 .. n
  BY <1>1, <1>3
<1> HIDE DEF t
<1>5. ASSUME ~Cli!Has(t, {"fffd"}) PROVE t = Cli!FileOf(name)
  <2>1. \A i \in 1 .. n : t[i] # "fffd"
    BY <1>4, <1>5 DEF Cli!Has
  <2>2. \A i \in 1 .. n : lossy[i] = name[i]
    BY <1>2, <1>3, <2>1
  <2>3. lossy = name
    BY <1>1, <1>2, <2>2
  <2> QED
    BY <2>3 DEF Text, t, lossy
<1>6. ASSUME Cli!check_for_invalid_characters(t) PROVE Cli!FileOf(t) = Cli!FileOf(name)
  <2>1. ~Cli!Has(t, {"fffd"}) /\ (windows => \A i \in 1 .. n : t[i] # "bs")
    BY <1>4, <1>6 DEF Cli!check_for_invalid_characters, Cli!Has
  <2>2. t = Cli!FileOf(name)
    BY <1>5, <2>1
  <2>3. Cli!FileOf(t) = t
    <3>1. CASE windows
      <4>1. Cli!FileOf(t) = Cli!Replaced(t, "bs", "/")
        BY <3>1 DEF Cli!FileOf
      <4>2. Cli!Replaced(t, "bs", "/") = [i \in 1 .. n |-> t[i]]
        BY <1>4, <2>1, <3>1 DEF Cli!Replaced
      <4> QED
        BY <1>3, <4>1, <4>2
    <3>2. CASE ~windows
      BY <3>2 DEF Cli!FileOf
    <3> QED
      BY <3>1, <3>2
  <2> QED
    BY <2>2, <2>3
<1>7. ASSUME ~Cli!Has(name, {"bad", "fffd"}) PROVE Cli!check_for_invalid_characters(t)
  <2>1. \A i \in 1 .. n : name[i] # "bad" /\ name[i] # "fffd"
    BY <1>4, <1>7 DEF Cli!Has
  <2>2. \A i \in 1 .. n : t[i] # "fffd" /\ (windows => t[i] # "bs")
    BY <1>2, <1>3, <2>1
  <2> QED
    BY <1>4, <2>2 DEF Cli!check_for_invalid_characters, Cli!Has
<1>8. DoubleSpace(t) => DoubleSpace(name)
  <2> SUFFICES ASSUME NEW i \in 1 .. n - 1, t[i] = "sp", t[i + 1] = "sp"
               PROVE  name[i] = "sp" /\ name[i + 1] = "sp"
    BY <1>3 DEF DoubleSpace
  <2>1. i \in 1 .. n /\ i + 1 \in 1 .. n
    BY <1>1
  <2>2. \A x \in 1 .. n : t[x] = "sp" => name[x] = "sp"
    BY <1>2, <1>3
  <2> QED
    BY <2>1, <2>2
<1> QED
  BY <1>1, <1>3, <1>5, <1>6, <1>7, <1>8 DEF t

\* The path in a line, and what is read back from it
LEMMA PathReadsBack ==
  ASSUME NEW name, NameOK(name)
  PROVE  LET path == Cli!filepath_to_string(name)
         IN  /\ path.text \in Seq(Chars)
             /\ ~Cli!Has(path.text, {"nl", "cr"})
             /\ path.escaped \in BOOLEAN
             /\ (IF path.escaped THEN Cli!unescape(path.text) ELSE path.text) = Text(name)
             /\ DoubleSpace(path.text) => DoubleSpace(name)
<1> DEFINE t == Text(name)
           path == Cli!filepath_to_string(name)
           escaped == Cli!Has(t, {"bs", "nl", "cr"})
<1>1. t \in Seq(Chars) /\ t # <<>> /\ (DoubleSpace(t) => DoubleSpace(name))
  BY TextIsText
<1>2. path.escaped = escaped /\ path.text = IF escaped THEN Escaped(t) ELSE t
  BY DEF Cli!filepath_to_string, Text, Escaped
<1>3. escaped \in BOOLEAN
  BY DEF Cli!Has
<1>4. CASE escaped
  <2>1. Escaped(t) \in Seq(Chars) /\ ~Cli!Has(Escaped(t), {"nl", "cr"})
        /\ Cli!unescape(Escaped(t)) = t
    BY <1>1, EscapedHasNoBreak, UnescapeUndoes
  <2>2. DoubleSpace(Escaped(t)) => DoubleSpace(name)
    BY <1>1, EscapedDoubleSpace
  <2> HIDE DEF t, path, escaped
  <2> QED
    BY <1>2, <1>3, <1>4, <2>1, <2>2 DEF path, t
<1>5. CASE ~escaped
  <2>1. ~Cli!Has(t, {"nl", "cr"})
    BY <1>5 DEF Cli!Has
  <2> HIDE DEF t, path, escaped
  <2> QED
    BY <1>1, <1>2, <1>3, <1>5, <2>1 DEF path, t
<1> QED
  BY <1>4, <1>5

(***************************************************************************)
(* Sequences.                                                              *)
(***************************************************************************)

\* A sequence is known by its length and its elements: of one,
LEMMA IsSingle ==
  ASSUME NEW S, NEW s \in Seq(S), NEW x \in S
  PROVE  s = <<x>> <=> Len(s) = 1 /\ s[1] = x
OBVIOUS

\* of two,
LEMMA IsPair ==
  ASSUME NEW S, NEW s \in Seq(S), NEW x \in S, NEW y \in S
  PROVE  s = <<x, y>> <=> Len(s) = 2 /\ s[1] = x /\ s[2] = y
OBVIOUS

\* of four.
LEMMA IsQuad ==
  ASSUME NEW S, NEW s \in Seq(S), NEW x \in S, NEW y \in S, NEW z \in S, NEW w \in S
  PROVE  s = <<x, y, z, w>> <=> Len(s) = 4 /\ s[1] = x /\ s[2] = y /\ s[3] = z /\ s[4] = w
OBVIOUS

\* Sequences given by their elements: one,
LEMMA SingleIs ==
  ASSUME NEW S, NEW x \in S
  PROVE  <<x>> \in Seq(S) /\ Len(<<x>>) = 1 /\ <<x>>[1] = x
OBVIOUS

\* two,
LEMMA SeqOfTwo ==
  ASSUME NEW S, NEW x \in S, NEW y \in S
  PROVE  <<x, y>> \in Seq(S) /\ Len(<<x, y>>) = 2 /\ <<x, y>>[1] = x /\ <<x, y>>[2] = y
OBVIOUS

\* three,
LEMMA TripleIs ==
  ASSUME NEW S, NEW x \in S, NEW y \in S, NEW z \in S
  PROVE  /\ <<x, y, z>> \in Seq(S) /\ Len(<<x, y, z>>) = 3
         /\ <<x, y, z>>[1] = x /\ <<x, y, z>>[2] = y /\ <<x, y, z>>[3] = z
OBVIOUS

\* four.
LEMMA QuadIs ==
  ASSUME NEW S, NEW x \in S, NEW y \in S, NEW z \in S, NEW w \in S
  PROVE  /\ <<x, y, z, w>> \in Seq(S) /\ Len(<<x, y, z, w>>) = 4
         /\ <<x, y, z, w>>[1] = x /\ <<x, y, z, w>>[2] = y
         /\ <<x, y, z, w>>[3] = z /\ <<x, y, z, w>>[4] = w
OBVIOUS

\* Min and Max are the least and the greatest.
LEMMA Least ==
  ASSUME NEW S \in SUBSET Nat, NEW x \in S, \A y \in S : x <= y
  PROVE  Cli!Min(S) = x
<1>1. \A z \in S : (\A y \in S : z <= y) => z = x
  OBVIOUS
<1>2. Cli!Min(S) \in S /\ \A y \in S : Cli!Min(S) <= y
  BY DEF Cli!Min
<1> QED
  BY <1>1, <1>2

\* A member that none exceeds is the greatest.
LEMMA Greatest ==
  ASSUME NEW S \in SUBSET Nat, NEW x \in S, \A y \in S : y <= x
  PROVE  Cli!Max(S) = x
<1>1. \A z \in S : (\A y \in S : z >= y) => z = x
  OBVIOUS
<1>2. Cli!Max(S) \in S /\ \A y \in S : Cli!Max(S) >= y
  BY DEF Cli!Max
<1> QED
  BY <1>1, <1>2

(***************************************************************************)
(* Where the marks of a line are.                                          *)
(***************************************************************************)

\* Where two spaces are.
LEMMA UntaggedPlaces ==
  ASSUME NEW s \in Seq(Chars)
  PROVE  Cli!Places(s, Cli!Untagged) = {i \in 1 .. Len(s) - 1 : s[i] = "sp" /\ s[i + 1] = "sp"}
<1> DEFINE mark == Cli!Untagged
<1>1. Len(mark) = 2 /\ mark = <<"sp", "sp">> /\ "sp" \in Chars
  BY CharsAreThere DEF Cli!Untagged
<1>2. ASSUME NEW i \in 1 .. Len(s) - 1
      PROVE  SubSeq(s, i, i + 1) = mark <=> s[i] = "sp" /\ s[i + 1] = "sp"
  <2> DEFINE u == SubSeq(s, i, i + 1)
  <2>1. i \in Nat /\ i + 1 \in Nat /\ 1 <= i /\ i <= i + 1 + 1 /\ i + 1 <= Len(s)
    OBVIOUS
  <2>2. u \in Seq(Chars) /\ Len(u) = 2 /\ u[1] = s[i] /\ u[2] = s[i + 1]
    <3>1. i + 1 - i + 1 = 2 /\ i + 1 - 1 = i /\ i + 2 - 1 = i + 1
      OBVIOUS
    <3>2. u \in Seq(Chars) /\ Len(u) = 2 /\ \A x \in 1 .. 2 : u[x] = s[i + x - 1]
      BY <2>1, <3>1, Part
    <3> HIDE DEF u
    <3> QED
      BY <3>1, <3>2
  <2> HIDE DEF u
  <2>3. u = <<"sp", "sp">> <=> s[i] = "sp" /\ s[i + 1] = "sp"
    BY <1>1, <2>2, IsPair
  <2> QED
    BY <1>1, <2>3 DEF u
<1>3. Len(s) - Len(mark) + 1 = Len(s) - 1 /\ \A i \in 1 .. Len(s) - 1 : i + Len(mark) - 1 = i + 1
  BY <1>1
<1> HIDE DEF mark
<1>4. {i \in 1 .. Len(s) - Len(mark) + 1 : SubSeq(s, i, i + Len(mark) - 1) = mark}
        = {i \in 1 .. Len(s) - 1 : s[i] = "sp" /\ s[i + 1] = "sp"}
  BY <1>2, <1>3
<1> QED
  BY <1>4 DEF Cli!Places, mark

\* Where lines end.
LEMMA BreakPlaces ==
  ASSUME NEW s \in Seq(Chars)
  PROVE  Cli!Places(s, <<"nl">>) = {i \in 1 .. Len(s) : s[i] = "nl"}
<1> DEFINE mark == <<"nl">>
<1>1. Len(mark) = 1 /\ "nl" \in Chars
  BY CharsAreThere
<1>2. ASSUME NEW i \in 1 .. Len(s)
      PROVE  SubSeq(s, i, i) = mark <=> s[i] = "nl"
  <2> DEFINE u == SubSeq(s, i, i)
  <2>1. u \in Seq(Chars) /\ Len(u) = 1 /\ u[1] = s[i]
    <3>1. i - i + 1 = 1 /\ i + 1 - 1 = i /\ i \in Nat /\ 1 <= i /\ i <= i + 1 /\ i <= Len(s)
      OBVIOUS
    <3>2. u \in Seq(Chars) /\ Len(u) = 1 /\ \A x \in 1 .. 1 : u[x] = s[i + x - 1]
      BY <3>1, Part
    <3> HIDE DEF u
    <3> QED
      BY <3>1, <3>2
  <2> HIDE DEF u
  <2>2. "nl" \in Chars
    BY <1>1
  <2>3. u = <<"nl">> <=> s[i] = "nl"
    BY <2>1, <2>2, IsSingle
  <2> QED
    BY <2>3 DEF u
<1>3. Len(s) - Len(mark) + 1 = Len(s) /\ \A i \in 1 .. Len(s) : i + Len(mark) - 1 = i
  BY <1>1
<1> HIDE DEF mark
<1>4. {i \in 1 .. Len(s) - Len(mark) + 1 : SubSeq(s, i, i + Len(mark) - 1) = mark}
        = {i \in 1 .. Len(s) : s[i] = "nl"}
  BY <1>2, <1>3
<1> QED
  BY <1>4 DEF Cli!Places, mark

\* Where the mark before the hash of a tagged line is.
LEMMA TaggedPlaces ==
  ASSUME NEW s \in Seq(Chars)
  PROVE  Cli!Places(s, Cli!Tagged) =
           {i \in 1 .. Len(s) - 3 : s[i] = ")" /\ s[i + 1] = "sp" /\ s[i + 2] = "=" /\ s[i + 3] = "sp"}
<1> DEFINE mark == Cli!Tagged
<1>1. Len(mark) = 4 /\ mark = <<")", "sp", "=", "sp">> /\ {")", "sp", "="} \subseteq Chars
  BY CharsAreThere DEF Cli!Tagged
<1>2. ASSUME NEW i \in 1 .. Len(s) - 3
      PROVE  SubSeq(s, i, i + 3) = mark
               <=> s[i] = ")" /\ s[i + 1] = "sp" /\ s[i + 2] = "=" /\ s[i + 3] = "sp"
  <2> DEFINE u == SubSeq(s, i, i + 3)
  <2>1. i \in Nat /\ i + 3 \in Nat /\ 1 <= i /\ i <= i + 3 + 1 /\ i + 3 <= Len(s)
    OBVIOUS
  <2>2. /\ u \in Seq(Chars) /\ Len(u) = 4
        /\ u[1] = s[i] /\ u[2] = s[i + 1] /\ u[3] = s[i + 2] /\ u[4] = s[i + 3]
    <3>1. /\ i + 3 - i + 1 = 4 /\ i + 1 - 1 = i /\ i + 2 - 1 = i + 1
          /\ i + 3 - 1 = i + 2 /\ i + 4 - 1 = i + 3
      OBVIOUS
    <3>2. u \in Seq(Chars) /\ Len(u) = 4 /\ \A x \in 1 .. 4 : u[x] = s[i + x - 1]
      BY <2>1, <3>1, Part
    <3> HIDE DEF u
    <3> QED
      BY <3>1, <3>2
  <2> HIDE DEF u
  <2>3. u = <<")", "sp", "=", "sp">>
          <=> s[i] = ")" /\ s[i + 1] = "sp" /\ s[i + 2] = "=" /\ s[i + 3] = "sp"
    <3>1. ")" \in Chars /\ "sp" \in Chars /\ "=" \in Chars
      BY <1>1
    <3> QED
      BY <2>2, <3>1, IsQuad
  <2> QED
    BY <1>1, <2>3 DEF u
<1>3. Len(s) - Len(mark) + 1 = Len(s) - 3 /\ \A i \in 1 .. Len(s) - 3 : i + Len(mark) - 1 = i + 3
  BY <1>1
<1> HIDE DEF mark
<1> DEFINE here(i) == SubSeq(s, i, i + Len(mark) - 1) = mark
           told(i) == s[i] = ")" /\ s[i + 1] = "sp" /\ s[i + 2] = "=" /\ s[i + 3] = "sp"
<1>4. {i \in 1 .. Len(s) - Len(mark) + 1 : here(i)} = {i \in 1 .. Len(s) - 3 : told(i)}
  <2>1. \A i \in 1 .. Len(s) - 3 : here(i) <=> told(i)
    BY <1>2, <1>3
  <2> HIDE DEF here, told
  <2> QED
    BY <1>3, <2>1
<1> QED
  BY <1>4 DEF Cli!Places, mark

\* An untagged line is split after its hash.
PlainLine(d, p) == <<d>> \o <<"sp", "sp">> \o p

\* Hash, two spaces, path.
LEMMA PlainLineIs ==
  ASSUME NEW p \in Seq(Chars), NEW d \in Chars
  PROVE  LET s == PlainLine(d, p)
         IN  /\ s \in Seq(Chars) /\ Len(s) = Len(p) + 3 /\ Len(p) \in Nat
             /\ s[1] = d /\ s[2] = "sp" /\ s[3] = "sp"
             /\ \A i \in 1 .. Len(p) : s[i + 3] = p[i]
<1> DEFINE a == <<d>>
           b == <<"sp", "sp">>
           ab == a \o b
           s == ab \o p
<1>1. "sp" \in Chars
  BY CharsAreThere
<1>2. a \in Seq(Chars) /\ Len(a) = 1 /\ a[1] = d
  BY SingleIs
<1>3. b \in Seq(Chars) /\ Len(b) = 2 /\ b[1] = "sp" /\ b[2] = "sp"
  BY <1>1, SeqOfTwo
<1> HIDE DEF a, b
<1>4. /\ ab \in Seq(Chars) /\ Len(ab) = Len(a) + Len(b)
      /\ \A i \in 1 .. Len(a) : ab[i] = a[i]
      /\ \A i \in 1 .. Len(b) : ab[i + Len(a)] = b[i]
  <2>1. a \in Seq(Chars) /\ b \in Seq(Chars)
    BY <1>2, <1>3
  <2> QED
    BY <2>1, Joined
<1> HIDE DEF ab
<1>5. Len(ab) = 3 /\ ab[1] = d /\ ab[2] = "sp" /\ ab[3] = "sp"
  <2>1. 1 + 1 = 2 /\ 2 + 1 = 3 /\ 1 \in 1 .. 1 /\ 1 \in 1 .. 2 /\ 2 \in 1 .. 2
    OBVIOUS
  <2> QED
    BY <1>2, <1>3, <1>4, <2>1
<1>6. /\ s \in Seq(Chars) /\ Len(s) = Len(ab) + Len(p) /\ Len(p) \in Nat
      /\ \A i \in 1 .. Len(ab) : s[i] = ab[i]
      /\ \A i \in 1 .. Len(p) : s[i + Len(ab)] = p[i]
  <2>1. ab \in Seq(Chars) /\ p \in Seq(Chars)
    BY <1>4
  <2> QED
    BY <2>1, Joined
<1>7. s = PlainLine(d, p)
  BY DEF PlainLine, a, b, ab
<1> HIDE DEF s
<1>8. 1 \in 1 .. 3 /\ 2 \in 1 .. 3 /\ 3 \in 1 .. 3
  OBVIOUS
<1>9. s[1] = d /\ s[2] = "sp" /\ s[3] = "sp"
  BY <1>5, <1>6, <1>8
<1>10. \A i \in 1 .. Len(p) : s[i + 3] = p[i]
  BY <1>5, <1>6
<1>11. Len(s) = Len(p) + 3
  BY <1>5, <1>6
<1> QED
  BY <1>6, <1>7, <1>9, <1>10, <1>11

\* An untagged line is split after its hash.
LEMMA SplitPlain ==
  ASSUME NEW p \in Seq(Chars), NEW d \in Chars, d # "sp"
  PROVE  Cli!Split(PlainLine(d, p)) = [ok |-> TRUE, hash |-> <<d>>, file |-> p]
<1> DEFINE s == PlainLine(d, p)
           places == Cli!Places(s, Cli!Untagged)
<1>2. /\ s \in Seq(Chars) /\ Len(s) = Len(p) + 3 /\ Len(p) \in Nat
      /\ s[1] = d /\ s[2] = "sp" /\ s[3] = "sp"
      /\ \A i \in 1 .. Len(p) : s[i + 3] = p[i]
  BY PlainLineIs
<1> HIDE DEF s
<1>3. places = {i \in 1 .. Len(s) - 1 : s[i] = "sp" /\ s[i + 1] = "sp"}
  BY <1>2, UntaggedPlaces
<1>4. 2 \in places /\ (\A y \in places : 2 <= y) /\ places \in SUBSET Nat
  <2>1. 2 \in 1 .. Len(s) - 1 /\ 2 + 1 = 3
    BY <1>2
  <2>2. \A y \in 1 .. Len(s) - 1 : y \in Nat /\ (y # 1 => 2 <= y)
    BY <1>2
  <2> HIDE DEF places
  <2> QED
    BY <1>2, <1>3, <2>1, <2>2
<1>5. Cli!Min(places) = 2
  BY <1>4, Least
<1>6. SubSeq(s, 1, 1) = <<d>>
  <2> DEFINE u == SubSeq(s, 1, 1)
  <2>1. 1 - 1 + 1 = 1 /\ 1 + 1 - 1 = 1 /\ 1 <= Len(s) /\ 1 \in Nat /\ 1 <= 1 + 1
    BY <1>2
  <2>2. u \in Seq(Chars) /\ Len(u) = 1 /\ \A x \in 1 .. 1 : u[x] = s[1 + x - 1]
    BY <1>2, <2>1, Part
  <2> HIDE DEF u
  <2>3. u = <<d>>
    BY <1>2, <2>1, <2>2, IsSingle
  <2> QED
    BY <2>3 DEF u
<1>7. SubSeq(s, 4, Len(s)) = p
  <2> DEFINE u == SubSeq(s, 4, Len(s))
  <2>1. Len(s) - 4 + 1 = Len(p) /\ 4 \in Nat /\ Len(s) \in Nat /\ 1 <= 4
        /\ 4 <= Len(s) + 1 /\ Len(s) <= Len(s)
    BY <1>2
  <2>2. u \in Seq(Chars) /\ Len(u) = Len(p) /\ \A x \in 1 .. Len(p) : u[x] = s[4 + x - 1]
    BY <1>2, <2>1, Part
  <2> HIDE DEF u
  <2>3. \A x \in 1 .. Len(p) : 4 + x - 1 = x + 3
    OBVIOUS
  <2>4. \A x \in 1 .. Len(p) : u[x] = p[x]
    BY <1>2, <2>2, <2>3
  <2>5. u = p
    BY <2>2, <2>4, SeqEqual
  <2> QED
    BY <2>5 DEF u
<1>8. Cli!SplitAt(s, 2, Cli!Untagged) = [left |-> <<d>>, right |-> p]
  <2>1. 2 - 1 = 1 /\ 2 + Len(Cli!Untagged) = 4
    BY DEF Cli!Untagged
  <2> QED
    BY <1>6, <1>7, <2>1 DEF Cli!SplitAt
<1>9. Cli!Split(s) = Cli!split_untagged_check_line(s)
  <2>1. Cli!Places(s, Cli!Untagged) # {}
    BY <1>4
  <2> QED
    BY <2>1 DEF Cli!Split
<1>10. Cli!split_untagged_check_line(s) = [ok |-> TRUE, hash |-> <<d>>, file |-> p]
  <2>1. Cli!SplitAt(s, Cli!Min(Cli!Places(s, Cli!Untagged)), Cli!Untagged) = [left |-> <<d>>, right |-> p]
    BY <1>5, <1>8 DEF places
  <2> QED
    BY <2>1 DEF Cli!split_untagged_check_line
<1> QED
  BY <1>9, <1>10 DEF s

\* A line that holds a hash only is none.
LEMMA SplitNameless ==
  ASSUME NEW d \in Chars
  PROVE  ~Cli!Split(<<d>>).ok
<1> DEFINE s == <<d>>
<1>0. s \in Seq(Chars) /\ Len(s) = 1
  BY SingleIs
<1> HIDE DEF s
<1>1. Cli!Places(s, Cli!Untagged) = {}
  BY <1>0, UntaggedPlaces
<1>2. ~Cli!IsPrefix(Cli!Prefix, s)
  <2>1. Len(Cli!Prefix) = 3
    BY DEF Cli!Prefix
  <2> QED
    BY <1>0, <2>1 DEF Cli!IsPrefix
<1>3. ~Cli!Split(s).ok
  BY <1>1, <1>2 DEF Cli!Split, Cli!split_tagged_check_line, Cli!NoLine
<1> QED
  BY <1>3 DEF s

\* A tagged line is split before its hash, unless it holds two spaces together.
TaggedLine(p, d) == Cli!Prefix \o p \o Cli!Tagged \o <<d>>

\* The path in parentheses, and the hash after an equals sign.
LEMMA TaggedLineIs ==
  ASSUME NEW p \in Seq(Chars), NEW d \in Chars
  PROVE  LET s == TaggedLine(p, d)
             n == Len(p)
         IN  /\ s \in Seq(Chars) /\ Len(s) = n + 8 /\ n \in Nat
             /\ s[1] = "BLAKE3" /\ s[2] = "sp" /\ s[3] = "("
             /\ \A i \in 1 .. n : s[i + 3] = p[i]
             /\ s[n + 4] = ")" /\ s[n + 5] = "sp" /\ s[n + 6] = "="
                /\ s[n + 7] = "sp" /\ s[n + 8] = d
<1> DEFINE a == <<"BLAKE3", "sp", "(">>
           b == <<")", "sp", "=", "sp">>
           c == <<d>>
           n == Len(p)
           ap == a \o p
           apb == ap \o b
           s == apb \o c
<1>0. /\ "BLAKE3" \in Chars /\ "sp" \in Chars /\ "(" \in Chars /\ ")" \in Chars
         /\ "=" \in Chars
  BY CharsAreThere
<1>1. a \in Seq(Chars) /\ Len(a) = 3 /\ a[1] = "BLAKE3" /\ a[2] = "sp" /\ a[3] = "("
  BY <1>0, TripleIs
<1>2. b \in Seq(Chars) /\ Len(b) = 4 /\ b[1] = ")" /\ b[2] = "sp" /\ b[3] = "="
      /\ b[4] = "sp"
  BY <1>0, QuadIs
<1>3. c \in Seq(Chars) /\ Len(c) = 1 /\ c[1] = d
  BY SingleIs
<1>4. n \in Nat /\ Len(p) = n
  OBVIOUS
<1>5. s = TaggedLine(p, d)
  BY DEF TaggedLine, Cli!Prefix, Cli!Tagged
<1> HIDE DEF a, b, c, n
<1>6. /\ ap \in Seq(Chars) /\ Len(ap) = Len(a) + Len(p)
      /\ \A i \in 1 .. Len(a) : ap[i] = a[i]
      /\ \A i \in 1 .. Len(p) : ap[i + Len(a)] = p[i]
  <2>1. a \in Seq(Chars) /\ p \in Seq(Chars)
    BY <1>1
  <2> QED
    BY <2>1, Joined
<1> HIDE DEF ap
<1>7. /\ apb \in Seq(Chars) /\ Len(apb) = Len(ap) + Len(b)
      /\ \A i \in 1 .. Len(ap) : apb[i] = ap[i]
      /\ \A i \in 1 .. Len(b) : apb[i + Len(ap)] = b[i]
  <2>1. ap \in Seq(Chars) /\ b \in Seq(Chars)
    BY <1>2, <1>6
  <2> QED
    BY <2>1, Joined
<1> HIDE DEF apb
<1>8. /\ s \in Seq(Chars) /\ Len(s) = Len(apb) + Len(c)
      /\ \A i \in 1 .. Len(apb) : s[i] = apb[i]
      /\ \A i \in 1 .. Len(c) : s[i + Len(apb)] = c[i]
  <2>1. apb \in Seq(Chars) /\ c \in Seq(Chars)
    BY <1>3, <1>7
  <2> QED
    BY <2>1, Joined
<1> HIDE DEF s
<1>9. Len(ap) = n + 3 /\ Len(apb) = n + 7 /\ Len(s) = n + 8
  BY <1>1, <1>2, <1>3, <1>4, <1>6, <1>7, <1>8
<1>10. s[1] = "BLAKE3" /\ s[2] = "sp" /\ s[3] = "("
  <2>1. \A x \in {1, 2, 3} : x \in 1 .. 3 /\ x \in 1 .. n + 3 /\ x \in 1 .. n + 7
    BY <1>4
  <2>2. \A x \in {1, 2, 3} : s[x] = a[x]
    BY <1>1, <1>6, <1>7, <1>8, <1>9, <2>1
  <2> QED
    BY <1>1, <2>2
<1>11. \A i \in 1 .. n : s[i + 3] = p[i]
  <2> SUFFICES ASSUME NEW i \in 1 .. n PROVE s[i + 3] = p[i]
    OBVIOUS
  <2>1. i + 3 \in 1 .. n + 3 /\ i + 3 \in 1 .. n + 7
    BY <1>4
  <2>2. ap[i + 3] = p[i]
    BY <1>1, <1>4, <1>6
  <2> QED
    BY <1>7, <1>8, <1>9, <2>1, <2>2
<1>12. s[n + 4] = ")" /\ s[n + 5] = "sp" /\ s[n + 6] = "=" /\ s[n + 7] = "sp"
  <2>1. ASSUME NEW i \in 1 .. 4 PROVE s[i + (n + 3)] = b[i]
    <3>1. i + (n + 3) \in 1 .. n + 7
      BY <1>4
    <3>2. apb[i + (n + 3)] = b[i]
      BY <1>2, <1>7, <1>9
    <3> QED
      BY <1>8, <1>9, <3>1, <3>2
  <2>2. /\ 1 + (n + 3) = n + 4 /\ 2 + (n + 3) = n + 5 /\ 3 + (n + 3) = n + 6
        /\ 4 + (n + 3) = n + 7 /\ 1 \in 1 .. 4 /\ 2 \in 1 .. 4 /\ 3 \in 1 .. 4
           /\ 4 \in 1 .. 4
    BY <1>4
  <2>3. s[1 + (n + 3)] = b[1] /\ s[2 + (n + 3)] = b[2] /\ s[3 + (n + 3)] = b[3]
        /\ s[4 + (n + 3)] = b[4]
    BY <2>1, <2>2
  <2> QED
    BY <1>2, <2>2, <2>3
<1>13. s[n + 8] = d
  <2>1. 1 + (n + 7) = n + 8 /\ 1 \in 1 .. 1
    BY <1>4
  <2>2. s[1 + (n + 7)] = c[1]
    BY <1>3, <1>8, <1>9, <2>1
  <2> QED
    BY <1>3, <2>1, <2>2
<1> QED
  BY <1>4, <1>5, <1>8, <1>9, <1>10, <1>11, <1>12, <1>13

\* Min of some numbers is one of them.
LEMMA MinIsLeast ==
  ASSUME NEW S \in SUBSET Nat, S # {}
  PROVE  Cli!Min(S) \in S /\ \A y \in S : Cli!Min(S) <= y
<1>1. \E x \in S : \A y \in S : x <= y
  BY LeastNat
<1> QED
  BY <1>1 DEF Cli!Min

\* In any case nothing else is taken for its path together with a hash.
LEMMA SplitTagged ==
  ASSUME NEW p \in Seq(Chars), NEW d \in Chars
  PROVE  LET split == Cli!Split(TaggedLine(p, d))
             right == [ok |-> TRUE, hash |-> <<d>>, file |-> p]
         IN  /\ split.ok /\ Len(split.hash) = 1 => split = right
             /\ ~DoubleSpace(p) /\ d # "sp" => split = right
<1> DEFINE s == TaggedLine(p, d)
           n == Len(p)
           split == Cli!Split(s)
           right == [ok |-> TRUE, hash |-> <<d>>, file |-> p]
           places == Cli!Places(s, Cli!Untagged)
<1>1. /\ s \in Seq(Chars) /\ Len(s) = n + 8 /\ n \in Nat
      /\ s[1] = "BLAKE3" /\ s[2] = "sp" /\ s[3] = "("
      /\ \A i \in 1 .. n : s[i + 3] = p[i]
      /\ s[n + 4] = ")" /\ s[n + 5] = "sp" /\ s[n + 6] = "=" /\ s[n + 7] = "sp"
         /\ s[n + 8] = d
  BY TaggedLineIs
<1>2. n = Len(p)
  OBVIOUS
<1> HIDE DEF s, n
<1>3. places = {i \in 1 .. Len(s) - 1 : s[i] = "sp" /\ s[i + 1] = "sp"}
  BY <1>1, UntaggedPlaces
<1>4. CASE places # {}
  <2>1. ~(Len(split.hash) = 1)
    <3> DEFINE m == Cli!Min(places)
    <3>1. m \in places
      <4>1. places \in SUBSET Nat
        BY <1>1, <1>3
      <4> HIDE DEF places
      <4> QED
        BY <1>4, <4>1, MinIsLeast
    <3>2. m \in 1 .. n + 7 /\ s[m] = "sp" /\ s[m + 1] = "sp"
      BY <1>1, <1>3, <3>1
    <3> HIDE DEF m
    <3>3. m # 1 /\ m # 2
      BY <1>1, <3>2
    <3>4. split.hash = SubSeq(s, 1, m - 1)
      BY <1>4 DEF Cli!Split, Cli!split_untagged_check_line, Cli!SplitAt, m
    <3>5. Len(SubSeq(s, 1, m - 1)) = m - 1
      <4>1. 1 \in Nat /\ m - 1 \in Nat /\ 1 <= 1 /\ 1 <= m - 1 + 1
            /\ m - 1 <= Len(s) /\ m - 1 - 1 + 1 = m - 1
        BY <1>1, <3>2
      <4> QED
        BY <1>1, <4>1, Part
    <3> HIDE DEF split
    <3> QED
      BY <3>2, <3>3, <3>4, <3>5
  <2>2. ~(~DoubleSpace(p) /\ d # "sp")
    <3> SUFFICES ASSUME ~DoubleSpace(p), d # "sp" PROVE FALSE
      OBVIOUS
    <3>1. PICK i \in 1 .. n + 7 : s[i] = "sp" /\ s[i + 1] = "sp"
      BY <1>1, <1>3, <1>4
    <3>2. i # 1 /\ i # 2 /\ i # 3
      BY <1>1, <3>1
    <3>3. i # n + 3
      <4>1. i = n + 3 => i + 1 = n + 4
        BY <1>1
      <4> QED
        BY <1>1, <3>1, <4>1
    <3>4. i # n + 4 /\ i # n + 6
      BY <1>1, <3>1
    <3>5. i # n + 5
      <4>1. i = n + 5 => i + 1 = n + 6
        BY <1>1
      <4> QED
        BY <1>1, <3>1, <4>1
    <3>6. i # n + 7
      <4>1. i = n + 7 => i + 1 = n + 8
        BY <1>1
      <4> QED
        BY <1>1, <3>1, <4>1
    <3> DEFINE k == i - 3
    <3>7. k \in 1 .. n - 1 /\ k \in 1 .. n /\ k + 1 \in 1 .. n /\ k + 3 = i
          /\ (k + 1) + 3 = i + 1
      BY <1>1, <3>1, <3>2, <3>3, <3>4, <3>5, <3>6
    <3>8. p[k] = s[k + 3] /\ p[k + 1] = s[(k + 1) + 3]
      BY <1>1, <3>7
    <3>9. p[k] = "sp" /\ p[k + 1] = "sp"
      BY <3>1, <3>7, <3>8
    <3> HIDE DEF k
    <3> QED
      BY <1>2, <3>7, <3>9 DEF DoubleSpace
  <2> HIDE DEF split
  <2> QED
    BY <2>1, <2>2 DEF split, s
<1>5. CASE places = {}
  <2> DEFINE rest == SubSeq(s, Len(Cli!Prefix) + 1, Len(s))
             tagged == Cli!Places(rest, Cli!Tagged)
  <2>1. rest \in Seq(Chars) /\ Len(rest) = n + 5 /\ \A i \in 1 .. n + 5 : rest[i] = s[i + 3]
    <3>1. Len(Cli!Prefix) + 1 = 4
      BY DEF Cli!Prefix
    <3>2. 4 \in Nat /\ Len(s) \in Nat /\ 1 <= 4 /\ 4 <= Len(s) + 1
          /\ Len(s) <= Len(s) /\ Len(s) - 4 + 1 = n + 5
      BY <1>1
    <3>3. rest \in Seq(Chars) /\ Len(rest) = n + 5 /\ \A i \in 1 .. n + 5 : rest[i] = s[4 + i - 1]
      BY <1>1, <3>1, <3>2, Part
    <3>4. \A i \in 1 .. n + 5 : 4 + i - 1 = i + 3
      BY <1>1
    <3> HIDE DEF rest
    <3> QED
      BY <3>3, <3>4
  <2> HIDE DEF rest
  <2>2. tagged = {i \in 1 .. n + 2 :
                    rest[i] = ")" /\ rest[i + 1] = "sp" /\ rest[i + 2] = "="
                    /\ rest[i + 3] = "sp"}
    <3>1. Len(rest) - 3 = n + 2
      BY <1>1, <2>1
    <3> QED
      BY <2>1, <3>1, TaggedPlaces
  <2>3. n + 1 \in tagged
    <3>1. /\ n + 1 \in 1 .. n + 5 /\ n + 2 \in 1 .. n + 5
             /\ n + 3 \in 1 .. n + 5 /\ n + 4 \in 1 .. n + 5
          /\ n + 1 \in 1 .. n + 2
          /\ n + 1 + 3 = n + 4 /\ n + 2 + 3 = n + 5 /\ n + 3 + 3 = n + 6
             /\ n + 4 + 3 = n + 7
          /\ n + 1 + 1 = n + 2 /\ n + 1 + 2 = n + 3 /\ n + 1 + 3 = n + 4
      BY <1>1
    <3>2. rest[n + 1] = ")" /\ rest[n + 2] = "sp" /\ rest[n + 3] = "=" /\ rest[n + 4] = "sp"
      BY <1>1, <2>1, <3>1
    <3> QED
      BY <2>2, <3>1, <3>2
  <2>4. \A y \in tagged : y <= n + 1
    <3>1. n + 2 \notin tagged
      <4>1. n + 2 \in 1 .. n + 5 /\ n + 2 + 3 = n + 5
        BY <1>1
      <4>2. rest[n + 2] = "sp"
        BY <1>1, <2>1, <4>1
      <4> QED
        BY <2>2, <4>2
    <3>2. \A y \in tagged : y \in 1 .. n + 2
      BY <2>2
    <3> HIDE DEF tagged
    <3> QED
      BY <1>1, <3>1, <3>2
  <2>5. Cli!Max(tagged) = n + 1
    <3>1. tagged \in SUBSET Nat
      BY <2>2
    <3> HIDE DEF tagged
    <3> QED
      BY <2>3, <2>4, <3>1, Greatest
  <2>6. SubSeq(rest, 1, n) = p
    <3> DEFINE u == SubSeq(rest, 1, n)
    <3>1. 1 \in Nat /\ 1 <= 1 /\ 1 <= n + 1 /\ n <= Len(rest) /\ n - 1 + 1 = n
      BY <1>1, <2>1
    <3>2. u \in Seq(Chars) /\ Len(u) = n /\ \A i \in 1 .. n : u[i] = rest[1 + i - 1]
      BY <1>1, <2>1, <3>1, Part
    <3> HIDE DEF u
    <3>3. \A i \in 1 .. n : 1 + i - 1 = i /\ i \in 1 .. n + 5
      BY <1>1
    <3>4. \A i \in 1 .. Len(u) : u[i] = p[i]
      BY <1>1, <2>1, <3>2, <3>3
    <3>5. u = p
      BY <1>2, <3>2, <3>4, SeqEqual
    <3> QED
      BY <3>5 DEF u
  <2>7. SubSeq(rest, n + 5, n + 5) = <<d>>
    <3> DEFINE u == SubSeq(rest, n + 5, n + 5)
    <3>1. n + 5 \in Nat /\ 1 <= n + 5 /\ n + 5 <= n + 5 + 1
          /\ n + 5 <= Len(rest) /\ n + 5 - (n + 5) + 1 = 1
      BY <1>1, <2>1
    <3>2. u \in Seq(Chars) /\ Len(u) = 1 /\ \A i \in 1 .. 1 : u[i] = rest[n + 5 + i - 1]
      BY <1>1, <2>1, <3>1, Part
    <3> HIDE DEF u
    <3>3. n + 5 + 1 - 1 = n + 5 /\ n + 5 \in 1 .. n + 5 /\ n + 5 + 3 = n + 8
      BY <1>1
    <3>4. u[1] = d
      BY <1>1, <2>1, <3>2, <3>3
    <3>5. u = <<d>>
      BY <3>2, <3>4, IsSingle
    <3> QED
      BY <3>5 DEF u
  <2>8. Cli!SplitAt(rest, n + 1, Cli!Tagged) = [left |-> p, right |-> <<d>>]
    <3>1. (n + 1) - 1 = n /\ (n + 1) + Len(Cli!Tagged) = n + 5
      BY <1>1 DEF Cli!Tagged
    <3>2. Cli!SplitAt(rest, n + 1, Cli!Tagged) =
            [left |-> SubSeq(rest, 1, (n + 1) - 1),
             right |-> SubSeq(rest, (n + 1) + Len(Cli!Tagged), Len(rest))]
      BY DEF Cli!SplitAt
    <3> QED
      BY <2>1, <2>6, <2>7, <3>1, <3>2
  <2>9. Cli!IsPrefix(Cli!Prefix, s)
    <3> DEFINE mark == Cli!Prefix
    <3>1. mark \in Seq(Chars) /\ Len(mark) = 3 /\ mark[1] = "BLAKE3"
          /\ mark[2] = "sp" /\ mark[3] = "("
      <4>1. "BLAKE3" \in Chars /\ "sp" \in Chars /\ "(" \in Chars
        BY CharsAreThere
      <4> QED
        BY <4>1, TripleIs DEF Cli!Prefix
    <3> HIDE DEF mark
    <3>2. Len(mark) <= Len(s)
      BY <1>1, <3>1
    <3> DEFINE u == SubSeq(s, 1, 3)
               v == SubSeq(mark, 1, 3)
    <3>3. 1 \in Nat /\ 3 \in Nat /\ 1 <= 1 /\ 1 <= 3 + 1 /\ 3 <= Len(s)
          /\ 3 - 1 + 1 = 3 /\ 3 <= Len(mark)
      BY <1>1, <3>1
    <3>4. u \in Seq(Chars) /\ Len(u) = 3 /\ \A i \in 1 .. 3 : u[i] = s[1 + i - 1]
      BY <1>1, <3>3, Part
    <3>5. v \in Seq(Chars) /\ Len(v) = 3 /\ \A i \in 1 .. 3 : v[i] = mark[1 + i - 1]
      <4>1. mark \in Seq(Chars)
        BY <3>1
      <4> QED
        BY <3>3, <4>1, Part
    <3> HIDE DEF u, v
    <3>6. \A i \in 1 .. 3 : 1 + i - 1 = i /\ i \in {1, 2, 3}
      OBVIOUS
    <3>7. \A i \in 1 .. Len(u) : u[i] = v[i]
      BY <1>1, <3>1, <3>4, <3>5, <3>6
    <3>8. u = v
      BY <3>4, <3>5, <3>7, SeqEqual
    <3>9. SubSeq(mark, 1, Len(mark)) = SubSeq(s, 1, Len(mark))
      BY <3>1, <3>8 DEF u, v
    <3> QED
      BY <3>2, <3>9 DEF Cli!IsPrefix, mark
  <2>10. split = right
    <3>1. split = Cli!split_tagged_check_line(s)
      BY <1>5 DEF Cli!Split
    <3>2. Cli!SplitAt(rest, Cli!Max(Cli!Places(rest, Cli!Tagged)), Cli!Tagged) = [left |-> p, right |-> <<d>>]
      BY <2>5, <2>8
    <3>3. Cli!Places(rest, Cli!Tagged) # {}
      BY <2>3
    <3>4. Cli!split_tagged_check_line(s) =
            LET at == Cli!SplitAt(rest, Cli!Max(Cli!Places(rest, Cli!Tagged)), Cli!Tagged)
            IN  [ok |-> TRUE, hash |-> at.right, file |-> at.left]
      BY <2>9, <3>3 DEF Cli!split_tagged_check_line, rest
    <3> HIDE DEF split, tagged
    <3> QED
      BY <3>1, <3>2, <3>4
  <2> HIDE DEF split, right
  <2> QED
    BY <2>10 DEF split, right, s
<1> QED
  BY <1>4, <1>5

\* The hash of a content, from the start or from an offset.
LEMMA DigestIs ==
  ASSUME NEW c \in {"one", "two"}, NEW at \in {0, 1}
  PROVE  /\ Cli!Digest(c, at) \in {"one", "two", "one from there", "two from there"}
         /\ Cli!Digest(c, at) \in Cli!Digests
<1>1. Cli!Digest(c, at) \in {"one", "two", "one from there", "two from there"}
  BY DEF Cli!Digest
<1>2. c \in Cli!Contents
  BY DEF Cli!Contents
<1>3. \E x \in Cli!Contents, y \in {0, 1} : Cli!Digest(c, at) = Cli!Digest(x, y)
  BY <1>2
<1>4. Cli!Digest(c, at) \in Cli!Digests
  BY <1>3 DEF Cli!Digests
<1> QED
  BY <1>1, <1>4

\* There are four hashes.
LEMMA DigestsAre ==
  ASSUME NEW d \in Cli!Digests
  PROVE  d \in {"one", "two", "one from there", "two from there"}
<1>1. PICK c \in Cli!Contents, at \in {0, 1} : d = Cli!Digest(c, at)
  BY DEF Cli!Digests
<1>2. c \in {"one", "two"}
  BY DEF Cli!Contents
<1> QED
  BY <1>1, <1>2, DigestIs

\* One hash is of one content.
LEMMA DigestTells ==
  ASSUME NEW c \in {"one", "two"}, NEW at \in {0, 1}, NEW b \in {"one", "two"}, NEW from \in {0, 1},
         Cli!Digest(c, at) = Cli!Digest(b, from)
  PROVE  c = b
<1>1. ASSUME NEW x \in {"one", "two"}, NEW y \in {0, 1}
      PROVE  /\ y = 0 => Cli!Digest(x, y) = x
             /\ y # 0 /\ x = "one" => Cli!Digest(x, y) = "one from there"
             /\ y # 0 /\ x = "two" => Cli!Digest(x, y) = "two from there"
  BY DEF Cli!Digest
<1> QED
  BY <1>1

\* One line
NoBreak(s) == \A i \in 1 .. Len(s) : s[i] # "nl"

\* A line is one line.
LEMMA PlainHasNoBreak ==
  ASSUME NEW p \in Seq(Chars), NEW d \in Chars, d # "nl", NoBreak(p)
  PROVE  NoBreak(PlainLine(d, p))
<1> DEFINE s == PlainLine(d, p)
<1>1. /\ s \in Seq(Chars) /\ Len(s) = Len(p) + 3 /\ Len(p) \in Nat
      /\ s[1] = d /\ s[2] = "sp" /\ s[3] = "sp"
      /\ \A i \in 1 .. Len(p) : s[i + 3] = p[i]
  BY PlainLineIs
<1> HIDE DEF s
<1>2. ASSUME NEW i \in 1 .. Len(s) PROVE s[i] # "nl"
  <2>1. CASE i \in {1, 2, 3}
    BY <1>1, <2>1
  <2>2. CASE i \notin {1, 2, 3}
    <3> DEFINE k == i - 3
    <3>1. k \in 1 .. Len(p) /\ k + 3 = i
      BY <1>1, <2>2
    <3> HIDE DEF k
    <3>2. s[k + 3] = p[k] /\ p[k] # "nl"
      BY <1>1, <3>1 DEF NoBreak
    <3> QED
      BY <3>1, <3>2
  <2> QED
    BY <2>1, <2>2
<1> QED
  BY <1>2 DEF NoBreak, s

\* A tagged line of a path without an end of a line has none.
LEMMA TaggedHasNoBreak ==
  ASSUME NEW p \in Seq(Chars), NEW d \in Chars, d # "nl", NoBreak(p)
  PROVE  NoBreak(TaggedLine(p, d))
<1> DEFINE s == TaggedLine(p, d)
           n == Len(p)
<1>1. /\ s \in Seq(Chars) /\ Len(s) = n + 8 /\ n \in Nat
      /\ s[1] = "BLAKE3" /\ s[2] = "sp" /\ s[3] = "("
      /\ \A i \in 1 .. n : s[i + 3] = p[i]
      /\ s[n + 4] = ")" /\ s[n + 5] = "sp" /\ s[n + 6] = "=" /\ s[n + 7] = "sp"
         /\ s[n + 8] = d
  BY TaggedLineIs
<1>2. n = Len(p)
  OBVIOUS
<1> HIDE DEF s, n
<1>3. ASSUME NEW i \in 1 .. Len(s) PROVE s[i] # "nl"
  <2>1. CASE i \in {1, 2, 3}
    BY <1>1, <2>1
  <2>2. CASE i \in {n + 4, n + 5, n + 6, n + 7, n + 8}
    BY <1>1, <2>2
  <2>3. CASE i \notin {1, 2, 3} /\ i \notin {n + 4, n + 5, n + 6, n + 7, n + 8}
    <3> DEFINE k == i - 3
    <3>1. k \in 1 .. n /\ k + 3 = i
      BY <1>1, <2>3
    <3> HIDE DEF k
    <3>2. s[k + 3] = p[k] /\ p[k] # "nl"
      BY <1>1, <1>2, <3>1 DEF NoBreak
    <3> QED
      BY <3>1, <3>2
  <2> QED
    BY <2>1, <2>2, <2>3
<1> QED
  BY <1>3 DEF NoBreak, s

\* A backslash first says that the name is escaped.
Slashed(slash, body) == slash \o body

\* The backslash is told from the line.
LEMMA SlashIsSeen ==
  ASSUME NEW slash \in {<<>>, <<"bs">>}, NEW body \in Seq(Chars), body # <<>>, body[1] # "bs"
  PROVE  LET s == Slashed(slash, body)
             escaped == s # <<>> /\ s[1] = "bs"
         IN  /\ s \in Seq(Chars)
             /\ escaped <=> slash = <<"bs">>
             /\ (IF escaped THEN Tail(s) ELSE s) = body
             /\ NoBreak(body) => NoBreak(s)
<1> DEFINE s == Slashed(slash, body)
<1>1. CASE slash = <<>>
  <2>1. s = body /\ slash # <<"bs">>
    BY <1>1 DEF Slashed
  <2> HIDE DEF s
  <2> QED
    BY <1>1, <2>1 DEF s
<1>2. CASE slash = <<"bs">>
  <2>1. slash \in Seq(Chars) /\ Len(slash) = 1 /\ slash[1] = "bs"
    <3>1. "bs" \in Chars
      BY CharsAreThere
    <3> QED
      BY <1>2, <3>1, SingleIs
  <2>2. /\ s \in Seq(Chars) /\ Len(s) = Len(slash) + Len(body) /\ Len(body) \in Nat
        /\ \A i \in 1 .. Len(slash) : s[i] = slash[i]
        /\ \A i \in 1 .. Len(body) : s[i + Len(slash)] = body[i]
    <3>1. slash \in Seq(Chars) /\ body \in Seq(Chars)
      BY <2>1
    <3> QED
      BY <3>1, Joined DEF Slashed
  <2> HIDE DEF s
  <2>3. Len(s) = Len(body) + 1 /\ s[1] = "bs" /\ \A i \in 1 .. Len(body) : s[i + 1] = body[i]
    <3>1. 1 \in 1 .. 1
      OBVIOUS
    <3> QED
      BY <2>1, <2>2, <3>1
  <2>4. s # <<>>
    BY <2>2, <2>3
  <2>5. Tail(s) = body
    <3>1. Tail(s) \in Seq(Chars) /\ Len(Tail(s)) = Len(s) - 1
          /\ \A i \in 1 .. Len(Tail(s)) : Tail(s)[i] = s[i + 1]
      BY <2>2, <2>4, HeadTailProperties
    <3> DEFINE u == Tail(s)
    <3> HIDE DEF u
    <3>2. u \in Seq(Chars) /\ Len(u) = Len(body) /\ \A i \in 1 .. Len(u) : u[i] = body[i]
      BY <2>2, <2>3, <3>1 DEF u
    <3>3. u = body
      BY <3>2, SeqEqual
    <3> QED
      BY <3>3 DEF u
  <2>6. ASSUME NoBreak(body) PROVE NoBreak(s)
    <3> SUFFICES ASSUME NEW i \in 1 .. Len(s) PROVE s[i] # "nl"
      BY DEF NoBreak
    <3>1. CASE i = 1
      BY <2>3, <3>1
    <3>2. CASE i # 1
      <4> DEFINE k == i - 1
      <4>1. k \in 1 .. Len(body) /\ k + 1 = i
        BY <2>2, <2>3, <3>2
      <4> HIDE DEF k
      <4>2. s[k + 1] = body[k] /\ body[k] # "nl"
        BY <2>3, <2>6, <4>1 DEF NoBreak
      <4> QED
        BY <4>1, <4>2
    <3> QED
      BY <3>1, <3>2
  <2> QED
    BY <1>2, <2>2, <2>3, <2>4, <2>5, <2>6 DEF s
<1> QED
  BY <1>1, <1>2

\* What parse_check_line accepts, and what it reads.
LEMMA ParsedIs ==
  ASSUME NEW slash \in {<<>>, <<"bs">>}, NEW body \in Seq(Chars), body # <<>>, body[1] # "bs"
  PROVE  LET split == Cli!Split(body)
             path == IF slash = <<"bs">> THEN Cli!unescape(split.file) ELSE split.file
             parsed == Cli!parse_check_line(Slashed(slash, body))
         IN  /\ parsed.ok <=> /\ split.ok
                              /\ Len(split.hash) = 1 /\ split.hash[1] \in Cli!Digests
                              /\ path # <<>>
                              /\ Cli!check_for_invalid_characters(path)
             /\ parsed.path = path
             /\ parsed.expected = split.hash
<1> DEFINE s == Slashed(slash, body)
           escaped == s # <<>> /\ s[1] = "bs"
           split == Cli!Split(IF escaped THEN Tail(s) ELSE s)
           path == IF escaped THEN Cli!unescape(split.file) ELSE split.file
           parsed == Cli!parse_check_line(s)
<1>1. (escaped <=> slash = <<"bs">>) /\ (IF escaped THEN Tail(s) ELSE s) = body
  BY SlashIsSeen
<1>2. parsed = [ok |-> /\ split.ok
                       /\ Len(split.hash) = 1 /\ split.hash[1] \in Cli!Digests
                       /\ path # <<>>
                       /\ Cli!check_for_invalid_characters(path),
                path |-> path,
                expected |-> split.hash]
  BY DEF Cli!parse_check_line
<1>3. split = Cli!Split(body)
  BY <1>1
<1>4. path = IF slash = <<"bs">> THEN Cli!unescape(split.file) ELSE split.file
  BY <1>1
<1> HIDE DEF s, escaped, split, path, parsed
<1>5. /\ parsed.ok <=> /\ split.ok
                       /\ Len(split.hash) = 1 /\ split.hash[1] \in Cli!Digests
                       /\ path # <<>>
                       /\ Cli!check_for_invalid_characters(path)
      /\ parsed.path = path
      /\ parsed.expected = split.hash
  BY <1>2
<1> QED
  BY <1>3, <1>4, <1>5 DEF parsed, s

\* The parts of a printed line
SlashOf(name) == IF Cli!filepath_to_string(name).escaped THEN <<"bs">> ELSE <<>>

\* Each format puts its line together from the path and the hash.
LEMMA LineParts ==
  ASSUME NEW name, NameOK(name), NEW c
  PROVE  LET p == Cli!filepath_to_string(name).text
             d == Cli!Digest(c, seeks[1])
             s == Cli!Line(name, c)
         IN  /\ d \in Chars /\ format = "no names" => s = <<d>>
             /\ d \in Chars
                /\ format = "tag" => s = Slashed(SlashOf(name), TaggedLine(p, d))
             /\ d \in Chars
                /\ format = "plain" => s = Slashed(SlashOf(name), PlainLine(d, p))
             /\ format = "short" => s = Slashed(SlashOf(name), PlainLine("short", p))
<1> DEFINE p == Cli!filepath_to_string(name).text
           d == Cli!Digest(c, seeks[1])
           s == Cli!Line(name, c)
           slash == SlashOf(name)
           hex == Cli!write_hex_output(c)
<1>1. p \in Seq(Chars)
  BY PathReadsBack
<1>2. slash \in Seq(Chars)
  <2>1. "bs" \in Chars
    BY CharsAreThere
  <2>2. <<"bs">> \in Seq(Chars) /\ <<>> \in Seq(Chars)
    BY <2>1, SingleIs
  <2> QED
    BY <2>2 DEF SlashOf
<1>3. /\ format = "no names" => s = hex
      /\ format = "tag" =>
           s = slash \o <<"BLAKE3", "sp", "(">> \o p \o <<")", "sp", "=", "sp">> \o hex
      /\ format \in {"plain", "short"} => s = slash \o hex \o <<"sp", "sp">> \o p
  BY DEF Cli!Line, SlashOf
<1>4. hex = <<IF format = "short" THEN "short" ELSE d>>
  BY DEF Cli!write_hex_output
<1> HIDE DEF p, d, s, slash, hex
<1>5. /\ "BLAKE3" \in Chars /\ "sp" \in Chars /\ "(" \in Chars /\ ")" \in Chars
         /\ "=" \in Chars
      /\ "short" \in Chars
  BY CharsAreThere
<1>6. ASSUME d \in Chars, format = "no names" PROVE s = <<d>>
  BY <1>3, <1>4, <1>6
<1>7. ASSUME NEW e \in Chars
      PROVE  slash \o <<e>> \o <<"sp", "sp">> \o p = Slashed(slash, PlainLine(e, p))
  <2> DEFINE one == <<e>>
             two == <<"sp", "sp">>
  <2>1. one \in Seq(Chars)
    BY SingleIs
  <2>2. two \in Seq(Chars)
    BY <1>5, SeqOfTwo
  <2> HIDE DEF one, two
  <2>3. slash \o one \o two \o p = slash \o (one \o two \o p)
    <3>1. one \o two \in Seq(Chars)
      BY <2>1, <2>2, Joined
    <3>2. (slash \o one) \o two = slash \o (one \o two)
      BY <1>2, <2>1, <2>2, ConcatAssociative
    <3>3. (slash \o (one \o two)) \o p = slash \o ((one \o two) \o p)
      BY <1>1, <1>2, <3>1, ConcatAssociative
    <3> QED
      BY <3>2, <3>3
  <2> QED
    BY <2>3 DEF one, two, Slashed, PlainLine
<1>8. ASSUME d \in Chars
      PROVE  slash \o <<"BLAKE3", "sp", "(">> \o p \o <<")", "sp", "=", "sp">> \o <<d>>
               = Slashed(slash, TaggedLine(p, d))
  <2> DEFINE a == <<"BLAKE3", "sp", "(">>
             b == <<")", "sp", "=", "sp">>
             e == <<d>>
  <2>1. a \in Seq(Chars)
    BY <1>5, TripleIs
  <2>2. b \in Seq(Chars)
    BY <1>5, QuadIs
  <2>3. e \in Seq(Chars)
    BY <1>8, SingleIs
  <2> HIDE DEF a, b, e
  <2>4. slash \o a \o p \o b \o e = slash \o (a \o p \o b \o e)
    <3> DEFINE ap == a \o p
               apb == ap \o b
    <3>1. ap \in Seq(Chars) /\ slash \o a \o p = slash \o ap
      BY <1>1, <1>2, <2>1, Joined, ConcatAssociative
    <3> HIDE DEF ap
    <3>2. apb \in Seq(Chars)
      BY <2>2, <3>1, Joined
    <3>3. (slash \o ap) \o b = slash \o apb
      BY <1>2, <2>2, <3>1, ConcatAssociative
    <3> HIDE DEF apb
    <3>4. (slash \o apb) \o e = slash \o (apb \o e)
      BY <1>2, <2>3, <3>2, ConcatAssociative
    <3> QED
      BY <3>1, <3>3, <3>4 DEF ap, apb
  <2> QED
    BY <2>4 DEF a, b, e, Slashed, TaggedLine, Cli!Prefix, Cli!Tagged
<1>9. ASSUME d \in Chars, format = "tag" PROVE s = Slashed(slash, TaggedLine(p, d))
  BY <1>3, <1>4, <1>8, <1>9
<1>10. ASSUME d \in Chars, format = "plain" PROVE s = Slashed(slash, PlainLine(d, p))
  BY <1>3, <1>4, <1>7, <1>10
<1>11. ASSUME format = "short" PROVE s = Slashed(slash, PlainLine("short", p))
  BY <1>3, <1>4, <1>5, <1>7, <1>11
<1> QED
  BY <1>6, <1>9, <1>10, <1>11 DEF p, d, s, slash

\* What the commands were given
Settled ==
  /\ windows \in BOOLEAN
  /\ seeks[1] \in {0, 1} /\ seeks[2] \in {0, 1}
  /\ format \in {"plain", "tag", "no names", "short"}

\* What a line of b3sum is read as
LEMMA LineReadsBack ==
  ASSUME NEW name, NameOK(name), NEW c \in {"one", "two"}, Settled
  PROVE  LET s == Cli!Line(name, c)
             parsed == Cli!parse_check_line(s)
         IN  /\ s \in Seq(Chars) /\ NoBreak(s)
             /\ parsed.ok => /\ parsed.path = Text(name)
                             /\ parsed.expected = <<Cli!Digest(c, seeks[1])>>
                             /\ Cli!check_for_invalid_characters(Text(name))
             /\ /\ format \in {"plain", "tag"}
                /\ ~Cli!Has(name, {"bad", "fffd"})
                /\ format = "tag" => ~DoubleSpace(name)
                => parsed.ok
<1> DEFINE p == Cli!filepath_to_string(name).text
           d == Cli!Digest(c, seeks[1])
           s == Cli!Line(name, c)
           slash == SlashOf(name)
           parsed == Cli!parse_check_line(s)
<1>1. /\ p \in Seq(Chars) /\ NoBreak(p)
      /\ (IF slash = <<"bs">> THEN Cli!unescape(p) ELSE p) = Text(name)
      /\ DoubleSpace(p) => DoubleSpace(name)
      /\ slash \in {<<>>, <<"bs">>}
  <2> DEFINE path == Cli!filepath_to_string(name)
  <2>1. /\ path.text \in Seq(Chars)
        /\ ~Cli!Has(path.text, {"nl", "cr"})
        /\ path.escaped \in BOOLEAN
        /\ (IF path.escaped THEN Cli!unescape(path.text) ELSE path.text) = Text(name)
        /\ DoubleSpace(path.text) => DoubleSpace(name)
    BY PathReadsBack
  <2>2. slash = IF path.escaped THEN <<"bs">> ELSE <<>>
    BY DEF SlashOf
  <2>3. p = path.text
    OBVIOUS
  <2> HIDE DEF path, p, slash
  <2>4. NoBreak(p)
    BY <2>1, <2>3 DEF Cli!Has, NoBreak
  <2>5. <<>> # <<"bs">>
    OBVIOUS
  <2> QED
    BY <2>1, <2>2, <2>3, <2>4, <2>5
<1>2. /\ d \in {"one", "two", "one from there", "two from there"} /\ d \in Cli!Digests
      /\ d \in Chars /\ "short" \in Chars
  BY DigestIs, CharsAreThere DEF Settled
<1>3. /\ format = "no names" => s = <<d>>
      /\ format = "tag" => s = Slashed(slash, TaggedLine(p, d))
      /\ format = "plain" => s = Slashed(slash, PlainLine(d, p))
      /\ format = "short" => s = Slashed(slash, PlainLine("short", p))
  BY <1>2, LineParts
<1>4. /\ Text(name) # <<>>
      /\ ~Cli!Has(name, {"bad", "fffd"}) => Cli!check_for_invalid_characters(Text(name))
  BY TextIsText
<1> HIDE DEF p, d, s, slash, parsed
<1> DEFINE Goal ==
      /\ s \in Seq(Chars) /\ NoBreak(s)
      /\ parsed.ok => /\ parsed.path = Text(name)
                      /\ parsed.expected = <<d>>
                      /\ Cli!check_for_invalid_characters(Text(name))
      /\ /\ format \in {"plain", "tag"}
         /\ ~Cli!Has(name, {"bad", "fffd"})
         /\ format = "tag" => ~DoubleSpace(name)
         => parsed.ok
<1> SUFFICES Goal
  BY DEF d, s, parsed
<1>5. ASSUME NEW body \in Seq(Chars), body # <<>>, body[1] # "bs", NoBreak(body),
             s = Slashed(slash, body),
             Cli!Split(body) = [ok |-> TRUE, hash |-> <<d>>, file |-> p]
      PROVE  /\ s \in Seq(Chars) /\ NoBreak(s)
             /\ parsed.ok <=> Cli!check_for_invalid_characters(Text(name))
             /\ parsed.path = Text(name)
             /\ parsed.expected = <<d>>
  <2>1. s \in Seq(Chars) /\ NoBreak(s)
    BY <1>1, <1>5, SlashIsSeen
  <2> DEFINE split == Cli!Split(body)
             path == IF slash = <<"bs">> THEN Cli!unescape(split.file) ELSE split.file
  <2>2. split.ok /\ split.hash = <<d>> /\ split.file = p
    BY <1>5
  <2>3. /\ parsed.ok <=> /\ split.ok
                         /\ Len(split.hash) = 1 /\ split.hash[1] \in Cli!Digests
                         /\ path # <<>>
                         /\ Cli!check_for_invalid_characters(path)
        /\ parsed.path = path
        /\ parsed.expected = split.hash
    BY <1>1, <1>5, ParsedIs DEF parsed
  <2>4. path = Text(name)
    BY <1>1, <2>2
  <2>5. Len(split.hash) = 1 /\ split.hash[1] \in Cli!Digests
    <3>1. Len(split.hash) = 1 /\ split.hash[1] = d
      BY <1>2, <2>2, SingleIs
    <3> QED
      BY <1>2, <3>1
  <2> HIDE DEF split, path
  <2> QED
    BY <1>4, <2>1, <2>2, <2>3, <2>4, <2>5
<1>6. CASE format = "no names"
  <2>1. s = <<d>> /\ s \in Seq(Chars) /\ Len(s) = 1 /\ s[1] = d
    BY <1>2, <1>3, <1>6, SingleIs
  <2>2. NoBreak(s)
    <3>1. \A i \in 1 .. Len(s) : i = 1
      BY <2>1
    <3> QED
      BY <1>2, <2>1, <3>1 DEF NoBreak
  <2>3. ~parsed.ok
    <3>1. <<>> \in {<<>>, <<"bs">>} /\ s # <<>> /\ s[1] # "bs"
      BY <1>2, <2>1
    <3>2. s = Slashed(<<>>, s)
      BY <2>1 DEF Slashed
    <3>3. parsed.ok => Cli!Split(s).ok
      BY <2>1, <3>1, <3>2, ParsedIs DEF parsed
    <3>4. ~Cli!Split(s).ok
      BY <1>2, <2>1, SplitNameless
    <3> QED
      BY <3>3, <3>4
  <2> QED
    BY <1>6, <2>1, <2>2, <2>3
<1>7. CASE format = "short"
  <2> DEFINE body == PlainLine("short", p)
  <2>1. body \in Seq(Chars) /\ Len(body) = Len(p) + 3 /\ Len(p) \in Nat /\ body[1] = "short"
    BY <1>1, <1>2, PlainLineIs
  <2>2. NoBreak(body)
    BY <1>1, <1>2, PlainHasNoBreak
  <2>3. Cli!Split(body) = [ok |-> TRUE, hash |-> <<"short">>, file |-> p]
    BY <1>1, <1>2, SplitPlain
  <2>4. s = Slashed(slash, body)
    BY <1>3, <1>7
  <2> HIDE DEF body
  <2>5. body # <<>> /\ body[1] # "bs"
    <3>1. body \in Seq(Chars) /\ Len(p) \in Nat /\ Len(body) = Len(p) + 3
      BY <2>1
    <3>2. body # <<>>
      BY <3>1
    <3> QED
      BY <2>1, <3>2
  <2>6. s \in Seq(Chars) /\ NoBreak(s)
    BY <1>1, <2>1, <2>2, <2>4, <2>5, SlashIsSeen
  <2>7. parsed.ok => Cli!Split(body).hash[1] \in Cli!Digests
    BY <1>1, <2>1, <2>4, <2>5, ParsedIs DEF parsed
  <2>8. "short" \notin Cli!Digests
    BY DigestsAre
  <2>9. Cli!Split(body).hash[1] = "short"
    <3>1. Cli!Split(body).hash = <<"short">>
      BY <2>3
    <3> QED
      BY <3>1
  <2> QED
    BY <1>7, <2>6, <2>7, <2>8, <2>9
<1>8. CASE format = "plain"
  <2> DEFINE body == PlainLine(d, p)
  <2>1. body \in Seq(Chars) /\ Len(body) = Len(p) + 3 /\ Len(p) \in Nat /\ body[1] = d
    BY <1>1, <1>2, PlainLineIs
  <2>2. NoBreak(body)
    <3>1. d # "nl"
      BY <1>2
    <3> QED
      BY <1>1, <1>2, <3>1, PlainHasNoBreak
  <2>3. Cli!Split(body) = [ok |-> TRUE, hash |-> <<d>>, file |-> p]
    <3>1. d # "sp"
      BY <1>2
    <3> QED
      BY <1>1, <1>2, <3>1, SplitPlain
  <2>4. s = Slashed(slash, body)
    BY <1>3, <1>8
  <2> HIDE DEF body
  <2>5. body # <<>> /\ body[1] # "bs"
    <3>1. body \in Seq(Chars) /\ Len(p) \in Nat /\ Len(body) = Len(p) + 3
      BY <2>1
    <3>2. body # <<>>
      BY <3>1
    <3> QED
      BY <1>2, <2>1, <3>2
  <2> QED
    BY <1>4, <1>5, <1>8, <2>1, <2>2, <2>3, <2>4, <2>5
<1>9. CASE format = "tag"
  <2> DEFINE body == TaggedLine(p, d)
             split == Cli!Split(body)
  <2>1. body \in Seq(Chars) /\ Len(body) = Len(p) + 8 /\ Len(p) \in Nat
        /\ body[1] = "BLAKE3"
    <3>1. p \in Seq(Chars) /\ d \in Chars
      BY <1>1, <1>2
    <3>2. LET u == TaggedLine(p, d)
              n == Len(p)
          IN  /\ u \in Seq(Chars) /\ Len(u) = n + 8 /\ n \in Nat
              /\ u[1] = "BLAKE3"
      BY <3>1, TaggedLineIs
    <3> QED
      BY <3>2
  <2>2. NoBreak(body)
    <3>1. d # "nl"
      BY <1>2
    <3> QED
      BY <1>1, <1>2, <3>1, TaggedHasNoBreak
  <2>3. /\ split.ok /\ Len(split.hash) = 1 => split = [ok |-> TRUE, hash |-> <<d>>, file |-> p]
        /\ ~DoubleSpace(p) => split = [ok |-> TRUE, hash |-> <<d>>, file |-> p]
    <3>1. d # "sp"
      BY <1>2
    <3> QED
      BY <1>1, <1>2, <3>1, SplitTagged
  <2>4. s = Slashed(slash, body)
    BY <1>3, <1>9
  <2> HIDE DEF body
  <2>5. body # <<>> /\ body[1] # "bs"
    <3>1. body \in Seq(Chars) /\ Len(p) \in Nat /\ Len(body) = Len(p) + 8
      BY <2>1
    <3>2. body # <<>>
      BY <3>1
    <3> QED
      BY <2>1, <3>2
  <2>6. s \in Seq(Chars) /\ NoBreak(s)
    BY <1>1, <2>1, <2>2, <2>4, <2>5, SlashIsSeen
  <2>7. parsed.ok => split.ok /\ Len(split.hash) = 1
    BY <1>1, <2>1, <2>4, <2>5, ParsedIs DEF parsed
  <2>8. CASE split = [ok |-> TRUE, hash |-> <<d>>, file |-> p]
    BY <1>4, <1>5, <1>9, <2>1, <2>2, <2>4, <2>5, <2>8
  <2>9. CASE split # [ok |-> TRUE, hash |-> <<d>>, file |-> p]
    <3>1. ~parsed.ok /\ DoubleSpace(p)
      BY <2>3, <2>7, <2>9
    <3> QED
      BY <1>1, <1>9, <2>6, <3>1
  <2> QED
    BY <2>8, <2>9
<1> HIDE DEF Goal
<1> QED
  BY <1>6, <1>7, <1>8, <1>9 DEF Settled

(***************************************************************************)
(* The lines of a checkfile.                                               *)
(***************************************************************************)

\* What is left from each line on
Tails(ls, u) ==
  /\ u \in [0 .. Len(ls) -> Seq(Chars)]
  /\ u[Len(ls)] = <<>>
  /\ \A m \in 0 .. Len(ls) - 1 : u[m] = ls[m + 1] \o <<"nl">> \o u[m + 1]

\* The end of a line
BreakIs == <<"nl">>

\* The end of a line is a text.
LEMMA BreakIsText == BreakIs \in Seq(Chars) /\ Len(BreakIs) = 1 /\ BreakIs[1] = "nl"
<1>1. "nl" \in Chars
  BY CharsAreThere
<1> QED
  BY <1>1, SingleIs DEF BreakIs

\* A line more at the end of a checkfile is one more in every tail of it.
LEMMA TailsGrow ==
  ASSUME NEW ls \in Seq(Seq(Chars)), NEW l \in Seq(Chars), NEW u, Tails(ls, u)
  PROVE  \E v : Tails(Append(ls, l), v) /\ v[0] = u[0] \o l \o <<"nl">>
<1> DEFINE n == Len(ls)
           all == Append(ls, l)
           more == l \o BreakIs
           v == [m \in 0 .. n + 1 |-> IF m <= n THEN u[m] \o more ELSE <<>>]
<1>1. /\ n \in Nat /\ Len(all) = n + 1 /\ all[n + 1] = l
      /\ \A m \in 1 .. n : all[m] = ls[m] /\ ls[m] \in Seq(Chars)
  OBVIOUS
<1>2. /\ \A m \in 0 .. n : u[m] \in Seq(Chars)
      /\ u[n] = <<>>
      /\ \A m \in 0 .. n - 1 : u[m] = ls[m + 1] \o BreakIs \o u[m + 1]
  BY DEF Tails, BreakIs
<1>3. n = Len(ls)
  OBVIOUS
<1> HIDE DEF n, all
<1>4. more \in Seq(Chars)
  BY BreakIsText, Joined
<1>5. \A m \in 0 .. n : u[m] \o more \in Seq(Chars)
  <2> HIDE DEF more
  <2> SUFFICES ASSUME NEW m \in 0 .. n PROVE u[m] \o more \in Seq(Chars)
    OBVIOUS
  <2>1. u[m] \in Seq(Chars)
    BY <1>2
  <2> QED
    BY <1>4, <2>1, Joined
<1>6. \A m \in 0 .. n : v[m] = u[m] \o more
  BY <1>1
<1>7. v[n + 1] = <<>>
  BY <1>1
<1>8. v \in [0 .. n + 1 -> Seq(Chars)]
  <2> HIDE DEF more
  <2> QED
    BY <1>1, <1>5, EmptySeq
<1> HIDE DEF v
<1>9. ASSUME NEW m \in 0 .. n PROVE v[m] = all[m + 1] \o BreakIs \o v[m + 1]
  <2>1. CASE m = n
    <3>1. u[n] \o more = more
      BY <1>2, <1>4, ConcatEmptySeq
    <3>2. more \o <<>> = more
      BY <1>4, ConcatEmptySeq
    <3>3. v[n] = more /\ v[n + 1] = <<>> /\ all[n + 1] = l
      <4>1. n \in 0 .. n
        BY <1>1
      <4> HIDE DEF more
      <4> QED
        BY <1>1, <1>6, <1>7, <3>1, <4>1
    <3> QED
      BY <2>1, <3>2, <3>3
  <2>2. CASE m # n
    <3>1. m \in 0 .. n - 1 /\ m + 1 \in 0 .. n /\ m + 1 \in 1 .. n
      BY <1>1, <2>2
    <3> DEFINE a == ls[m + 1]
               b == BreakIs
               r == u[m + 1]
    <3>2. a \in Seq(Chars) /\ b \in Seq(Chars) /\ r \in Seq(Chars) /\ all[m + 1] = a
      BY <1>1, <1>2, <3>1, BreakIsText
    <3>3. v[m] = a \o b \o r \o more /\ v[m + 1] = r \o more
      <4>1. u[m] = a \o b \o r
        BY <1>2, <3>1
      <4>2. v[m] = u[m] \o more /\ v[m + 1] = r \o more
        BY <1>6, <3>1
      <4> QED
        BY <4>1, <4>2
    <3> HIDE DEF a, b, r, more
    <3> DEFINE ab == a \o b
    <3>4. ab \in Seq(Chars)
      BY <3>2, Joined
    <3> HIDE DEF ab
    <3>5. ab \o r \o more = ab \o (r \o more)
      <4>1. r \in Seq(Chars)
        BY <3>2
      <4> QED
        BY <1>4, <3>4, <4>1, ConcatAssociative
    <3> QED
      BY <3>2, <3>3, <3>5 DEF ab, b
  <2> QED
    BY <2>1, <2>2
<1>10. Tails(all, v)
  <2>1. n + 1 - 1 = n
    BY <1>1
  <2> QED
    <3>1. v \in [0 .. Len(all) -> Seq(Chars)] /\ v[Len(all)] = <<>>
      BY <1>1, <1>7, <1>8
    <3>2. Len(all) - 1 = n
      BY <1>1, <2>1
    <3>3. \A m \in 0 .. Len(all) - 1 : v[m] = all[m + 1] \o BreakIs \o v[m + 1]
      BY <1>9, <3>2
    <3> QED
      BY <3>1, <3>3 DEF Tails, BreakIs
<1>11. v[0] = u[0] \o l \o <<"nl">>
  <2>1. 0 \in 0 .. n /\ u[0] \in Seq(Chars)
    BY <1>1, <1>2
  <2>2. v[0] = u[0] \o (l \o BreakIs)
    BY <1>6, <2>1
  <2>3. (u[0] \o l) \o BreakIs = u[0] \o (l \o BreakIs)
    <3> DEFINE all0 == u[0]
    <3>1. all0 \in Seq(Chars) /\ BreakIs \in Seq(Chars)
      BY <2>1, BreakIsText
    <3> HIDE DEF all0
    <3>2. (all0 \o l) \o BreakIs = all0 \o (l \o BreakIs)
      BY <3>1, ConcatAssociative
    <3> QED
      BY <3>2 DEF all0
  <2> QED
    BY <2>2, <2>3 DEF BreakIs
<1> QED
  BY <1>10, <1>11 DEF all

\* The first line of what is left
LEMMA FirstLine ==
  ASSUME NEW l \in Seq(Chars), NoBreak(l), NEW r \in Seq(Chars)
  PROVE  LET s == l \o <<"nl">> \o r
             ends == Cli!Min(Cli!Places(s, <<"nl">>))
         IN  /\ s # <<>>
             /\ SubSeq(s, 1, ends - 1) = l
             /\ SubSeq(s, ends + 1, Len(s)) = r
<1> DEFINE lb == l \o BreakIs
           s == lb \o r
           n == Len(l)
           places == Cli!Places(s, <<"nl">>)
<1>1. /\ lb \in Seq(Chars) /\ Len(lb) = n + 1 /\ n \in Nat
      /\ (\A i \in 1 .. n : lb[i] = l[i]) /\ lb[n + 1] = "nl"
  <2>1. /\ lb \in Seq(Chars) /\ n \in Nat /\ Len(lb) = n + Len(BreakIs)
        /\ \A i \in 1 .. n : lb[i] = l[i]
        /\ \A i \in 1 .. Len(BreakIs) : lb[i + n] = BreakIs[i]
    <3>1. BreakIs \in Seq(Chars)
      BY BreakIsText
    <3> QED
      BY <3>1, Joined
  <2> HIDE DEF lb, n
  <2>2. 1 \in 1 .. Len(BreakIs) /\ 1 + n = n + 1
    BY <2>1, BreakIsText
  <2> QED
    BY <2>1, <2>2, BreakIsText
<1>2. n = Len(l)
  OBVIOUS
<1> HIDE DEF lb, n
<1>3. /\ s \in Seq(Chars) /\ Len(s) = Len(lb) + Len(r) /\ Len(r) \in Nat
      /\ \A i \in 1 .. Len(lb) : s[i] = lb[i]
      /\ \A i \in 1 .. Len(r) : s[i + Len(lb)] = r[i]
  <2>1. lb \in Seq(Chars)
    BY <1>1
  <2> QED
    BY <2>1, Joined
<1> HIDE DEF s
<1>4. /\ Len(s) = n + 1 + Len(r) /\ (\A i \in 1 .. n : s[i] = l[i]) /\ s[n + 1] = "nl"
      /\ \A i \in 1 .. Len(r) : s[i + (n + 1)] = r[i]
  <2>1. n + 1 \in 1 .. n + 1 /\ \A i \in 1 .. n : i \in 1 .. n + 1
    BY <1>1
  <2> QED
    BY <1>1, <1>3, <2>1
<1>5. Cli!Min(places) = n + 1
  <2>1. places = {i \in 1 .. Len(s) : s[i] = "nl"}
    BY <1>3, BreakPlaces
  <2>2. n + 1 \in 1 .. Len(s)
    BY <1>1, <1>3, <1>4
  <2>3. n + 1 \in places /\ places \in SUBSET Nat
    BY <1>4, <2>1, <2>2
  <2>4. ASSUME NEW y \in places PROVE n + 1 <= y
    <3>1. y \in 1 .. Len(s) /\ s[y] = "nl"
      BY <2>1
    <3>2. y \notin 1 .. n
      BY <1>2, <1>4, <3>1 DEF NoBreak
    <3> QED
      BY <1>1, <1>3, <3>1, <3>2
  <2> HIDE DEF places
  <2> QED
    BY <2>3, <2>4, Least
<1>6. SubSeq(s, 1, n) = l
  <2> DEFINE u == SubSeq(s, 1, n)
  <2>1. 1 \in Nat /\ 1 <= 1 /\ 1 <= n + 1 /\ n <= Len(s) /\ n - 1 + 1 = n
    BY <1>1, <1>3, <1>4
  <2>2. u \in Seq(Chars) /\ Len(u) = n /\ \A i \in 1 .. n : u[i] = s[1 + i - 1]
    BY <1>1, <1>3, <2>1, Part
  <2> HIDE DEF u
  <2>3. \A i \in 1 .. n : 1 + i - 1 = i
    OBVIOUS
  <2>4. Len(u) = Len(l) /\ \A i \in 1 .. Len(u) : u[i] = l[i]
    BY <1>2, <1>4, <2>2, <2>3
  <2>5. u = l
    BY <2>2, <2>4, SeqEqual
  <2> QED
    BY <2>5 DEF u
<1>7. SubSeq(s, (n + 1) + 1, Len(s)) = r
  <2> DEFINE u == SubSeq(s, (n + 1) + 1, Len(s))
  <2>1. /\ (n + 1) + 1 \in Nat /\ Len(s) \in Nat /\ 1 <= (n + 1) + 1
           /\ (n + 1) + 1 <= Len(s) + 1
        /\ Len(s) <= Len(s) /\ Len(s) - ((n + 1) + 1) + 1 = Len(r)
    BY <1>1, <1>3, <1>4
  <2>2. u \in Seq(Chars) /\ Len(u) = Len(r) /\ \A i \in 1 .. Len(r) : u[i] = s[(n + 1) + 1 + i - 1]
    BY <1>3, <2>1, Part
  <2> HIDE DEF u
  <2>3. \A i \in 1 .. Len(r) : (n + 1) + 1 + i - 1 = i + (n + 1)
    BY <1>1
  <2>4. Len(u) = Len(r) /\ \A i \in 1 .. Len(u) : u[i] = r[i]
    BY <1>4, <2>2, <2>3
  <2>5. u = r
    BY <2>2, <2>4, SeqEqual
  <2> QED
    BY <2>5 DEF u
<1>8. s # <<>>
  <2>1. Len(s) = n + 1 + Len(r) /\ n \in Nat /\ Len(r) \in Nat /\ s \in Seq(Chars)
    BY <1>1, <1>3, <1>4
  <2> QED
    BY <2>1
<1>9. (n + 1) - 1 = n
  BY <1>1
<1>10. s = l \o <<"nl">> \o r
  BY DEF s, lb, BreakIs
<1> QED
  BY <1>5, <1>6, <1>7, <1>8, <1>9, <1>10

\* What can be said of a line
Outcomes == [ok : BOOLEAN, file : Seq(Chars), content : {"one", "two", "none"}]

\* What is there before a check has said anything
LEMMA NoOutcomeIs == [ok |-> FALSE, file |-> <<>>, content |-> "none"] \in Outcomes
<1>1. <<>> \in Seq(Chars)
  BY EmptySeq
<1>2. \A f \in Seq(Chars) : [ok |-> FALSE, file |-> f, content |-> "none"] \in Outcomes
  BY DEF Outcomes
<1> QED
  BY <1>1, <1>2

\* Names of files.
LEMMA FileIsText ==
  ASSUME NEW name, NameOK(name)
  PROVE  Cli!FileOf(name) \in Seq(Chars)
<1>1. name \in Seq(Chars) /\ "/" \in Chars
  BY CharsAreThere DEF NameOK
<1>2. Cli!Replaced(name, "bs", "/") \in Seq(Chars)
  BY <1>1, ReplacedIsText
<1> QED
  BY <1>1, <1>2 DEF Cli!FileOf

\* What a check says of a line printed for a file
LEMMA LineIsJudged ==
  ASSUME Settled, NEW name, NameOK(name), NEW c \in {"one", "two"},
         Cli!FileOf(name) \in DOMAIN content, content[Cli!FileOf(name)] \in {"one", "two", "none"}
  PROVE  LET outcome == Cli!check_one_line(Cli!Line(name, c))
         IN  /\ outcome \in Outcomes
             /\ outcome.ok => outcome.file = Cli!FileOf(name) /\ outcome.content = c
             /\ /\ format \in {"plain", "tag"}
                /\ ~Cli!Has(name, {"bad", "fffd"})
                /\ format = "tag" => ~DoubleSpace(name)
                /\ seeks[1] = seeks[2]
                /\ content[Cli!FileOf(name)] = c
                => outcome.ok
<1> DEFINE line == Cli!Line(name, c)
           parsed == Cli!parse_check_line(line)
           outcome == Cli!check_one_line(line)
           file == Cli!FileOf(parsed.path)
           found == IF file \in DOMAIN content THEN content[file] ELSE "none"
           d == Cli!Digest(c, seeks[1])
           own == Cli!FileOf(name)
           can == /\ format \in {"plain", "tag"}
                  /\ ~Cli!Has(name, {"bad", "fffd"})
                  /\ format = "tag" => ~DoubleSpace(name)
<1>1. /\ parsed.ok => /\ parsed.path = Text(name)
                      /\ parsed.expected = <<d>>
                      /\ Cli!check_for_invalid_characters(Text(name))
      /\ can => parsed.ok
  BY LineReadsBack
<1>2. parsed.ok => file = own
  <2>1. Cli!check_for_invalid_characters(Text(name)) => Cli!FileOf(Text(name)) = own
    BY TextIsText
  <2> HIDE DEF own
  <2> QED
    BY <1>1, <2>1
<1>3. parsed.ok => outcome = [ok |-> found # "none" /\ <<Cli!Digest(found, seeks[2])>> = parsed.expected,
                              file |-> file, content |-> found]
  BY DEF Cli!check_one_line
<1>4. ~parsed.ok => outcome = [ok |-> FALSE, file |-> <<>>, content |-> "none"]
  BY DEF Cli!check_one_line
<1>5. parsed.ok => found = content[own]
  BY <1>2
<1>6. content[own] \in {"one", "two", "none"}
  OBVIOUS
<1> HIDE DEF parsed, outcome, found, file, own, can
<1>7. CASE ~parsed.ok
  <2>1. outcome.ok = FALSE /\ ~can
    BY <1>1, <1>4, <1>7
  <2>2. outcome \in Outcomes
    BY <1>4, <1>7, NoOutcomeIs
  <2> QED
    BY <2>1, <2>2 DEF outcome, can
<1>8. CASE parsed.ok
  <2> DEFINE e == Cli!Digest(found, seeks[2])
  <2>1. outcome.ok = (found # "none" /\ <<e>> = parsed.expected)
        /\ outcome.file = file /\ outcome.content = found
    BY <1>3, <1>8
  <2>2. outcome.ok = (found # "none" /\ e = d)
    BY <1>1, <1>8, <2>1
  <2>3. ASSUME outcome.ok PROVE found = c
    <3>1. found \in {"one", "two"} /\ seeks[1] \in {0, 1} /\ seeks[2] \in {0, 1}
      BY <1>5, <1>6, <1>8, <2>2, <2>3 DEF Settled
    <3>2. Cli!Digest(found, seeks[2]) = Cli!Digest(c, seeks[1])
      BY <2>2, <2>3
    <3> QED
      BY <3>1, <3>2, DigestTells
  <2>4. ASSUME seeks[1] = seeks[2], content[own] = c PROVE outcome.ok
    BY <1>5, <1>8, <2>2, <2>4
  <2>5. outcome \in Outcomes
    <3>1. file \in Seq(Chars)
      BY <1>2, <1>8, FileIsText DEF own
    <3>2. found \in {"one", "two", "none"}
      BY <1>5, <1>6, <1>8
    <3>3. (found # "none" /\ <<e>> = parsed.expected) \in BOOLEAN
      OBVIOUS
    <3>4. outcome = [ok |-> found # "none" /\ <<e>> = parsed.expected, file |-> file, content |-> found]
      BY <1>3, <1>8
    <3> QED
      BY <3>1, <3>2, <3>3, <3>4 DEF Outcomes
  <2> QED
    BY <1>2, <1>8, <2>1, <2>3, <2>4, <2>5 DEF outcome, own
<1> QED
  BY <1>7, <1>8

(***************************************************************************)
(* The invariant of b3sum and its check.                                   *)
(***************************************************************************)

\* The files
Files == {Cli!FileOf(n) : n \in Names}

\* The lines printed so far
Lines == [k \in 1 .. Len(printed) |-> Cli!Line(printed[k].name, printed[k].content)]

\* Types, and where the commands are
CliShape ==
  /\ Settled
  /\ pc \in {"hash", "check", "exited"}
  /\ file_args \in Seq(Names)
  /\ content \in [Files -> {"one", "two", "none"}]
  /\ hashed \in 0 .. Len(file_args) /\ files_failed \in Nat
  /\ printed \in Seq([name : Names, content : {"one", "two"}])
  /\ checked \in Seq(Outcomes)
  /\ changes \in Nat

\* The checkfile holds the lines of which nothing has been said.
CliLines ==
  /\ Len(checked) <= Len(printed)
  /\ \E u : Tails(Lines, u) /\ checkfile = u[Len(checked)]

\* What is needed for a line to pass
CanPass(r) ==
  /\ format \in {"plain", "tag"}
  /\ seeks[1] = seeks[2]
  /\ ~Cli!Has(r.name, {"bad", "fffd"})
  /\ format = "tag" => Cli!Places(r.name, Cli!Untagged) = {}

\* What was said is true, and no more was refused than had to be.
CliVerdicts ==
  \A k \in 1 .. Len(checked) :
    /\ checked[k].ok => /\ checked[k].file = Cli!FileOf(printed[k].name)
                        /\ checked[k].content = printed[k].content
    /\ changes = 0 /\ CanPass(printed[k]) => checked[k].ok

\* As long as no file was changed, every line is of the content that is there.
CliFresh ==
  changes = 0 =>
    /\ \A f \in Files : content[f] = "one"
    /\ \A k \in 1 .. Len(printed) : printed[k].content = "one"

\* No line has failed.
AllOK == \A k \in 1 .. Len(checked) : checked[k].ok

\* What the exit status of the hashing command tells
HashedAll(status) ==
  /\ status = 0 => Len(printed) = Len(file_args)
  /\ changes = 0 => status = 0

\* The exit statuses tell what was counted.
CliCounts ==
  /\ pc = "hash" => /\ checked = <<>> /\ statuses = <<>>
                    /\ Len(printed) + files_failed = hashed
                    /\ changes = 0 => files_failed = 0
  /\ pc # "hash" => (files_failed = 0 <=> AllOK)
  /\ pc = "check" => \E s \in {0, 1} : statuses = <<s>> /\ HashedAll(s)
  /\ pc = "exited" => /\ \E s, t \in {0, 1} : /\ statuses = <<s, t>> /\ HashedAll(s)
                                              /\ t = 0 <=> files_failed = 0
                      /\ Len(checked) = Len(printed)

\* The inductive invariant of b3sum
CliInv == CliShape /\ CliLines /\ CliVerdicts /\ CliFresh /\ CliCounts

\* Each name has a content.
LEMMA FilesAre ==
  ASSUME CliShape, NEW name \in Names
  PROVE  Cli!FileOf(name) \in DOMAIN content
         /\ content[Cli!FileOf(name)] \in {"one", "two", "none"}
<1>1. Cli!FileOf(name) \in Files
  BY DEF Files
<1> QED
  BY <1>1 DEF CliShape

\* The printed lines are texts.
LEMMA LinesAre ==
  ASSUME Cli!NamesAssumption, CliShape
  PROVE  /\ Lines \in Seq(Seq(Chars)) /\ Len(Lines) = Len(printed)
         /\ \A k \in 1 .. Len(printed) :
              /\ Lines[k] = Cli!Line(printed[k].name, printed[k].content)
              /\ Lines[k] \in Seq(Chars) /\ NoBreak(Lines[k])
              /\ printed[k].name \in Names /\ NameOK(printed[k].name)
              /\ printed[k].content \in {"one", "two"}
<1> DEFINE n == Len(printed)
<1>1. n \in Nat /\ \A k \in 1 .. n : printed[k].name \in Names /\ printed[k].content \in {"one", "two"}
  <2> DEFINE R == [name : Names, content : {"one", "two"}]
  <2>1. printed \in Seq(R)
    BY DEF CliShape
  <2>2. \A x \in R : x.name \in Names /\ x.content \in {"one", "two"}
    OBVIOUS
  <2> HIDE DEF R
  <2>3. n \in Nat /\ \A k \in 1 .. n : printed[k] \in R
    BY <2>1
  <2> QED
    BY <2>2, <2>3
<1>2. \A name \in Names : NameOK(name)
  BY NamesAreTexts
<1>3. ASSUME NEW k \in 1 .. n
      PROVE  /\ Lines[k] = Cli!Line(printed[k].name, printed[k].content)
             /\ Lines[k] \in Seq(Chars) /\ NoBreak(Lines[k])
  <2> DEFINE name == printed[k].name
             c == printed[k].content
  <2>1. NameOK(name) /\ c \in {"one", "two"} /\ Settled
    BY <1>1, <1>2 DEF CliShape
  <2> HIDE DEF name, c
  <2>2. Cli!Line(name, c) \in Seq(Chars) /\ NoBreak(Cli!Line(name, c))
    BY <2>1, LineReadsBack
  <2>3. Lines[k] = Cli!Line(name, c)
    BY DEF Lines, name, c
  <2> QED
    BY <2>2, <2>3 DEF name, c
<1>4. DOMAIN Lines = 1 .. n /\ Lines = [k \in 1 .. n |-> Lines[k]]
  BY DEF Lines
<1>5. Lines \in [1 .. n -> Seq(Chars)]
  BY <1>3, <1>4
<1>6. Lines \in Seq(Seq(Chars)) /\ Len(Lines) = n
  BY <1>1, <1>5
<1> HIDE DEF n
<1> QED
  BY <1>1, <1>2, <1>3, <1>6 DEF n

\* The options stay, and with them the names of files and the lines.
OptionsStay == windows' = windows /\ format' = format /\ seeks' = seeks

\* What depends on the arguments only stays while they do: the files,
LEMMA FilesStay ==
  ASSUME OptionsStay
  PROVE  Files' = Files /\ (Settled <=> Settled')
BY DEF OptionsStay, Files, Settled, Cli!FileOf

\* the line printed for a file,
LEMMA LineStays ==
  ASSUME OptionsStay, NEW k
  PROVE  /\ Cli!Line(printed[k].name, printed[k].content)' = Cli!Line(printed'[k].name, printed'[k].content)
         /\ Cli!FileOf(printed[k].name)' = Cli!FileOf(printed'[k].name)
BY DEF OptionsStay, Cli!Line, Cli!filepath_to_string, Cli!FileOf,
       Cli!write_hex_output

\* all lines,
LEMMA LinesStay ==
  ASSUME OptionsStay, printed' = printed
  PROVE  Lines' = Lines
BY DEF Lines, OptionsStay, Cli!Line, Cli!filepath_to_string, Cli!FileOf,
       Cli!write_hex_output

\* which lines can pass,
LEMMA CanPassStays ==
  ASSUME OptionsStay, NEW k
  PROVE  CanPass(printed[k])' <=> CanPass(printed'[k])
BY DEF OptionsStay, CanPass

(***************************************************************************)
(* What each step keeps.                                                   *)
(***************************************************************************)
\* A file is hashed and its line printed, or it is missing.
LEMMA HashingKeepsShape ==
  ASSUME Cli!NamesAssumption, CliInv, Cli!hash_one_input
  PROVE  CliShape'
<1> DEFINE name == file_args[hashed + 1]
           c == content[Cli!FileOf(name)]
<1>1. OptionsStay
  BY DEF Cli!hash_one_input, OptionsStay
<1>2. hashed + 1 \in 0 .. Len(file_args) /\ name \in Names
      /\ hashed + 1 \in 1 .. Len(file_args)
  BY DEF CliInv, CliShape, Cli!hash_one_input
<1>3. c \in {"one", "two", "none"}
  BY <1>2, FilesAre DEF CliInv
<1>4. CASE c = "none" /\ files_failed' = files_failed + 1 /\ UNCHANGED <<checkfile, printed>>
  BY <1>1, <1>2, <1>4, FilesStay DEF CliInv, CliShape, Cli!hash_one_input
<1>5. CASE /\ c # "none"
           /\ printed' = Append(printed, [name |-> name, content |-> c])
           /\ files_failed' = files_failed
  <2>1. [name |-> name, content |-> c] \in [name : Names, content : {"one", "two"}]
    BY <1>2, <1>3, <1>5
  <2> HIDE DEF name, c
  <2>2. printed' \in Seq([name : Names, content : {"one", "two"}])
    BY <1>5, <2>1 DEF CliInv, CliShape
  <2> QED
    BY <1>1, <1>2, <1>5, <2>2, FilesStay DEF CliInv, CliShape, Cli!hash_one_input
<1> QED
  BY <1>4, <1>5 DEF Cli!hash_one_input

\* A line more is printed.
LEMMA HashingKeepsLines ==
  ASSUME Cli!NamesAssumption, CliInv, Cli!hash_one_input
  PROVE  CliLines'
<1> DEFINE name == file_args[hashed + 1]
           c == content[Cli!FileOf(name)]
           r == [name |-> name, content |-> c]
           l == Cli!Line(name, c)
<1>1. OptionsStay /\ checked' = checked /\ checked = <<>> /\ Len(checked) = 0
  BY DEF Cli!hash_one_input, OptionsStay, CliInv, CliCounts
<1>2. hashed + 1 \in 1 .. Len(file_args) /\ name \in Names
  BY DEF CliInv, CliShape, Cli!hash_one_input
<1>3. c \in {"one", "two", "none"}
  BY <1>2, FilesAre DEF CliInv
<1>4. PICK u : Tails(Lines, u) /\ checkfile = u[0]
  BY <1>1 DEF CliInv, CliLines
<1>5. CASE c = "none" /\ UNCHANGED <<checkfile, printed>>
  <2>1. Lines' = Lines
    BY <1>1, <1>5, LinesStay
  <2>2. Tails(Lines', u) /\ checkfile' = u[Len(checked')]
    BY <1>1, <1>4, <1>5, <2>1
  <2>3. Len(checked') <= Len(printed')
    BY <1>1, <1>5 DEF CliInv, CliLines
  <2> QED
    BY <2>2, <2>3 DEF CliLines
<1>6. CASE c # "none" /\ checkfile' = checkfile \o l \o <<"nl">> /\ printed' = Append(printed, r)
  <2> DEFINE n == Len(printed)
  <2>1. r.name = name /\ r.content = c
    OBVIOUS
  <2>2. l \in Seq(Chars)
    <3>1. NameOK(name) /\ c \in {"one", "two"} /\ Settled
      BY <1>2, <1>3, <1>6, NamesAreTexts DEF CliInv, CliShape
    <3> HIDE DEF name, c
    <3> QED
      BY <3>1, LineReadsBack
  <2>3. n \in Nat /\ printed \in Seq([name : Names, content : {"one", "two"}])
    BY DEF CliInv, CliShape
  <2>4. r \in [name : Names, content : {"one", "two"}]
    BY <1>2, <1>3, <1>6
  <2>5. CliShape /\ Lines \in Seq(Seq(Chars)) /\ Len(Lines) = n
    BY LinesAre DEF CliInv
  <2> HIDE DEF name, c, r, l, n
  <2>6. /\ Len(printed') = n + 1 /\ printed'[n + 1] = r
        /\ \A k \in 1 .. n : printed'[k] = printed[k]
    BY <1>6, <2>3, <2>4 DEF n
  <2>7. Lines' = [k \in 1 .. Len(printed') |-> Cli!Line(printed'[k].name, printed'[k].content)]
    <3>1. \A k : Cli!Line(printed[k].name, printed[k].content)' = Cli!Line(printed'[k].name, printed'[k].content)
      BY <1>1, LineStays
    <3> QED
      BY <3>1 DEF Lines
  <2>8. Lines' = Append(Lines, l)
    <3> DEFINE all == Append(Lines, l)
    <3>1. /\ Len(all) = n + 1 /\ all[n + 1] = l /\ (\A k \in 1 .. n : all[k] = Lines[k])
          /\ DOMAIN all = 1 .. n + 1
      BY <2>2, <2>3, <2>5
    <3>2. \A k \in 1 .. n : Lines[k] = Cli!Line(printed[k].name, printed[k].content)
      BY DEF Lines, n
    <3> HIDE DEF all
    <3>3. all = [k \in 1 .. n + 1 |-> all[k]]
      <4>1. all \in Seq(Seq(Chars))
        BY <2>2, <2>5 DEF all
      <4> QED
        BY <3>1, <4>1
    <3>4. ASSUME NEW k \in 1 .. n + 1 PROVE all[k] = Cli!Line(printed'[k].name, printed'[k].content)
      <4>1. CASE k \in 1 .. n
        BY <2>6, <3>1, <3>2, <4>1
      <4>2. CASE k = n + 1
        BY <2>1, <2>6, <3>1, <4>2 DEF l
      <4> QED
        BY <2>3, <4>1, <4>2
    <3>5. all = [k \in 1 .. n + 1 |-> Cli!Line(printed'[k].name, printed'[k].content)]
      BY <3>3, <3>4
    <3> QED
      BY <2>6, <2>7, <3>5 DEF all
  <2>9. PICK v : Tails(Append(Lines, l), v) /\ v[0] = u[0] \o l \o <<"nl">>
    BY <1>4, <2>2, <2>5, TailsGrow
  <2>10. Tails(Lines', v) /\ checkfile' = v[Len(checked')]
    BY <1>1, <1>4, <1>6, <2>8, <2>9
  <2>11. Len(checked') <= Len(printed')
    BY <1>1, <2>3, <2>6
  <2> QED
    BY <2>10, <2>11 DEF CliLines
<1> QED
  BY <1>5, <1>6 DEF Cli!hash_one_input

\* It is of the content that was there.
LEMMA HashingKeepsFresh ==
  ASSUME Cli!NamesAssumption, CliInv, Cli!hash_one_input
  PROVE  CliFresh'
<1> DEFINE name == file_args[hashed + 1]
           c == content[Cli!FileOf(name)]
           r == [name |-> name, content |-> c]
           n == Len(printed)
<1>1. OptionsStay /\ content' = content /\ changes' = changes
  BY DEF Cli!hash_one_input, OptionsStay
<1>2. name \in Names
  BY DEF CliInv, CliShape, Cli!hash_one_input
<1>3. Files' = Files
  BY <1>1, FilesStay
<1> SUFFICES ASSUME changes = 0
             PROVE  /\ \A f \in Files : content[f] = "one"
                    /\ \A k \in 1 .. Len(printed') : printed'[k].content = "one"
  BY <1>1, <1>3 DEF CliFresh
<1>4. (\A f \in Files : content[f] = "one") /\ \A k \in 1 .. n : printed[k].content = "one"
  BY DEF CliInv, CliFresh
<1>5. c = "one"
  <2>1. Cli!FileOf(name) \in Files
    BY <1>2 DEF Files
  <2> QED
    BY <1>4, <2>1
<1>6. printed' = Append(printed, r)
  BY <1>5 DEF Cli!hash_one_input
<1>7. r.content = "one" /\ r \in [name : Names, content : {"one", "two"}]
  BY <1>2, <1>5
<1>8. n \in Nat /\ printed \in Seq([name : Names, content : {"one", "two"}])
  BY DEF CliInv, CliShape
<1> HIDE DEF name, c, r, n
<1>9. Len(printed') = n + 1 /\ printed'[n + 1] = r /\ \A k \in 1 .. n : printed'[k] = printed[k]
  BY <1>6, <1>7, <1>8 DEF n
<1>10. ASSUME NEW k \in 1 .. n + 1 PROVE printed'[k].content = "one"
  <2>1. CASE k \in 1 .. n
    BY <1>4, <1>9, <2>1
  <2>2. CASE k = n + 1
    BY <1>7, <1>9, <2>2
  <2> QED
    BY <1>8, <2>1, <2>2
<1> QED
  BY <1>4, <1>9, <1>10

\* It is counted as hashed or as failed.
LEMMA HashingKeepsCounts ==
  ASSUME Cli!NamesAssumption, CliInv, Cli!hash_one_input
  PROVE  CliVerdicts' /\ CliCounts'
<1> DEFINE name == file_args[hashed + 1]
           c == content[Cli!FileOf(name)]
           r == [name |-> name, content |-> c]
           n == Len(printed)
<1>1. /\ checked' = checked /\ changes' = changes /\ pc' = pc /\ pc = "hash"
         /\ statuses' = statuses
      /\ checked = <<>> /\ statuses = <<>> /\ hashed' = hashed + 1
  BY DEF Cli!hash_one_input, CliInv, CliCounts
<1>2. /\ n + files_failed = hashed /\ (changes = 0 => files_failed = 0)
  BY <1>1 DEF CliInv, CliCounts
<1>3. CliVerdicts'
  BY <1>1 DEF CliVerdicts
<1>4. name \in Names
  BY DEF CliInv, CliShape, Cli!hash_one_input
<1>5. c \in {"one", "two", "none"}
  BY <1>4, FilesAre DEF CliInv
<1>6. n \in Nat /\ hashed \in Nat /\ files_failed \in Nat
      /\ printed \in Seq([name : Names, content : {"one", "two"}])
  BY DEF CliInv, CliShape
<1>7. CASE c = "none" /\ files_failed' = files_failed + 1 /\ printed' = printed
  <2>1. changes # 0
    <3>1. Cli!FileOf(name) \in Files
      BY <1>4 DEF Files
    <3> QED
      BY <1>7, <3>1 DEF CliInv, CliFresh
  <2>2. Len(printed') + files_failed' = hashed'
    BY <1>1, <1>2, <1>6, <1>7
  <2> QED
    BY <1>1, <1>3, <2>1, <2>2 DEF CliCounts
<1>8. CASE c # "none" /\ printed' = Append(printed, r) /\ files_failed' = files_failed
  <2>1. r \in [name : Names, content : {"one", "two"}]
    BY <1>4, <1>5, <1>8
  <2> HIDE DEF r, c, name
  <2>2. Len(printed') = n + 1
    BY <1>6, <1>8, <2>1
  <2>3. Len(printed') + files_failed' = hashed'
    BY <1>1, <1>2, <1>6, <1>8, <2>2
  <2> QED
    BY <1>1, <1>2, <1>3, <1>8, <2>3 DEF CliCounts
<1> QED
  BY <1>7, <1>8 DEF Cli!hash_one_input

\* What is said of a line stays said.
LEMMA VerdictsStay ==
  ASSUME OptionsStay, printed' = printed, checked' = checked, changes' = 0 => changes = 0, CliVerdicts
  PROVE  CliVerdicts'
<1>1. \A k : Cli!FileOf(printed[k].name)' = Cli!FileOf(printed[k].name) /\ (CanPass(printed[k])' <=> CanPass(printed[k]))
  BY LineStays, CanPassStays
<1> QED
  BY <1>1 DEF CliVerdicts

\* and the lines left, if no line is read.
LEMMA LinesLeftStay ==
  ASSUME OptionsStay, printed' = printed, checked' = checked, checkfile' = checkfile, CliLines
  PROVE  CliLines'
<1>1. Lines' = Lines
  BY LinesStay
<1> QED
  BY <1>1 DEF CliLines

\* The second command starts with the lines of the first.
LEMMA ExitAndCheckKeeps ==
  ASSUME CliInv, Cli!ExitAndCheck
  PROVE  CliInv'
<1>1. /\ OptionsStay /\ printed' = printed /\ checked' = checked /\ changes' = changes
      /\ checkfile' = checkfile /\ content' = content
  BY DEF Cli!ExitAndCheck, Cli!history, OptionsStay
<1>2. CliShape'
  BY <1>1, FilesStay DEF CliInv, CliShape, Cli!ExitAndCheck
<1>3. CliLines' /\ CliVerdicts'
  BY <1>1, LinesLeftStay, VerdictsStay DEF CliInv
<1>4. CliFresh'
  BY <1>1, FilesStay DEF CliInv, CliFresh
<1>5. CliCounts'
  <2> DEFINE s == Cli!ExitStatus
  <2>1. /\ pc = "hash" /\ hashed = Len(file_args) /\ pc' = "check"
           /\ statuses' = <<s>> /\ files_failed' = 0
        /\ file_args' = file_args
    BY DEF Cli!ExitAndCheck
  <2>2. /\ checked = <<>> /\ Len(printed) + files_failed = hashed
           /\ (changes = 0 => files_failed = 0)
    BY <2>1 DEF CliInv, CliCounts
  <2>3. s \in {0, 1} /\ (s = 0 => files_failed = 0) /\ (files_failed = 0 => s = 0)
    BY DEF CliInv, CliShape, Cli!ExitStatus
  <2>4. Len(printed) \in Nat /\ hashed \in Nat
    BY DEF CliInv, CliShape
  <2> HIDE DEF s
  <2>5. (s = 0 => Len(printed) = Len(file_args)) /\ (changes = 0 => s = 0)
    BY <2>1, <2>2, <2>3, <2>4
  <2>6. \E t \in {0, 1} : statuses' = <<t>> /\ (t = 0 => Len(printed') = Len(file_args')) /\ (changes' = 0 => t = 0)
    BY <1>1, <2>1, <2>3, <2>5
  <2>7. AllOK'
    BY <1>1, <2>2 DEF AllOK
  <2> QED
    BY <2>1, <2>6, <2>7 DEF CliCounts, HashedAll
<1> QED
  BY <1>2, <1>3, <1>4, <1>5 DEF CliInv

\* One exit status more.
LEMMA AppendPair ==
  ASSUME NEW S, NEW x \in S, NEW y \in S
  PROVE  Append(<<x>>, y) = <<x, y>>
<1> DEFINE s == Append(<<x>>, y)
<1>1. <<x>> \in Seq(S) /\ Len(<<x>>) = 1 /\ <<x>>[1] = x
  BY SingleIs
<1>2. s \in Seq(S) /\ Len(s) = 2 /\ s[1] = x /\ s[2] = y
  BY <1>1
<1> HIDE DEF s
<1>3. s = <<x, y>>
  BY <1>2, IsPair
<1> QED
  BY <1>3 DEF s

\* The second command ends when no line is left.
LEMMA ExitKeeps ==
  ASSUME Cli!NamesAssumption, CliInv, Cli!Exit
  PROVE  CliInv'
<1>1. /\ OptionsStay /\ printed' = printed /\ checked' = checked /\ changes' = changes
      /\ checkfile' = checkfile /\ content' = content
  BY DEF Cli!Exit, Cli!history, OptionsStay
<1>2. CliShape'
  BY <1>1, FilesStay DEF CliInv, CliShape, Cli!Exit
<1>3. CliLines' /\ CliVerdicts'
  BY <1>1, LinesLeftStay, VerdictsStay DEF CliInv
<1>4. CliFresh'
  BY <1>1, FilesStay DEF CliInv, CliFresh
<1>5. CliCounts'
  <2> DEFINE t == Cli!ExitStatus
  <2>1. /\ pc = "check" /\ checkfile = <<>> /\ pc' = "exited"
           /\ statuses' = Append(statuses, t)
        /\ files_failed' = files_failed /\ file_args' = file_args
    BY DEF Cli!Exit
  <2>2. PICK s \in {0, 1} : statuses = <<s>> /\ HashedAll(s)
    BY <2>1 DEF CliInv, CliCounts
  <2>3. (files_failed = 0 <=> AllOK) /\ files_failed \in Nat
    BY <2>1 DEF CliInv, CliCounts, CliShape
  <2>4. t \in {0, 1} /\ (t = 0 <=> files_failed = 0)
    BY <2>3 DEF Cli!ExitStatus
  <2> HIDE DEF t
  <2>5. statuses' = <<s, t>>
    <3>1. s \in {0, 1} /\ t \in {0, 1}
      BY <2>4
    <3> QED
      BY <2>1, <2>2, <3>1, AppendPair
  <2>6. HashedAll(s)'
    BY <1>1, <2>1, <2>2 DEF HashedAll
  <2>7. Len(checked) = Len(printed)
    <3>1. PICK u : Tails(Lines, u) /\ checkfile = u[Len(checked)]
      BY DEF CliInv, CliLines
    <3>2. Lines \in Seq(Seq(Chars)) /\ Len(Lines) = Len(printed)
      BY LinesAre DEF CliInv
    <3>3. Len(checked) \in Nat /\ Len(printed) \in Nat /\ Len(checked) <= Len(printed)
      BY DEF CliInv, CliLines, CliShape
    <3> SUFFICES ASSUME Len(checked) < Len(printed) PROVE FALSE
      BY <3>3
    <3> DEFINE k == Len(checked)
    <3>4. k \in 0 .. Len(Lines) - 1 /\ k + 1 \in 1 .. Len(Lines)
          /\ k + 1 \in 0 .. Len(Lines)
          /\ k + 1 \in 1 .. Len(printed)
      BY <3>2, <3>3
    <3> HIDE DEF k
    <3>5. u[k] = Lines[k + 1] \o <<"nl">> \o u[k + 1]
      BY <3>1, <3>4 DEF Tails
    <3>6. Lines[k + 1] \in Seq(Chars) /\ NoBreak(Lines[k + 1])
      BY <3>4, LinesAre DEF CliInv
    <3>7. u[k + 1] \in Seq(Chars)
      BY <3>1, <3>4 DEF Tails
    <3>8. Lines[k + 1] \o <<"nl">> \o u[k + 1] # <<>>
      BY <3>6, <3>7, FirstLine
    <3> QED
      BY <2>1, <3>1, <3>5, <3>8 DEF k
  <2>8. AllOK' <=> AllOK
    BY <1>1 DEF AllOK
  <2>9. \E x, y \in {0, 1} : /\ statuses' = <<x, y>> /\ HashedAll(x)'
                             /\ y = 0 <=> files_failed' = 0
    BY <2>1, <2>4, <2>5, <2>6
  <2>10. files_failed' = 0 <=> AllOK'
    BY <2>1, <2>3, <2>8
  <2> QED
    BY <1>1, <2>1, <2>7, <2>9, <2>10 DEF CliCounts
<1> QED
  BY <1>2, <1>3, <1>4, <1>5 DEF CliInv

\* A file changes.
LEMMA ChangeKeeps ==
  ASSUME CliInv, Cli!ChangeFile
  PROVE  CliInv'
<1>1. /\ OptionsStay /\ printed' = printed /\ checked' = checked /\ changes' = changes + 1
      /\ checkfile' = checkfile
  BY DEF Cli!ChangeFile, Cli!history, OptionsStay
<1>2. changes' # 0 /\ changes' \in Nat
  BY <1>1 DEF CliInv, CliShape
<1>3. CliShape'
  <2>1. content' \in [Files -> {"one", "two", "none"}]
    BY DEF CliInv, CliShape, Cli!ChangeFile
  <2> QED
    BY <1>1, <1>2, <2>1, FilesStay DEF CliInv, CliShape, Cli!ChangeFile
<1>4. CliLines' /\ CliVerdicts'
  BY <1>1, <1>2, LinesLeftStay, VerdictsStay DEF CliInv
<1>5. CliFresh'
  BY <1>2 DEF CliFresh
<1>6. CliCounts'
  <2>1. /\ pc' = pc /\ statuses' = statuses /\ files_failed' = files_failed
           /\ file_args' = file_args
        /\ hashed' = hashed /\ pc # "exited"
    BY DEF Cli!ChangeFile
  <2>2. AllOK' <=> AllOK
    BY <1>1 DEF AllOK
  <2>3. \A s : HashedAll(s) => HashedAll(s)'
    BY <1>1, <1>2, <2>1 DEF HashedAll
  <2> QED
    BY <1>1, <1>2, <2>1, <2>2, <2>3 DEF CliInv, CliCounts
<1> QED
  BY <1>3, <1>4, <1>5, <1>6 DEF CliInv

\* A check takes the first line that is left and judges it.
LEMMA CheckTakes ==
  ASSUME Cli!NamesAssumption, CliInv, Cli!check_one_checkfile
  PROVE  LET k == Len(checked)
             outcome == Cli!check_one_line(Lines[k + 1])
         IN  /\ k \in Nat /\ k + 1 \in 1 .. Len(printed)
             /\ checked' = Append(checked, outcome)
             /\ files_failed' = IF outcome.ok THEN files_failed ELSE files_failed + 1
             /\ \E u : Tails(Lines, u) /\ checkfile' = u[k + 1]
<1> DEFINE k == Len(checked)
<1>1. PICK u : Tails(Lines, u) /\ checkfile = u[k]
  BY DEF CliInv, CliLines
<1>2. Lines \in Seq(Seq(Chars)) /\ Len(Lines) = Len(printed)
  BY LinesAre DEF CliInv
<1>3. k \in Nat /\ Len(printed) \in Nat /\ k <= Len(printed)
  BY DEF CliInv, CliLines, CliShape
<1>4. checkfile # <<>>
  BY DEF Cli!check_one_checkfile
<1> HIDE DEF k
<1>5. k # Len(printed)
  <2>1. u[Len(printed)] = <<>>
    BY <1>1, <1>2 DEF Tails
  <2> QED
    BY <1>1, <1>4, <2>1
<1>6. k \in 0 .. Len(Lines) - 1 /\ k + 1 \in 0 .. Len(Lines) /\ k + 1 \in 1 .. Len(printed)
  BY <1>2, <1>3, <1>5
<1> DEFINE l == Lines[k + 1]
           r == u[k + 1]
<1>7. l \in Seq(Chars) /\ NoBreak(l)
  BY <1>6, LinesAre DEF CliInv
<1>8. r \in Seq(Chars)
  BY <1>1, <1>6 DEF Tails
<1>9. checkfile = l \o <<"nl">> \o r
  BY <1>1, <1>6 DEF Tails
<1> DEFINE ends == Cli!Min(Cli!Places(checkfile, <<"nl">>))
<1> HIDE DEF l, r
<1>10. SubSeq(checkfile, 1, ends - 1) = l /\ SubSeq(checkfile, ends + 1, Len(checkfile)) = r
  BY <1>7, <1>8, <1>9, FirstLine
<1>11. /\ checked' = Append(checked, Cli!check_one_line(SubSeq(checkfile, 1, ends - 1)))
       /\ files_failed' = IF Cli!check_one_line(SubSeq(checkfile, 1, ends - 1)).ok
                          THEN files_failed ELSE files_failed + 1
       /\ checkfile' = SubSeq(checkfile, ends + 1, Len(checkfile))
  BY DEF Cli!check_one_checkfile
<1> HIDE DEF ends
<1>12. /\ checked' = Append(checked, Cli!check_one_line(l))
       /\ files_failed' = IF Cli!check_one_line(l).ok THEN files_failed ELSE files_failed + 1
       /\ checkfile' = r
  BY <1>10, <1>11
<1> QED
  BY <1>1, <1>3, <1>6, <1>12 DEF k, l, r

\* And then the invariant holds again.
LEMMA CheckKeeps ==
  ASSUME Cli!NamesAssumption, CliInv, Cli!check_one_checkfile
  PROVE  CliInv'
<1> DEFINE k == Len(checked)
           outcome == Cli!check_one_line(Lines[k + 1])
           r == printed[k + 1]
           file == Cli!FileOf(r.name)
<1>1. /\ OptionsStay /\ printed' = printed /\ changes' = changes /\ content' = content
      /\ statuses' = statuses /\ pc' = pc /\ pc = "check"
         /\ file_args' = file_args /\ hashed' = hashed
  BY DEF Cli!check_one_checkfile, OptionsStay
<1>2. /\ k \in Nat /\ k + 1 \in 1 .. Len(printed)
      /\ checked' = Append(checked, outcome)
      /\ files_failed' = IF outcome.ok THEN files_failed ELSE files_failed + 1
      /\ \E u : Tails(Lines, u) /\ checkfile' = u[k + 1]
  BY CheckTakes
<1>3. /\ Lines[k + 1] = Cli!Line(r.name, r.content)
      /\ r.name \in Names /\ NameOK(r.name) /\ r.content \in {"one", "two"}
  BY <1>2, LinesAre DEF CliInv
<1>4. file \in DOMAIN content /\ content[file] \in {"one", "two", "none"} /\ file \in Files
  BY <1>3, FilesAre DEF CliInv, Files
<1>5. /\ outcome \in Outcomes
      /\ outcome.ok => outcome.file = file /\ outcome.content = r.content
      /\ CanPass(r) /\ content[file] = r.content => outcome.ok
  <2> DEFINE judged == Cli!check_one_line(Cli!Line(r.name, r.content))
  <2>1. /\ judged \in Outcomes
        /\ judged.ok => judged.file = file /\ judged.content = r.content
        /\ /\ format \in {"plain", "tag"}
           /\ ~Cli!Has(r.name, {"bad", "fffd"})
           /\ format = "tag" => ~DoubleSpace(r.name)
           /\ seeks[1] = seeks[2]
           /\ content[file] = r.content
           => judged.ok
    <3>1. Settled /\ NameOK(r.name) /\ r.content \in {"one", "two"}
          /\ Cli!FileOf(r.name) \in DOMAIN content
             /\ content[Cli!FileOf(r.name)] \in {"one", "two", "none"}
      BY <1>3, <1>4 DEF CliInv, CliShape
    <3> HIDE DEF r
    <3> QED
      BY <3>1, LineIsJudged
  <2>2. outcome = judged
    BY <1>3
  <2>3. Cli!Places(r.name, Cli!Untagged) = {} => ~DoubleSpace(r.name)
    <3>1. r.name \in Seq(Chars)
      BY <1>3 DEF NameOK
    <3> HIDE DEF r
    <3>2. Cli!Places(r.name, Cli!Untagged) = {i \in 1 .. Len(r.name) - 1 : r.name[i] = "sp" /\ r.name[i + 1] = "sp"}
      BY <3>1, UntaggedPlaces
    <3> QED
      BY <3>2 DEF DoubleSpace
  <2> HIDE DEF judged, outcome, r, file
  <2> QED
    BY <2>1, <2>2, <2>3 DEF CanPass
<1>6. /\ checked \in Seq(Outcomes) /\ files_failed \in Nat /\ printed \in Seq([name : Names, content : {"one", "two"}])
      /\ (files_failed = 0 <=> AllOK)
  BY <1>1 DEF CliInv, CliShape, CliCounts
<1>7. k = Len(checked)
  OBVIOUS
<1> HIDE DEF outcome, k
<1>8. checked' \in Seq(Outcomes) /\ Len(checked') = k + 1 /\ checked'[k + 1] = outcome
      /\ \A i \in 1 .. k : checked'[i] = checked[i]
  BY <1>2, <1>5, <1>6, <1>7
<1>9. CliShape'
  <2>1. files_failed' \in Nat
    BY <1>2, <1>6
  <2> QED
    BY <1>1, <1>8, <2>1, FilesStay DEF CliInv, CliShape
<1>10. CliLines'
  <2>1. Lines' = Lines
    BY <1>1, LinesStay
  <2>2. Len(checked') <= Len(printed')
    BY <1>1, <1>2, <1>6, <1>8
  <2> QED
    BY <1>2, <1>8, <2>1, <2>2 DEF CliLines
<1>11. CliVerdicts'
  <2>1. \A i : /\ Cli!FileOf(printed[i].name)' = Cli!FileOf(printed[i].name)
               /\ CanPass(printed[i])' <=> CanPass(printed[i])
    BY <1>1, LineStays, CanPassStays
  <2>2. ASSUME NEW i \in 1 .. Len(checked')
        PROVE  /\ checked'[i].ok => /\ checked'[i].file = Cli!FileOf(printed[i].name)
                                    /\ checked'[i].content = printed[i].content
               /\ changes = 0 /\ CanPass(printed[i]) => checked'[i].ok
    <3>1. CASE i \in 1 .. k
      BY <1>7, <1>8, <3>1 DEF CliInv, CliVerdicts
    <3>2. CASE i = k + 1
      <4>1. changes = 0 => content[file] = r.content
        <5>1. changes = 0 => content[file] = "one" /\ r.content = "one"
          BY <1>2, <1>4 DEF CliInv, CliFresh
        <5> QED
          BY <5>1
      <4> QED
        BY <1>5, <1>8, <3>2, <4>1
    <3> QED
      BY <1>2, <1>8, <3>1, <3>2
  <2> QED
    BY <1>1, <2>1, <2>2 DEF CliVerdicts
<1>12. CliFresh'
  BY <1>1, FilesStay DEF CliInv, CliFresh
<1>13. CliCounts'
  <2>1. AllOK' <=> AllOK /\ outcome.ok
    BY <1>2, <1>7, <1>8 DEF AllOK
  <2>2. files_failed' = 0 <=> AllOK'
    BY <1>2, <1>6, <2>1
  <2>3. \A s : HashedAll(s)' <=> HashedAll(s)
    BY <1>1 DEF HashedAll
  <2> QED
    BY <1>1, <2>2, <2>3 DEF CliInv, CliCounts
<1> QED
  BY <1>9, <1>10, <1>11, <1>12, <1>13 DEF CliInv

\* The invariant holds at first,
LEMMA CliStarts ==
  ASSUME Cli!NamesAssumption, Cli!Init
  PROVE  CliInv
<1>1. /\ pc = "hash" /\ hashed = 0 /\ checkfile = <<>> /\ files_failed = 0
         /\ statuses = <<>>
      /\ printed = <<>> /\ checked = <<>> /\ changes = 0
      /\ content = [f \in Files |-> "one"]
  BY DEF Cli!Init, Files
<1>2. file_args \in Seq(Names)
  <2>1. PICK x, y \in Names : file_args = IF x = y THEN <<x>> ELSE <<x, y>>
    BY DEF Cli!Init
  <2>2. <<x>> \in Seq(Names) /\ <<x, y>> \in Seq(Names)
    OBVIOUS
  <2> QED
    BY <2>1, <2>2
<1>3. Settled
  <2>1. windows \in BOOLEAN /\ format \in {"plain", "tag", "no names", "short"}
        /\ seeks \in {<<0, 0>>, <<1, 1>>, <<1, 0>>}
    BY DEF Cli!Init
  <2>2. \A s \in {<<0, 0>>, <<1, 1>>, <<1, 0>>} : s[1] \in {0, 1} /\ s[2] \in {0, 1}
    OBVIOUS
  <2>3. seeks[1] \in {0, 1} /\ seeks[2] \in {0, 1}
    BY <2>1, <2>2
  <2> QED
    BY <2>1, <2>3 DEF Settled
<1>4. CliShape
  <2>1. Len(file_args) \in Nat
    BY <1>2
  <2>2. printed \in Seq([name : Names, content : {"one", "two"}]) /\ checked \in Seq(Outcomes)
    BY <1>1, EmptySeq
  <2>3. content \in [Files -> {"one", "two", "none"}]
    BY <1>1
  <2>4. hashed \in 0 .. Len(file_args)
    BY <1>1, <2>1
  <2> QED
    BY <1>1, <1>2, <1>3, <2>2, <2>3, <2>4 DEF CliShape
<1>5. CliLines
  <2> DEFINE u == [m \in 0 .. 0 |-> <<>>]
  <2>1. Len(printed) = 0 /\ Len(checked) = 0
    BY <1>1
  <2>2. Lines \in Seq(Seq(Chars)) /\ Len(Lines) = 0
    BY <1>4, <2>1, LinesAre
  <2>3. u \in [0 .. 0 -> Seq(Chars)] /\ u[0] = <<>>
    BY EmptySeq
  <2> HIDE DEF u
  <2>4. \A m \in 0 .. 0 - 1 : FALSE
    OBVIOUS
  <2>5. Tails(Lines, u)
    BY <2>2, <2>3, <2>4 DEF Tails
  <2>6. checkfile = u[Len(checked)]
    BY <1>1, <2>1, <2>3
  <2> QED
    BY <2>1, <2>5, <2>6 DEF CliLines
<1>6. CliVerdicts
  BY <1>1 DEF CliVerdicts
<1>7. CliFresh
  BY <1>1 DEF CliFresh
<1>8. CliCounts
  BY <1>1 DEF CliCounts
<1> QED
  BY <1>4, <1>5, <1>6, <1>7, <1>8 DEF CliInv

\* while b3sum does nothing,
LEMMA CliRests ==
  ASSUME CliInv, UNCHANGED cliVars
  PROVE  CliInv'
<1>1. /\ OptionsStay /\ printed' = printed /\ checked' = checked /\ changes' = changes
      /\ checkfile' = checkfile /\ content' = content /\ pc' = pc /\ file_args' = file_args
      /\ hashed' = hashed /\ files_failed' = files_failed /\ statuses' = statuses
  BY DEF cliVars, OptionsStay
<1>2. CliShape'
  BY <1>1, FilesStay DEF CliInv, CliShape
<1>3. CliLines' /\ CliVerdicts'
  BY <1>1, LinesLeftStay, VerdictsStay DEF CliInv
<1>4. CliFresh'
  BY <1>1, FilesStay DEF CliInv, CliFresh
<1>5. CliCounts'
  <2>1. AllOK' <=> AllOK
    BY <1>1 DEF AllOK
  <2>2. \A s : HashedAll(s)' <=> HashedAll(s)
    BY <1>1 DEF HashedAll
  <2> QED
    BY <1>1, <2>1, <2>2 DEF CliInv, CliCounts
<1> QED
  BY <1>2, <1>3, <1>4, <1>5 DEF CliInv

\* and after each of its steps.
LEMMA CliSteps ==
  ASSUME Cli!NamesAssumption, CliInv, Cli!Next
  PROVE  CliInv'
<1>1. CASE Cli!hash_one_input
  BY <1>1, HashingKeepsShape, HashingKeepsLines, HashingKeepsFresh,
     HashingKeepsCounts
     DEF CliInv
<1>2. CASE Cli!ExitAndCheck
  BY <1>2, ExitAndCheckKeeps
<1>3. CASE Cli!check_one_checkfile
  BY <1>3, CheckKeeps
<1>4. CASE Cli!Exit
  BY <1>4, ExitKeeps
<1>5. CASE Cli!ChangeFile
  BY <1>5, ChangeKeeps
<1>6. CASE Cli!Terminating
  <2>1. UNCHANGED cliVars
    BY <1>6 DEF Cli!Terminating, Cli!vars, Cli!history, cliVars
  <2> QED
    BY <2>1, CliRests
<1> QED
  BY <1>1, <1>2, <1>3, <1>4, <1>5, <1>6 DEF Cli!Next

\* It says of every line that passed what CheckVouches asks,
LEMMA CliVouches ==
  ASSUME CliInv
  PROVE  Cli!CheckVouches
<1>1. DOMAIN checked = 1 .. Len(checked)
  BY DEF CliInv, CliShape
<1>2. ASSUME NEW k \in DOMAIN checked, checked[k].ok
      PROVE  checked[k].file = Cli!FileOf(printed[k].name)
             /\ checked[k].content = printed[k].content
  BY <1>1, <1>2 DEF CliInv, CliVerdicts
<1>3. ASSUME statuses = <<0, 0>>
      PROVE  Len(checked) = Len(file_args) /\ \A k \in DOMAIN checked : checked[k].ok
  <2>1. pc = "exited"
    <3>1. pc # "hash"
      BY <1>3 DEF CliInv, CliCounts
    <3>2. pc # "check"
      <4>1. ASSUME NEW s PROVE <<s>> # <<0, 0>>
        <5>1. Len(<<s>>) = 1 /\ Len(<<0, 0>>) = 2
          OBVIOUS
        <5> QED
          BY <5>1
      <4> QED
        BY <1>3, <4>1 DEF CliInv, CliCounts
    <3> QED
      BY <3>1, <3>2 DEF CliInv, CliShape
  <2>2. PICK s, t \in {0, 1} : statuses = <<s, t>> /\ HashedAll(s) /\ (t = 0 <=> files_failed = 0)
    BY <2>1 DEF CliInv, CliCounts
  <2>3. s = 0 /\ t = 0
    BY <1>3, <2>2
  <2>4. AllOK /\ Len(checked) = Len(printed)
    BY <2>1, <2>2, <2>3 DEF CliInv, CliCounts
  <2> QED
    BY <1>1, <2>2, <2>3, <2>4 DEF AllOK, HashedAll
<1> QED
  BY <1>2, <1>3 DEF Cli!CheckVouches

\* and of a checkfile that can pass that it did.
LEMMA CliPasses ==
  ASSUME CliInv
  PROVE  Cli!ListedFilesPass
<1> SUFFICES ASSUME pc = "exited", changes = 0, Cli!Checkable,
                    format = "tag" => \A k \in DOMAIN printed : Cli!Places(printed[k].name, Cli!Untagged) = {}
             PROVE  statuses = <<0, 0>>
  BY DEF Cli!ListedFilesPass
<1>1. PICK s, t \in {0, 1} : statuses = <<s, t>> /\ HashedAll(s) /\ (t = 0 <=> files_failed = 0)
  BY DEF CliInv, CliCounts
<1>2. s = 0
  BY <1>1 DEF HashedAll
<1>3. Len(checked) = Len(printed) /\ (files_failed = 0 <=> AllOK)
  BY DEF CliInv, CliCounts
<1>4. DOMAIN printed = 1 .. Len(printed)
  BY DEF CliInv, CliShape
<1>5. ASSUME NEW k \in 1 .. Len(checked) PROVE checked[k].ok
  <2>1. k \in DOMAIN printed
    BY <1>3, <1>4
  <2>2. CanPass(printed[k])
    BY <2>1 DEF Cli!Checkable, CanPass
  <2> QED
    BY <2>2 DEF CliInv, CliVerdicts
<1>6. t = 0
  BY <1>1, <1>3, <1>5 DEF AllOK
<1> QED
  BY <1>1, <1>2, <1>6

\* and of the whole
CliPart == part = "b3sum" => CliInv

-----------------------------------------------------------------------------
\* The invariant of b3sum is one of the whole.
THEOREM CliInvariant == PartSpec => []CliPart
<1>0. Cli!NamesAssumption
  BY CliAssumption
<1>1. PartInit => CliPart
  BY <1>0, CliStarts DEF PartInit, CliPart
<1>2. CliPart /\ [PartNext]_<<part, hasherVars, kernelsVars, cliVars, vars>> => CliPart'
  <2> SUFFICES ASSUME CliPart, [PartNext]_<<part, hasherVars, kernelsVars, cliVars, vars>>, part' = "b3sum"
               PROVE  CliInv'
    BY DEF CliPart
  <2>1. CASE part = "b3sum" /\ Cli!Next
    BY <1>0, <2>1, CliSteps DEF CliPart
  <2>2. CASE part' = part /\ UNCHANGED cliVars
    BY <2>2, CliRests DEF CliPart
  <2> QED
    BY <2>1, <2>2 DEF PartNext
<1> QED
  BY <1>1, <1>2, PTL DEF PartSpec

\* b3sum --check says OK of a line only if the file it was printed for still
\* has the content it had, and both commands succeed only if every argument was
\* hashed and every line passed (main.rs:353-488).
THEOREM CheckIsTrue == PartSpec => []CheckVouches
<1>1. CliPart => CheckVouches
  BY CliVouches DEF CliPart, CheckVouches
<1> QED
  BY <1>1, CliInvariant, PTL

\* A checkfile that b3sum wrote passes as long as no file was changed, unless
\* a name in it is no Unicode or, tagged, has two spaces together
\* (main.rs:244-351).
THEOREM ListedFilesDoPass == PartSpec => []ListedFilesPass
<1>1. CliPart => ListedFilesPass
  BY CliPasses DEF CliPart, ListedFilesPass
<1> QED
  BY <1>1, CliInvariant, PTL

(***************************************************************************)
(* The hasher in the run of all parts.                                     *)
(***************************************************************************)

\* A run of the whole that starts as the hasher is a run of the hasher.
LEMMA HasherRuns == PartSpec => (part = "hasher" => Hasher!Spec)
<1>1. PartInit /\ part = "hasher" => Hasher!Init
  BY DEF PartInit
<1>2. part = "hasher" /\ [PartNext]_<<part, hasherVars, kernelsVars, cliVars, vars>>
        => (part = "hasher")' /\ [Hasher!Next]_Hasher!vars
  BY DEF PartNext, hasherVars, Hasher!vars
<1> QED
  BY <1>1, <1>2, PTL DEF PartSpec, Hasher!Spec

\* A run that starts as another part never is the hasher.
LEMMA OthersStay == PartSpec => (~(part = "hasher") => [](~(part = "hasher")))
<1>1. ~(part = "hasher") /\ [PartNext]_<<part, hasherVars, kernelsVars, cliVars, vars>>
        => (~(part = "hasher"))'
  BY DEF PartNext
<1> QED
  BY <1>1, PTL DEF PartSpec

-----------------------------------------------------------------------------
\* finalize() gives the hash of the reference implementation for whatever was
\* fed, by update() in any cuts and by update_with_join() on any machine, after
\* any reset() (src/libs/blake3/src/lib.rs:1208-1400, reference_impl.rs:310-373).
THEOREM HashIsReference == PartSpec => []FinalizeMatchesReference
<1>1. Hasher!FinalizeMatchesReference => FinalizeMatchesReference
  BY DEF FinalizeMatchesReference
<1>2. ~(part = "hasher") => FinalizeMatchesReference
  BY DEF FinalizeMatchesReference
<1> QED
  BY <1>1, <1>2, HasherRuns, OthersStay, FinalizeIsReference, PTL

\* hash(), keyed_hash() and derive_key() give the hash of the Hasher for the
\* whole of the input (src/libs/blake3/src/lib.rs:879-1011).
THEOREM OneShotIsIncremental == PartSpec => []OneShotAgrees
<1>1. Hasher!OneShotAgrees => OneShotAgrees
  BY DEF OneShotAgrees
<1>2. ~(part = "hasher") => OneShotAgrees
  BY DEF OneShotAgrees
<1> QED
  BY <1>1, <1>2, HasherRuns, OthersStay, OneShotIsFinalize, PTL

\* An input split where left_subtree_len() says can be hashed in two parts, each
\* by a Hasher set to its offset; merged, the two chaining values give the hash
\* of the whole (src/libs/blake3/src/hazmat.rs:225-484).
THEOREM SubtreesAreMerged == PartSpec => []SubtreesMerge
<1>1. Hasher!SubtreesMerge => SubtreesMerge
  BY DEF SubtreesMerge
<1>2. ~(part = "hasher") => SubtreesMerge
  BY DEF SubtreesMerge
<1> QED
  BY <1>1, <1>2, HasherRuns, OthersStay, PartsAreWhole, PTL

\* The stack of chaining values fits into its ArrayVec of MAX_DEPTH + 1 places
\* (src/libs/blake3/src/lib.rs:1070-1075), whatever lengths the input is cut
\* into, wherever it starts and however often the hasher is reset.
THEOREM StackHasRoom == PartSpec => []StackFits
<1>1. Hasher!StackFits => StackFits
  BY DEF StackFits
<1>2. ~(part = "hasher") => StackFits
  BY DEF StackFits
<1> QED
  BY <1>1, <1>2, HasherRuns, OthersStay, StackStaysLow, PTL
=============================================================================
