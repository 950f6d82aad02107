---------------------------- MODULE OutputReader ----------------------------
(***************************************************************************)
(* The reader of BLAKE3's extended output (src/libs/blake3/src/lib.rs).    *)
(* Output is computed a block at a time from a counter; the reader keeps   *)
(* no bytes, only the counter and how far into its block it is.  A read    *)
(* takes the rest of the block it is in, then whole blocks in one call of  *)
(* xof_many, then the beginning of the next block.                         *)
(*                                                                         *)
(* The documentation leaves reads past byte MaxPosition unspecified: they  *)
(* are not made here.                                                      *)
(***************************************************************************)
EXTENDS Integers, Sequences

CONSTANTS
  OutputBlockLen,  (* BLOCK_LEN: bytes in a block of output                *)
  MaxPosition,     (* u64::MAX: the last byte of a last whole block        *)
  MaxRead          (* bound: the longest read                              *)

ASSUME BlockAssumption == OutputBlockLen \in Nat \ {0}

ASSUME PositionAssumption == MaxPosition \in Nat /\ MaxRead \in Nat

VARIABLES
  counter,                 (* the block of output the reader is in         *)
  position_within_block,   (* bytes of it that have been read              *)
  got,                     (* what the last read gave, each byte by its    *)
                           (* block and its place in the block             *)
  call                     (* history: what the caller last asked for      *)

vars == <<counter, position_within_block, got, call>>

Call(op, n) == [op |-> op, n |-> n]

(* Bytes of one block, from a place in it on.                              *)
BlockBytes(block, from, n) == [i \in 1 .. n |-> [block |-> block, index |-> from + i - 1]]

XofMany(first, blocks) ==
  [i \in 1 .. blocks * OutputBlockLen |->
     [block |-> first + (i - 1) \div OutputBlockLen, index |-> (i - 1) % OutputBlockLen]]

Init ==
  /\ counter = 0
  /\ position_within_block = 0
  /\ got = <<>>
  /\ call = Call("read", 0)

Position == counter * OutputBlockLen + position_within_block

(* What a read of n bytes takes from the block the reader is inside of.    *)
InBlock(n) ==
  IF position_within_block = 0 THEN 0
  ELSE IF n < OutputBlockLen - position_within_block THEN n
  ELSE OutputBlockLen - position_within_block

EndsBlock(n) ==
  position_within_block # 0 /\ position_within_block + InBlock(n) = OutputBlockLen

(* Mutant: a block that has been read to its end is read again.            *)
SameBlock(n) == counter

(* The block that the whole blocks start at.                               *)
NextBlock(n) == IF EndsBlock(n) THEN counter + 1 ELSE counter

FullBlocks(n) == (n - InBlock(n)) \div OutputBlockLen

Leftover(n) == (n - InBlock(n)) % OutputBlockLen

Fill(n) ==
  LET first == NextBlock(n)
      full == FullBlocks(n)
  IN  /\ Position + n <= MaxPosition
      /\ got' = BlockBytes(counter, position_within_block, InBlock(n))
                  \o XofMany(first, full) \o BlockBytes(first + full, 0, Leftover(n))
      /\ counter' = first + full
      /\ position_within_block' =
           IF Leftover(n) > 0 THEN Leftover(n)
           ELSE IF EndsBlock(n) THEN 0
           ELSE position_within_block + InBlock(n)

SetPosition(position) ==
  /\ position_within_block' = position % OutputBlockLen
  /\ counter' = position \div OutputBlockLen
  /\ got' = <<>>

(* seek gives an error before the start and stops at the last position.    *)
Seek(target) ==
  /\ target >= 0
  /\ SetPosition(IF target < MaxPosition THEN target ELSE MaxPosition)

SeekFromStart(x) == Seek(x)

SeekFromCurrent(x) == Seek(Position + x)

Next ==
  \/ \E n \in 0 .. MaxRead :
       Fill(n) /\ call' = Call("read", n)
  \/ \E p \in 0 .. MaxPosition :
       (SetPosition(p) \/ SeekFromStart(p)) /\ call' = Call("jumpTo", p)
  \/ \E x \in -MaxPosition .. MaxPosition :
       SeekFromCurrent(x) /\ call' = Call("jumpBy", x)

Spec == Init /\ [][Next]_vars
-----------------------------------------------------------------------------
TypeOK ==
  /\ counter \in Nat
  /\ position_within_block \in 0 .. OutputBlockLen - 1

Stream ==
  INSTANCE ByteStream
    WITH End <- MaxPosition,
         at <- Position,
         bytes <- [i \in 1 .. Len(got) |-> got[i].block * OutputBlockLen + got[i].index]

(* Reads of any lengths, between seeks to anywhere, are reads of one       *)
(* stream: each gives the bytes at the reader's position and leaves the    *)
(* position behind the last of them, across the ends of blocks and up to   *)
(* the last byte there is; and a seek, from the start or from where the    *)
(* reader is, goes where it was asked to, stopping at the last position.   *)
ReadsOneStream == Stream!Spec
=============================================================================
