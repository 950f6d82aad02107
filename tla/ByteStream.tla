----------------------------- MODULE ByteStream -----------------------------
(***************************************************************************)
(* What an extended output is to its reader: one stream of bytes, a        *)
(* position in it, reads that give the bytes from there on and move past   *)
(* them, and jumps to where the caller asked for, or to the end if that    *)
(* lies beyond it.  A byte is named by its position.                       *)
(***************************************************************************)
EXTENDS Integers

CONSTANT End   (* no byte lies beyond this position *)

VARIABLES
  at,     (* the position of the next byte                                 *)
  bytes,  (* what the last operation gave                                  *)
  call    (* what the last operation was, and what it was asked for        *)

Init == at = 0 /\ bytes = <<>>

Read(n) ==
  /\ at + n <= End
  /\ bytes' = [i \in 1 .. n |-> at + i - 1]
  /\ at' = at + n

Jump(p) ==
  /\ p >= 0
  /\ at' = (IF p < End THEN p ELSE End)
  /\ bytes' = <<>>

Next ==
  \/ call'.op = "read" /\ Read(call'.n)
  \/ call'.op = "jumpTo" /\ Jump(call'.n)
  \/ call'.op = "jumpBy" /\ Jump(at + call'.n)

Spec == Init /\ [][Next]_<<at, bytes, call>>
=============================================================================
