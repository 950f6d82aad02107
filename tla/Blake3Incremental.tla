------------------------- MODULE Blake3Incremental --------------------------
(***************************************************************************)
(* The incremental hasher with the state it has in a run of all parts of   *)
(* src/libs/blake3 (MCBlake3).  What is proved of it needs no other part.  *)
(***************************************************************************)
EXTENDS Integers, Sequences

CONSTANTS CHUNK_LEN, MAX_DEPTH, MaxSimdDegree, Degrees, Modes, Offsets, Lengths, MaxInput

VARIABLES hasher, origin, fed, reference, panicked

hasherVars == <<hasher, origin, fed, reference, panicked>>

Hasher == INSTANCE Blake3Hasher

ASSUME HasherAssumption ==
  Hasher!SizesAssumption /\ Hasher!RoomAssumption /\ Hasher!DegreesAssumption
=============================================================================
