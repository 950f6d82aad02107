----------------------------- MODULE MCNumerics -----------------------------
(***************************************************************************)
(* The two pieces of arithmetic in one run of TLC: hardhack_prover's       *)
(* transform (module Ntt) and what becomes of a seed in hardhack_miner     *)
(* (module Solution).  The initial state chooses one; the other rests.     *)
(*                                                                         *)
(* Values of Solution's constants: the extreme bytes, elements of C of     *)
(* three bytes (so that 255 * -128 * K still fits, as it does in four      *)
(* bytes for K = 50240), seeds with and without a leading zero byte.  No   *)
(* seed is all zero: every thread counts its nonce up before the first     *)
(* hash.                                                                   *)
(***************************************************************************)
EXTENDS Ntt

CONSTANTS K, ABytes, BBytes, WordBytes, Seeds, HashBytes, HashLength

VARIABLES
  program,
  stage, A, B, k, c, seed, hash, difficulty, success, done, digits, text

nttVars == <<a, phase, i, j, len, block>>
solutionVars == <<stage, A, B, k, c, seed, hash, difficulty, success, done, digits, text>>

\* data is the vector's first contents, or the solution's bytes.
Solver == INSTANCE Solution

ASSUME NumericsAssumption == NttAssumption /\ Solver!SolutionAssumption

ExtremeA == {0, 255}
ExtremeB == {-128, 127}
SomeSeeds == {<<1>>, <<58>>, <<0, 1>>, <<0, 0, 3>>}
EdgeBytes == {0, 1, 64, 127, 128, 255}

NttAtRest == a = [m \in Index |-> 0] /\ phase = "none" /\ i = 0 /\ j = 0 /\ len = 0 /\ block = <<>>

SolutionAtRest ==
  /\ stage = "none" /\ A = <<>> /\ B = <<>> /\ k = 0 /\ c = 0 /\ seed = <<>>
  /\ hash = <<>> /\ difficulty = 0 /\ success = FALSE /\ done = 0
  /\ digits = <<>> /\ text = <<>>

ProgramInit ==
  \/ program = "hardhack_prover" /\ Init /\ SolutionAtRest
  \/ program = "hardhack_miner" /\ Solver!Init /\ NttAtRest

ProgramNext ==
  \/ program = "hardhack_prover" /\ Next /\ UNCHANGED <<program, solutionVars>>
  \/ program = "hardhack_miner" /\ Solver!Next /\ UNCHANGED <<program, nttVars>>

ProgramSpec == ProgramInit /\ [][ProgramNext]_<<program, data, nttVars, solutionVars>>

-----------------------------------------------------------------------------
(* The properties of the transform are those of module Ntt.                *)

\* The 32-bit accumulator is exact.
ProductIsExact == program = "hardhack_miner" => Solver!ProductIsExact

\* The byte-wise check counts leading zero bits.
ChecksLeadingZeros == program = "hardhack_miner" => Solver!ChecksLeadingZeros

\* The Base58 text stands for the solution's bytes and no others.
TextDecodes == program = "hardhack_miner" => Solver!TextDecodes
=============================================================================
