----------------------------- MODULE NonceSearch -----------------------------
(***************************************************************************)
(* What a proof-of-work search promises its caller, with no mention of     *)
(* threads, locks or counters.  Nonces are tried one at a time and never   *)
(* twice; a nonce that was tried and meets the difficulty may be settled   *)
(* on, once; and the search may only end empty-handed when nothing that    *)
(* was tried meets the difficulty.                                         *)
(*                                                                         *)
(* Module Miner implements this specification.                             *)
(***************************************************************************)
CONSTANTS
  Nonce,      (* the nonces a seed can carry                               *)
  NoNonce,    (* "no solution", not a nonce                                *)
  HitSets     (* for each possible base seed and difficulty, the set of    *)
              (* nonces whose solution hash meets the difficulty           *)

VARIABLES
  winning,    (* the nonces that meet the difficulty; fixed                *)
  attempted,  (* the nonces tried so far                                   *)
  settled,    (* the solution, or NoNonce                                  *)
  finished    (* the search has returned                                   *)

vars == <<winning, attempted, settled, finished>>

Init ==
  /\ winning \in HitSets
  /\ attempted = {}
  /\ settled = NoNonce
  /\ finished = FALSE

Try(n) ==
  /\ ~finished
  /\ n \notin attempted
  /\ attempted' = attempted \cup {n}
  /\ UNCHANGED <<winning, settled, finished>>

Settle(n) ==
  /\ ~finished
  /\ settled = NoNonce
  /\ n \in attempted \cap winning
  /\ settled' = n
  /\ UNCHANGED <<winning, attempted, finished>>

Finish ==
  /\ ~finished
  /\ settled = NoNonce => attempted \cap winning = {}
  /\ finished' = TRUE
  /\ UNCHANGED <<winning, attempted, settled>>

Next ==
  \/ \E n \in Nonce : Try(n) \/ Settle(n)
  \/ Finish

Spec == Init /\ [][Next]_vars
=============================================================================
