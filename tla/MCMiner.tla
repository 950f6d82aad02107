------------------------------- MODULE MCMiner -------------------------------
(***************************************************************************)
(* Values of Miner's constants for TLC.  Nonces that no thread can reach   *)
(* are left out of HitSets: whether they win makes no difference.          *)
(***************************************************************************)
EXTENDS Miner

Reachable ==
  {[low |-> t * Stride + i, high |-> t % Word32] : t \in Thread, i \in 1 .. Quota}

AnyHits == SUBSET Reachable

\* At most two winning nonces.
FewHits == {S \in SUBSET Reachable : Cardinality(S) <= 2}
=============================================================================
