---------------------------- MODULE MCConsensus -----------------------------
(***************************************************************************)
(* Instances of Consensus for TLC.                                         *)
(***************************************************************************)
EXTENDS Consensus

CONSTANTS v1, v2, v3
=============================================================================
