------------------------------ MODULE MCTwoWay ------------------------------
(***************************************************************************)
(* Instances of TwoWay for TLC.  A mint of 70 costs a fee of one unit, an  *)
(* absorbed debt of 70 earns seven.  The IDs of the two vaults agree in    *)
(* their first 20 bytes, so that they share their collateral.              *)
(***************************************************************************)
EXTENDS TwoWay, TLC

CONSTANTS u1, u2, v1, v2, usd, eur

OnePrefix == [v \in Vaults |-> "prefix"]
OwnSlot == [v \in Vaults |-> v]

\* Users are interchangeable, and so are vaults.
Symmetry == Permutations(Users) \cup Permutations(Vaults)
=============================================================================
