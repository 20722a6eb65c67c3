------------------------------ MODULE Finality ------------------------------
(***************************************************************************)
(* What consensus promises to the rest of the node: a ledger of finalized  *)
(* block heights that only grows upwards.  A block is finalized once, and  *)
(* never at or below a height that is already final, so a reader of        *)
(* CurrentHeight never sees history rewritten underneath it.  Heights may  *)
(* be skipped: a proposal that gathers no quorum leaves a gap.             *)
(***************************************************************************)
EXTENDS Naturals

VARIABLES
    ledger,   \* heights of the finalized blocks
    tip       \* the greatest of them, 0 before the first

vars == <<ledger, tip>>

Init ==
    /\ ledger = {}
    /\ tip = 0

Finalize ==
    /\ tip' \in Nat
    /\ tip' > tip
    /\ ledger' = ledger \cup {tip'}

Spec == Init /\ [][Finalize]_vars
=============================================================================
