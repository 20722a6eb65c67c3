----------------------------- MODULE MCNetwork -----------------------------
(* The instance of Network for TLC: a seed address listed twice and a remote  *)
(* node that connects.                                                        *)
EXTENDS Network

CONSTANTS seed1, seed2, in1

SharedKeys == [c \in Conns |-> IF c \in Seeds THEN "peer" ELSE "inbound"]
=============================================================================
