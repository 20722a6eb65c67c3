------------------------------- MODULE Network -------------------------------
(***************************************************************************)
(* The two sides from which a node is reached: its peers and its RPC       *)
(* clients.  They share no state, so a behaviour is about one of them.     *)
(***************************************************************************)
EXTENDS Peers, RateLimit

VARIABLE side       \* which side the behaviour is about

vars == <<side, peerVars, limitVars>>

Init ==
    /\ side \in {"peers", "clients"}
    /\ PeersInit
    /\ LimitInit

Next ==
    \/ side = "peers" /\ PeersNext /\ UNCHANGED <<side, limitVars>>
    \/ side = "clients" /\ LimitNext /\ UNCHANGED <<side, peerVars>>

\* A goroutine that can run is run: the read loops, which nothing blocks once the
\* connection has failed.
Fairness == \A c \in Conns : WF_vars(ReadLoop(c) /\ UNCHANGED <<side, limitVars>>)

Spec == Init /\ [][Next]_vars /\ Fairness
=============================================================================
