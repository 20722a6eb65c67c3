------------------------------ MODULE MCChain -------------------------------
(***************************************************************************)
(* Instances of Chain for TLC: two accounts, alice and bob, and alice is   *)
(* the development account.                                                *)
(***************************************************************************)
EXTENDS Chain, TLC

CONSTANTS alice, bob, elsewhere

Balances == (alice :> 0) @@ (bob :> 2)

Tx(from, to, kind, nonce, value, gasLimit, gasUsed, ok, lane) ==
    [from |-> from, to |-> to, kind |-> kind, nonce |-> nonce, value |-> value,
     gasLimit |-> gasLimit, gasUsed |-> gasUsed, ok |-> ok, lane |-> lane]

\* alice signs with a key, so what revm computes for her lands on an account
\* outside the instance; bob has an address of 20 bytes.
Images == (alice :> elsewhere) @@ (bob :> bob)

Pay(from, to, nonce, value) ==
    Tx(from, to, "transfer", nonce, value, 1, 0, TRUE, "consensus")

\* A transfer, then a call that pays, one transfer back that bob cannot cover
\* before the first has paid him and one with a limit below the gas it costs,
\* and a call that fails with its gas spent.
Payments ==
    { Pay(alice, bob, 0, 2), Pay(bob, alice, 0, 2),
      Tx(bob, alice, "transfer", 0, 2, 0, 0, TRUE, "consensus"),
      Tx(alice, bob, "call", 1, 1, 1, 1, TRUE, "consensus"),
      Tx(alice, bob, "call", 0, 1, 1, 1, FALSE, "consensus") }

\* A self-transfer, a failing and a successful deployment, a precompile call.
Deployments ==
    { Pay(alice, alice, 0, 1),
      Tx(bob, bob, "deploy", 0, 0, 1, 1, FALSE, "consensus"),
      Tx(bob, alice, "precompile", 0, 1, 1, 1, TRUE, "consensus"),
      Tx(alice, bob, "deploy", 1, 1, 1, 1, TRUE, "consensus") }

\* The same, and a transaction of a lane that nothing takes from.
DeploymentsAndLanes ==
    Deployments \cup { Tx(alice, bob, "call", 0, 0, 1, 1, TRUE, "oracle") }

\* What way_fundGenesis is asked for.
Amounts == {2, -1}
=============================================================================
