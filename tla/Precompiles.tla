----------------------------- MODULE Precompiles -----------------------------
(***************************************************************************)
(* What every native precompile (src/evm) is given: the account that       *)
(* calls, its Dox_Dev level, and the number of the block that is being     *)
(* produced.  ProduceBlock runs the calls of a block one after another on  *)
(* one state, so each call is one step; a call that returns an error keeps *)
(* whatever it wrote before the error.  The height is raised first: calls  *)
(* and rewards of a block see the same number, and the first block is 1.   *)
(*                                                                         *)
(* A scenario bounds a behaviour: which families of operations are used,   *)
(* how many calls are made and how many blocks are produced.  It is chosen *)
(* at the start and never changes.                                         *)
(***************************************************************************)
EXTENDS Integers

CONSTANTS
    Accounts,       \* the accounts that call
    Short,          \* callerAccountKey: the 20-byte address of a caller
    Prefix,         \* the first 20 characters of a name: keys that keep no
                    \* more are shared by the accounts that agree in them
    Level,          \* DoxDevLevel of the accounts
    Word,           \* 2^64: where a uint64 wraps
    Scenarios       \* the scenarios: [ops, calls, blocks]

ASSUME PrecompilesAssumption ==
    /\ Level \in [Accounts -> Nat]
    /\ Short \in [Accounts -> Accounts] /\ Prefix \in [Accounts -> {Prefix[a] : a \in Accounts}]
    /\ Word \in Nat \ {0}
    /\ \A s \in Scenarios : s.calls \in Nat /\ s.blocks \in 1 .. (Word - 1)

VARIABLES
    scenario,       \* the scenario of this behaviour
    block,          \* the height of the block that is being produced
    calls,          \* how many calls were made
    begun           \* whether this block has taken a call

callVars == <<scenario, block, calls, begun>>

\* An account is named by its key or by its address.
Addrs == {Short[a] : a \in Accounts}
Prefixes == {Prefix[a] : a \in Accounts}

\* uint64 arithmetic.
Add64(a, b) == (a + b) % Word
Sub64(a, b) == (a - b) % Word

CallsInit ==
    /\ scenario \in Scenarios
    /\ block = 1
    /\ calls = 0
    /\ begun = FALSE

Uses(family) == family \in scenario.ops

\* A call runs in the current block.
Call ==
    /\ calls < scenario.calls
    /\ calls' = calls + 1
    /\ begun' = TRUE
    /\ UNCHANGED <<scenario, block>>

\* The block is done; the next one begins.
NextBlock ==
    /\ block < scenario.blocks
    /\ block' = block + 1
    /\ begun' = FALSE
    /\ UNCHANGED <<scenario, calls>>

\* What happens to the process happens between two blocks.
Between ==
    /\ ~begun
    /\ calls < scenario.calls
    /\ calls' = calls + 1
    /\ UNCHANGED <<scenario, block, begun>>
=============================================================================
