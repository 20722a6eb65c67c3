------------------------------ MODULE Endowment ------------------------------
(***************************************************************************)
(* Two precompiles that record recurring commitments and accrue them into  *)
(* the economic loop: state rent 0x1E (src/evm/state_rent.go) and the      *)
(* storage endowment 0x17 (src/evm/precompiles.go).  Neither moves WAY.    *)
(*                                                                         *)
(* A rent slot is one big-endian number: the sum of the payments, whose    *)
(* lowest bytes are then overwritten by the flag (one byte) and the last   *)
(* paid block (two bytes): a grace period is longer than what two bytes    *)
(* hold.  Rent and operators are kept under prefixes of names.             *)
(***************************************************************************)
EXTENDS Econo, Sequences, FiniteSets

CONSTANTS
    RentAmounts,    \* payments, each positive
    Grace,          \* GracePeriod
    BlockBytes,     \* 2^16: what two bytes hold of a block number
    FlagByte,       \* 2^8: what one byte holds
    OpStakes,       \* stakes of an operator, 0 included
    Files,          \* hashes of stored files
    Whole,          \* accounts whose name has 20 characters
    MaxListed       \* how many operators getOperators returns

ASSUME EndowmentAssumption ==
    /\ RentAmounts \subseteq Nat \ {0} /\ Grace \in Nat
    /\ BlockBytes \in Nat \ {0} /\ FlagByte \in Nat \ {0, 1}
    /\ OpStakes \subseteq Nat /\ MaxListed \in Nat

VARIABLES
    rent,           \* the rent slot of each prefix
    paidBlock,      \* history: the block of its last payment ...
    asked,          \* ... and of the last getDue after it
    operators,      \* the operator list of the endowment
    opActive,       \* prefixes whose operator record is active
    proofs,         \* files proved by each operator
    startTime       \* slot 0x02 of the endowment, 0 until it is first asked for

rentVars == <<rent, paidBlock, asked>>
endowVars == <<rentVars, operators, opActive, proofs, startTime>>

EndowmentInit ==
    /\ rent = [p \in Prefixes |-> 0]
    /\ paidBlock = [p \in Prefixes |-> 0]
    /\ asked = [p \in Prefixes |-> 0]
    /\ operators = <<>>
    /\ opActive = {}
    /\ proofs = {}
    /\ startTime = 0

-----------------------------------------------------------------------------
(* State rent *)

LastRentBlock(slot) == slot % BlockBytes
Frozen(slot) == (slot \div BlockBytes) % FlagByte # 0

\* A slot whose flag and block are replaced; the flag is a whole byte.
WithBlock(slot, frozen, b) ==
    (slot \div (BlockBytes * FlagByte)) * BlockBytes * FlagByte
        + (IF frozen THEN BlockBytes ELSE 0) + (b % BlockBytes)

\* The blocks since the last payment.  (Mutant: counted in two bytes.)
ElapsedShort(slot) == (block - LastRentBlock(slot)) % BlockBytes
Elapsed(slot) == Sub64(block, LastRentBlock(slot))

\* rentPay: the payer's balance is left alone.
RentPay(c, n) ==
    /\ Call
    /\ rent' = [rent EXCEPT ![Prefix[c]] = WithBlock(@ + n, FALSE, block)]
    /\ paidBlock' = [paidBlock EXCEPT ![Prefix[c]] = block]
    /\ asked' = [asked EXCEPT ![Prefix[c]] = 0]
    /\ EconoAccrueRent(n, block)
    /\ UNCHANGED <<operators, opActive, proofs, startTime, supply, econoPolicy>>

\* rentGetDue freezes what is past the grace period; anyone may ask.  A slot of
\* zeros counts as never paid.
RentGetDue(p) ==
    /\ Call
    /\ rent' = IF rent[p] # 0 /\ Elapsed(rent[p]) > Grace
               THEN [rent EXCEPT ![p] = WithBlock(@, TRUE, LastRentBlock(@))] ELSE rent
    /\ asked' = [asked EXCEPT ![p] = block]
    /\ UNCHANGED <<paidBlock, operators, opActive, proofs, startTime, econoVars>>

-----------------------------------------------------------------------------
(* Storage endowment *)

\* registerOperator, under 20 characters of the name without 0x: the test for an
\* earlier registration reads the highest byte of the joining block, which is
\* zero, so an operator may register again.
RegisterOperator(c, n) ==
    /\ Call
    /\ n > 0
    /\ operators' = Append(operators, Prefix[Short[c]])
    /\ opActive' = opActive \cup {Prefix[Short[c]]}
    /\ EconoAccrueStorage(n, block)
    /\ UNCHANGED <<rentVars, proofs, startTime, supply, econoPolicy>>

\* unregisterOperator: the list and the count keep the entry.
UnregisterOperator(c) ==
    /\ Call
    /\ Prefix[Short[c]] \in opActive
    /\ opActive' = opActive \ {Prefix[Short[c]]}
    /\ UNCHANGED <<rentVars, operators, proofs, startTime, econoVars>>

\* submitProof looks the operator up under its whole name, registerOperator under
\* 20 characters: only an account whose name has no more is found.
SubmitProof(c, f) ==
    /\ Call
    /\ c \in Whole /\ Prefix[c] \in opActive
    /\ proofs' = proofs \cup {<<c, f>>}
    /\ UNCHANGED <<rentVars, operators, opActive, startTime, econoVars>>

\* getCurrentEpoch sets the start the first time it is asked.
GetCurrentEpoch ==
    /\ Call
    /\ startTime = 0
    /\ startTime' = block
    /\ UNCHANGED <<rentVars, operators, opActive, proofs, econoVars>>

RentNext ==
    \/ \E c \in Accounts, n \in RentAmounts : RentPay(c, n)
    \/ \E p \in Prefixes : RentGetDue(p)

StorageNext ==
    \/ \E c \in Accounts, n \in OpStakes : RegisterOperator(c, n)
    \/ \E c \in Accounts : UnregisterOperator(c)
    \/ \E c \in Accounts, f \in Files : SubmitProof(c, f)
    \/ GetCurrentEpoch

\* getOperators.
Listed == {operators[i] : i \in {j \in DOMAIN operators : j <= MaxListed}}

-----------------------------------------------------------------------------
(* Properties *)

\* Whoever asks for the rent of a name that last paid more than the grace period
\* ago finds it frozen, and it stays frozen until it pays: the two bytes kept of
\* the block only ever make a payment look older.  (A slot that a small payment
\* in a block with two zero bytes left at zero reads as never paid instead.)
LateIsFrozen ==
    \A p \in Prefixes :
        asked[p] > paidBlock[p] + Grace => Frozen(rent[p]) \/ rent[p] = 0
=============================================================================
