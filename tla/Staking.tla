------------------------------ MODULE Staking -------------------------------
(***************************************************************************)
(* Validator emission: ProgressiveStaking (progressive_staking.go), the    *)
(* part of ProduceBlock that pays it out (chain.go) and the inflation rate *)
(* that governance moves (evm/inflation.go).  One goroutine, but every     *)
(* block reads a rate, a set of stakes, an epoch counter and a carry that  *)
(* other calls changed since the last one, and a restart loses them.       *)
(*                                                                         *)
(* The code carries the fraction of a token in a float64.  Here the carry  *)
(* is counted in units of 1/BlocksPerYear of a token, in which the         *)
(* emission of a block is AnnualEmission, a whole number: the arithmetic   *)
(* is exact where the code rounds in the fifteenth digit.                  *)
(*                                                                         *)
(* ProduceBlock credits the account named by a validator's String(), which *)
(* is one byte of its ID: validators may share an account.  RegisterStake, *)
(* RemoveStake and ClaimReward are called by tests only; here anyone may   *)
(* call them at any time.                                                  *)
(***************************************************************************)
EXTENDS Econo, Sequences, FiniteSets, FiniteSetsExt, Functions

CONSTANTS
    Validators,
    Name,           \* String() of a validator, the name of its account
    Stakes,         \* amounts a validator may register
    MinStake,       \* below it a stake earns nothing
    Brackets,       \* sequence of [upTo, pct]: percent earned up to a stake
    Supply,         \* WAYTotalSupply, the base of the emission
    Pcts,           \* inflation rates a proposal may ask for, in percent
    MinPct,         \* the bounds of the rate
    MaxPct,
    DefaultPct,     \* DefaultAnnualInflationPct
    BlocksPerYear,
    SharePct        \* QuestTreasurySharePct

ASSUME StakingAssumption ==
    /\ IsFiniteSet(Validators) /\ Name \in [Validators -> Range(Name)]
    /\ Stakes \subseteq Nat /\ MinStake \in Nat
    /\ Brackets \in Seq([upTo : Nat, pct : Nat])
    /\ \A i \in 2 .. Len(Brackets) :
          Brackets[i].upTo = 0 \/ Brackets[i - 1].upTo <= Brackets[i].upTo
    /\ Supply \in Nat /\ Pcts \subseteq Nat
    /\ MinPct \in Nat /\ MaxPct \in Nat /\ MinPct <= MaxPct
    /\ DefaultPct \in MinPct .. MaxPct
    /\ BlocksPerYear \in Nat \ {0} /\ SharePct \in Nat

VARIABLES
    stake,          \* StakedAmount of the registered validators
    accumulated,    \* Accumulated of the registered validators
    totalStaked,    \* TotalStaked
    pct,            \* activeInflationPct
    accrued,        \* accrued, in units of 1/BlocksPerYear
    epochMinted,    \* epochMinted
    balance,        \* what the accounts of validators were credited
    epochShares,    \* history: what the treasury got since epochMinted was reset
    emitted         \* history: all emission accrued so far, in the same units,
                    \* less the carries that were lost with a process

stakeVars == <<stake, accumulated, totalStaked>>
payVars == <<accrued, epochMinted, balance, epochShares, emitted>>
stakingVars == <<stakeVars, pct, payVars>>

NoValidators == [v \in {} |-> 0]

\* SetInflationPct clamps to the bounds.
Clamp(p) == IF p < MinPct THEN MinPct ELSE IF p > MaxPct THEN MaxPct ELSE p

StakingInit ==
    /\ stake = NoValidators
    /\ accumulated = NoValidators
    /\ totalStaked = 0
    /\ pct = Clamp(DefaultPct)
    /\ accrued = 0
    /\ epochMinted = 0
    /\ balance = [n \in Range(Name) |-> 0]
    /\ epochShares = 0
    /\ emitted = 0

-----------------------------------------------------------------------------
(* Rewards *)

\* The tokens of a stake that fall into bracket i; 0 means no upper end.
\* (Mutant: the whole stake earns the rate of the bracket it reaches.)
TokensAtTopRate(i, s) ==
    LET lower == IF i = 1 THEN 0 ELSE Brackets[i - 1].upTo
    IN IF lower < s /\ (Brackets[i].upTo = 0 \/ s <= Brackets[i].upTo) THEN s ELSE 0
TokensInBracket(i, s) ==
    LET lower == IF i = 1 THEN 0 ELSE Brackets[i - 1].upTo
        above == IF s > lower THEN s - lower ELSE 0
    IN IF Brackets[i].upTo = 0 THEN above ELSE Min({above, Brackets[i].upTo - lower})

CalculateReward(s) ==
    IF s < MinStake THEN 0
    ELSE SumFunctionOnSet([i \in DOMAIN Brackets |-> TokensInBracket(i, s) * Brackets[i].pct],
                          DOMAIN Brackets) \div 100

TotalAnnual == SumFunctionOnSet([v \in DOMAIN stake |-> CalculateReward(stake[v])], DOMAIN stake)

AnnualEmission == (Supply * pct) \div 100
EpochCap == (AnnualEmission * EpochLength) \div BlocksPerYear

\* The whole tokens a block may pay when it has carry a and the epoch has minted
\* m: a cap of zero does not bind.  (Mutant: without the test for an exhausted
\* epoch the unsigned difference wraps.)
AvailableWraps(a, m) ==
    LET whole == a \div BlocksPerYear
    IN IF EpochCap > 0 /\ whole > 0 /\ m + whole > EpochCap THEN Sub64(EpochCap, m) ELSE whole
Available(a, m) ==
    LET whole == a \div BlocksPerYear
        left == IF m < EpochCap THEN EpochCap - m ELSE 0
    IN IF EpochCap > 0 THEN Min({whole, left}) ELSE whole

\* A validator's part of n tokens, rounded down.
Share(v, n) ==
    IF TotalAnnual = 0 \/ v \notin DOMAIN stake THEN 0
    ELSE (n * CalculateReward(stake[v])) \div TotalAnnual

\* What is left of the carry a after paying p of n available tokens: the part
\* lost to rounding stays.  (Mutant: all that was available is taken.)
CarryAllTaken(a, n, p) == a - n * BlocksPerYear
Carry(a, n, p) == a - p * BlocksPerYear

-----------------------------------------------------------------------------
(* Operations *)

\* DistributeBlockReward in block b: rollover at the epoch's end, then what may
\* be paid.  Without a stake that earns, nothing accrues.
MintedSoFar(b) == IF b % EpochLength = 0 THEN 0 ELSE epochMinted
Emission == IF TotalAnnual = 0 THEN 0 ELSE AnnualEmission
Payable(b) == IF TotalAnnual = 0 THEN 0 ELSE Available(accrued + Emission, MintedSoFar(b))
Rewards(b) == [v \in DOMAIN stake |-> Share(v, Payable(b))]
Paid(b) == SumFunctionOnSet(Rewards(b), DOMAIN stake)

\* What an account gets: the rewards of all validators with its name.
Credit(n, b) == SumFunctionOnSet(Rewards(b), {v \in DOMAIN stake : Name[v] = n})

TreasuryShareOf(minted) == (minted * SharePct) \div 100

\* The part of ProduceBlock that pays the validators' accounts and adds to the
\* live supply.
StakingBlock(b) ==
    /\ emitted' = emitted + Emission
    /\ accrued' = IF Paid(b) = 0 THEN accrued + Emission
                  ELSE Carry(accrued + Emission, Payable(b), Paid(b))
    /\ epochMinted' = MintedSoFar(b) + Paid(b)
    /\ accumulated' = [v \in DOMAIN stake |-> accumulated[v] + Rewards(b)[v]]
    /\ balance' = [n \in Range(Name) |-> balance[n] + Credit(n, b)]
    /\ epochShares' = (IF b % EpochLength = 0 THEN 0 ELSE epochShares) + TreasuryShareOf(Paid(b))
    /\ supply' = supply + Paid(b)
    /\ UNCHANGED <<stake, totalStaked, pct>>

\* RegisterStake replaces the stake of a registered validator and keeps what it
\* accumulated.  (Mutant: the old stake stays in the total.)
RegisterStakeAdding(v, s) ==
    /\ Call
    /\ totalStaked' = totalStaked + s
    /\ stake' = [w \in DOMAIN stake \cup {v} |-> IF w = v THEN s ELSE stake[w]]
    /\ accumulated' = [w \in DOMAIN stake \cup {v} |->
                          IF w \in DOMAIN stake THEN accumulated[w] ELSE 0]
    /\ UNCHANGED <<pct, payVars, econoVars>>
RegisterStake(v, s) ==
    /\ Call
    /\ totalStaked' = totalStaked + s - (IF v \in DOMAIN stake THEN stake[v] ELSE 0)
    /\ stake' = [w \in DOMAIN stake \cup {v} |-> IF w = v THEN s ELSE stake[w]]
    /\ accumulated' = [w \in DOMAIN stake \cup {v} |->
                          IF w \in DOMAIN stake THEN accumulated[w] ELSE 0]
    /\ UNCHANGED <<pct, payVars, econoVars>>

\* RemoveStake: what was accumulated and not claimed is forgotten.
RemoveStake(v) ==
    /\ Call
    /\ v \in DOMAIN stake
    /\ totalStaked' = totalStaked - stake[v]
    /\ stake' = [w \in DOMAIN stake \ {v} |-> stake[w]]
    /\ accumulated' = [w \in DOMAIN stake \ {v} |-> accumulated[w]]
    /\ UNCHANGED <<pct, payVars, econoVars>>

\* ClaimReward: the counter is reset; the account was credited block by block.
ClaimReward(v) ==
    /\ Call
    /\ v \in DOMAIN stake /\ accumulated[v] > 0
    /\ accumulated' = [accumulated EXCEPT ![v] = 0]
    /\ UNCHANGED <<stake, totalStaked, pct, payVars, econoVars>>

\* A passed inflation proposal sets the rate; one outside the bounds does not
\* (CalldataToInflationPct).
SetInflationPct(p) == pct' = IF MinPct <= p /\ p <= MaxPct THEN Clamp(p) ELSE pct

\* A restart builds a new ProgressiveStaking: the default rate, no stakes and no
\* carry.  The accounts keep what they were paid.
StakingRestart ==
    /\ stake' = NoValidators
    /\ accumulated' = NoValidators
    /\ totalStaked' = 0
    /\ pct' = Clamp(DefaultPct)
    /\ accrued' = 0
    /\ epochMinted' = 0
    /\ epochShares' = 0
    /\ emitted' = emitted - accrued
    /\ UNCHANGED balance

StakeNext == \E v \in Validators, s \in Stakes : RegisterStake(v, s)
UnstakeNext == \E v \in Validators : RemoveStake(v) \/ ClaimReward(v)

-----------------------------------------------------------------------------
(* Properties *)

TotalPaid == SumFunctionOnSet(balance, Range(Name))

\* "no emission is ever destroyed": whatever the rounding of shares, the cuts at
\* the epoch cap and the changes of rate and stakes, what accrued is either
\* still carried or was credited to validators' accounts, shared or not, and
\* counted in the live supply; only a restart drops a carry, and the carry, a
\* difference, is never negative.
EmissionConserved ==
    /\ accrued >= 0
    /\ TotalPaid * BlocksPerYear + accrued = emitted
    /\ supply = Supply0 + TotalPaid

\* A block that mints leaves what its epoch created, to validators and on top of
\* it to the treasury, within the cap at the rate of that moment and the share of
\* that cap: also when the rate was just lowered below what the epoch already
\* minted, or a carry of earlier epochs is waiting.  A restart counts from zero.
EpochCapHolds ==
    [][supply' > supply /\ EpochCap > 0 =>
          epochMinted' + epochShares' <= EpochCap + TreasuryShareOf(EpochCap)
      ]_<<supply, stakingVars>>

\* The bracket table and the split keep the order of the stakes: no block grants
\* a validator more than another with at least the same stake.
PaidByStake ==
    [][block' # block =>
          \A v, w \in DOMAIN stake :
             stake[v] <= stake[w] =>
                 accumulated'[v] - accumulated[v] <= accumulated'[w] - accumulated[w]
      ]_<<block, stakingVars>>

\* TotalStaked is the sum of the registered stakes through registrations,
\* changes and removals in any order.
TotalStakedExact == totalStaked = SumFunctionOnSet(stake, DOMAIN stake)
=============================================================================
