------------------------------- MODULE Quests --------------------------------
(***************************************************************************)
(* The task registry 0x23 (src/evm/task_registry.go), the treasury 0x03    *)
(* that pays its quests, the faucet 0x27 (src/evm/faucet.go) and the       *)
(* genesis seed the founder's drip repeats (src/evm/genesis_seed.go).      *)
(*                                                                         *)
(* A caller is named by its key or by its address; Short is the address of *)
(* a caller.  Claimants are always named by address, so what a caller that *)
(* signs with a key claims and what it is later paid sit in two accounts.  *)
(***************************************************************************)
EXTENDS Econo, FiniteSets, FiniteSetsExt

CONSTANTS
    Founder,            \* FounderAddress
    Treasury, Registry, Pool, Faucet,   \* 0x03, 0x23, 0x02, 0x27
    Tasks,              \* task identifiers
    Reward,             \* taskRewardAmount, 0 for a task that is not a quest
    AutoEligible,       \* autoEligibleTasks
    Bounties,           \* description hashes of bounties
    Worths,             \* what a bounty's slot may read as, 0 included
    Amounts,            \* amounts of WAY a call may name ...
    Funds,              \* ... and the ones a treasury is funded with
    TreasurySeed, FounderSeed, FaucetSeed,
    PoolFund,           \* what the giveaway pool 0x02 holds at the start
    Giveaway,           \* what giveawayClaim pays
    DefaultDrip, DefaultCooldown,
    None

Holders == Accounts \cup {Treasury, Registry, Pool, Faucet}

ASSUME QuestsAssumption ==
    /\ IsFiniteSet(Accounts)
    /\ Founder \in Accounts /\ Short[Founder] = Founder
    /\ Accounts \cap {Treasury, Registry, Pool, Faucet} = {}
    /\ Cardinality({Treasury, Registry, Pool, Faucet}) = 4
    /\ Reward \in [Tasks -> Nat] /\ AutoEligible \subseteq Tasks
    /\ Amounts \subseteq Nat /\ Funds \subseteq Nat /\ Worths \subseteq Nat
    /\ {TreasurySeed, FounderSeed, FaucetSeed, PoolFund, Giveaway,
        DefaultDrip, DefaultCooldown} \subseteq Nat
    /\ None \notin Accounts

VARIABLES
    bal,            \* balances of the accounts and of the four precompiles
    autopilot,      \* autopilotSlot
    claim,          \* the claim slot of an account: its last task and a status
    paid,           \* slot 0x40: what quests have paid or owe
    given,          \* accounts that took the giveaway
    rec,            \* community tasks: [known, mode, reward]
    escrow,         \* WAY escrowed for each community task
    bounty,         \* the slot of each bounty, read as one number
    fix,            \* status of each account's fix of each bounty
    delegated,      \* delegations on record: [who, bounty, to whom]
    drip,           \* the faucet's [amount, cooldown, total]
    lastDrip,       \* block of the last drip under a prefix
    issued          \* history: WAY given to these accounts from outside, less what was burnt

bountyVars == <<bounty, fix, delegated>>
taskVars == <<autopilot, claim, paid, given, rec, escrow, bountyVars>>
dripVars == <<drip, lastDrip>>
moneyVars == <<bal, issued>>
questVars == <<taskVars, dripVars, moneyVars>>

NoClaim == [task |-> None, st |-> "none"]
NoTask == [known |-> FALSE, mode |-> 0, reward |-> 0]

\* GenesisBootstrapAccounts and the faucet's reserve.
Seed == [h \in Holders |-> CASE h = Treasury -> TreasurySeed
                             [] h = Founder  -> FounderSeed
                             [] h = Faucet   -> FaucetSeed
                             [] OTHER        -> 0]

QuestsInit ==
    /\ bal = [Seed EXCEPT ![Pool] = PoolFund]
    /\ autopilot = Founder
    /\ claim = [a \in Accounts |-> NoClaim]
    /\ paid = 0
    /\ given = {}
    /\ rec = [t \in Tasks |-> NoTask]
    /\ escrow = [t \in Tasks |-> 0]
    /\ bounty = [b \in Bounties |-> 0]
    /\ fix = [a \in Accounts |-> [b \in Bounties |-> "none"]]
    /\ delegated = {}
    /\ drip = [amount |-> 0, cooldown |-> 0, total |-> 0]
    /\ lastDrip = [p \in Prefixes |-> 0]
    /\ issued = TreasurySeed + FounderSeed + FaucetSeed + PoolFund

Move(f, from, to, n) == [f EXCEPT ![from] = @ - n, ![to] = @ + n]

-----------------------------------------------------------------------------
(* Quests *)

TaskClaim(c, t) ==
    /\ Call
    /\ claim' = [claim EXCEPT ![c] = [task |-> t, st |-> "claimed"]]
    /\ UNCHANGED <<autopilot, paid, given, rec, escrow, bountyVars, dripVars, moneyVars, econoVars>>

QuestCap == (supply * 5) \div 100

\* (Mutant: the reward that is about to be paid is left out of the comparison.)
WithinCapLate(n) == paid <= QuestCap
WithinCap(n) == paid + n <= QuestCap

\* verifyAndPay: the claim becomes verified and the reward counts against the
\* cap whether or not the treasury can pay it.  A payout accrues with block 0.
\* (Mutant: the claimant is credited also when the treasury is short.)
PayFromTreasuryAlways(a, n) ==
    /\ bal' = [bal EXCEPT ![Treasury] = IF @ >= n THEN @ - n ELSE @, ![a] = @ + n]
    /\ EconoAccruePayout(n, 0)
PayFromTreasury(a, n) ==
    IF bal[Treasury] >= n
    THEN /\ bal' = Move(bal, Treasury, a, n)
         /\ EconoAccruePayout(n, 0)
    ELSE UNCHANGED <<bal, econoSnap>>

VerifyAndPay(t, a) ==
    /\ Call
    /\ WithinCap(Reward[t])
    /\ claim' = [claim EXCEPT ![a] = [task |-> t, st |-> "verified"]]
    /\ paid' = paid + Reward[t]
    /\ PayFromTreasury(a, Reward[t])
    /\ UNCHANGED <<autopilot, given, rec, escrow, bountyVars, dripVars, issued, supply, econoPolicy>>

TaskVerify(v, t, a) == Level[v] >= 2 /\ VerifyAndPay(t, a)

TaskAutoVerify(v, t, a) ==
    /\ v = autopilot
    /\ t \in AutoEligible
    /\ VerifyAndPay(t, a)

QuestSetAutopilot(v, a) ==
    /\ Call
    /\ Level[v] >= 3
    /\ autopilot' = a
    /\ UNCHANGED <<claim, paid, given, rec, escrow, bountyVars, dripVars, moneyVars, econoVars>>

\* questFund creates what it adds, for any caller.
QuestFund(n) ==
    /\ Call
    /\ bal' = [bal EXCEPT ![Treasury] = @ + n]
    /\ issued' = issued + n
    /\ UNCHANGED <<taskVars, dripVars, econoVars>>

\* giveawayClaim marks the claim even when the pool cannot pay.
GiveawayClaim(c) ==
    /\ Call
    /\ c \notin given
    /\ given' = given \cup {c}
    /\ bal' = IF bal[Pool] >= Giveaway THEN Move(bal, Pool, c, Giveaway) ELSE bal
    /\ UNCHANGED <<autopilot, claim, paid, rec, escrow, bountyVars, dripVars, issued, econoVars>>

-----------------------------------------------------------------------------
(* Bounties.  The slot packs type and lane before an amount that is left-   *)
(* aligned, and is read back as one number: zero when all three are, and    *)
(* otherwise a sum no genesis covers, but that a funder may.                *)

RegisterBounty(b, n) ==
    /\ Call
    /\ bounty' = [bounty EXCEPT ![b] = n]
    /\ UNCHANGED <<autopilot, claim, paid, given, rec, escrow, fix, delegated, dripVars, moneyVars, econoVars>>

ClaimFix(c, b) ==
    /\ Call
    /\ fix' = [fix EXCEPT ![c][b] = "claimed"]
    /\ UNCHANGED <<autopilot, claim, paid, given, rec, escrow, bounty, delegated, dripVars, moneyVars, econoVars>>

\* verifyFix: the treasury pays the slot's number if it can, outside the cap of
\* the quests and each time it is asked.
VerifyFix(v, b, a) ==
    /\ Call
    /\ Level[v] >= 2
    /\ fix' = [fix EXCEPT ![a][b] = "verified"]
    /\ bal' = IF bal[Treasury] >= bounty[b] THEN Move(bal, Treasury, a, bounty[b]) ELSE bal
    /\ UNCHANGED <<autopilot, claim, paid, given, rec, escrow, bounty, delegated, dripVars, issued, econoVars>>

\* delegateMicroTask: the limit is a tenth of the slot's number; what was delegated
\* before is not found again.
DelegateMicroTask(c, b, a, n) ==
    /\ Call
    /\ Level[c] >= 2
    /\ n <= bounty[b] \div 10
    /\ delegated' = delegated \cup {<<c, b, a>>}
    /\ UNCHANGED <<autopilot, claim, paid, given, rec, escrow, bounty, fix, dripVars, moneyVars, econoVars>>

-----------------------------------------------------------------------------
(* Community tasks *)

\* createTask replaces an earlier record.  A task of level 0 that the autopilot
\* verifies reads as unknown afterwards.
CreateTask(t, level, mode, n) ==
    /\ Call
    /\ n > 0
    /\ rec' = [rec EXCEPT ![t] = [known |-> level > 0 \/ mode > 0, mode |-> mode, reward |-> n]]
    /\ UNCHANGED <<autopilot, claim, paid, given, escrow, bountyVars, dripVars, moneyVars, econoVars>>

EscrowTask(c, t, n) ==
    /\ Call
    /\ bal[c] >= n
    /\ escrow' = [escrow EXCEPT ![t] = @ + n]
    /\ bal' = Move(bal, c, Registry, n)
    /\ UNCHANGED <<autopilot, claim, paid, given, rec, bountyVars, dripVars, issued, econoVars>>

\* verifyCommunity pays from the registry's balance when the task has an escrow,
\* from the treasury otherwise; the claimant is credited in any case.
Payer(t) == IF escrow[t] > 0 THEN Registry ELSE Treasury
Covered(t) == bal[Payer(t)] >= rec[t].reward

VerifyCommunity(v, t, a) ==
    LET n == rec[t].reward
    IN /\ Call
       /\ rec[t].known
       /\ IF rec[t].mode = 0 THEN v = autopilot ELSE Level[v] >= 2
       /\ claim' = [claim EXCEPT ![a] = [task |-> t, st |-> "verified"]]
       /\ escrow' = [escrow EXCEPT ![t] = IF @ > n THEN @ - n ELSE 0]
       /\ bal' = IF Covered(t) THEN Move(bal, Payer(t), a, n) ELSE [bal EXCEPT ![a] = @ + n]
       /\ UNCHANGED <<autopilot, paid, given, rec, bountyVars, dripVars, issued, econoVars>>

-----------------------------------------------------------------------------
(* Faucet *)

\* SeedAllGenesis fills what is empty, each time the founder drips.
SeedAllGenesis == [h \in Holders |-> IF bal[h] = 0 THEN Seed[h] ELSE bal[h]]

Cooldown == IF drip.cooldown = 0 THEN DefaultCooldown ELSE drip.cooldown
DripAmount == IF drip.amount = 0 THEN DefaultDrip ELSE drip.amount

\* A drip in block 0 leaves no trace of itself: 0 stands for "never".
\* A prefix of the address is limited, with all who share it.
RateLimited(c) ==
    LET last == lastDrip[Prefix[Short[c]]] IN last # 0 /\ block < last + Cooldown

\* drip(): the founder's call seeds first, and keeps the seed even when the call
\* is then rate-limited or the reserve is short.  The caller's own account is
\* paid, the prefix of its address is limited.
FaucetDrip(c) ==
    LET seeds == Short[c] = Founder
        b == IF seeds THEN SeedAllGenesis ELSE bal
        pays == ~RateLimited(c) /\ b[Faucet] >= DripAmount
    IN /\ Call
       /\ autopilot' = IF seeds THEN Founder ELSE autopilot
       /\ issued' = issued + SumFunctionOnSet([h \in Holders |-> b[h] - bal[h]], Holders)
       /\ bal' = IF pays THEN Move(b, Faucet, c, DripAmount) ELSE b
       /\ lastDrip' = IF pays THEN [lastDrip EXCEPT ![Prefix[Short[c]]] = block] ELSE lastDrip
       /\ drip' = IF pays THEN [drip EXCEPT !.total = @ + DripAmount] ELSE drip
       /\ UNCHANGED <<claim, paid, given, rec, escrow, bountyVars, econoVars>>

\* setDripAmount and setCooldown: of all accounts only the treasury's own passes
\* isFaucetAdmin, for nothing writes the level that it looks up for the others.
SetDrip(d) ==
    /\ Call
    /\ drip' = d
    /\ UNCHANGED <<taskVars, lastDrip, moneyVars, econoVars>>

SetDripAmount(n) == SetDrip([drip EXCEPT !.amount = n])
SetCooldown(n) == SetDrip([drip EXCEPT !.cooldown = n])

-----------------------------------------------------------------------------
(* The block around the calls *)

\* What ProduceBlock does to this state after the calls of block b: the epoch's
\* policy, then the treasury's share of what the validators are paid.
QuestsBlock(b, share) ==
    LET epoch == b % EpochLength = 0
        burn == IF epoch THEN TreasuryBurn(bal[Treasury]) ELSE 0
    IN /\ IF epoch THEN AccrueEcono ELSE UNCHANGED <<econoSnap, econoPolicy>>
       /\ bal' = [bal EXCEPT ![Treasury] = @ - burn + share]
       /\ issued' = issued - burn + share
       /\ UNCHANGED <<taskVars, dripVars>>

TaskNext ==
    \/ \E c \in Accounts, t \in Tasks : TaskClaim(c, t)
    \/ \E v \in Accounts, t \in Tasks, a \in Addrs :
           TaskVerify(v, t, a) \/ TaskAutoVerify(v, t, a)
    \/ \E v \in Accounts, a \in Addrs : QuestSetAutopilot(v, a)
    \/ \E c \in Accounts : GiveawayClaim(c)

FundNext == \E n \in Funds : QuestFund(n)

BountyNext ==
    \/ \E b \in Bounties, n \in Worths : RegisterBounty(b, n)
    \/ \E c \in Accounts, b \in Bounties : ClaimFix(c, b)
    \/ \E v \in Accounts, b \in Bounties, a \in Addrs :
           VerifyFix(v, b, a) \/ \E n \in {0, 1} : DelegateMicroTask(v, b, a, n)

CommunityNext ==
    \/ \E t \in Tasks, level \in {0, 1}, mode \in {0, 1}, n \in Amounts :
           CreateTask(t, level, mode, n)
    \/ \E c \in Accounts, t \in Tasks, n \in Amounts : EscrowTask(c, t, n)
    \/ \E v \in Accounts, t \in Tasks, a \in Addrs : VerifyCommunity(v, t, a)

FaucetNext ==
    \/ \E c \in Accounts : FaucetDrip(c)
    \/ \E n \in Amounts : SetDripAmount(n) \/ SetCooldown(n)

-----------------------------------------------------------------------------
(* Properties *)

\* What quests have paid or owe never exceeds 5 percent of the live supply,
\* whichever of the two verifiers pays and whether the treasury could or not.
PaidWithinCap == paid <= QuestCap

Held == SumFunctionOnSet(bal, Holders)

\* WAY is neither lost nor made by moving it between accounts, treasury, escrow,
\* giveaway pool and faucet: each step changes what they hold by what it puts in
\* from outside.  The one exception is verifyCommunity of a task whose payer is
\* short: it makes the reward, neither more nor less.
WayConserved ==
    [][\/ Held' - Held = issued' - issued
       \/ \E t \in Tasks :
             /\ rec[t].known /\ ~Covered(t)
             /\ Held' - Held = rec[t].reward /\ issued' = issued
      ]_questVars
=============================================================================
