------------------------------- MODULE TwoWay -------------------------------
(***************************************************************************)
(* The 2WAY stablecoin: the vaults of precompile 0x18 (evm/two_way.go) and *)
(* the Stability Pool of precompile 0x19 (evm/stability_pool.go).  Each    *)
(* keeps its state in storage slots and each reads, and the vaults also    *)
(* write, the slots of the other.  Calls come one after the other, from    *)
(* ProduceBlock.  A call that returns an error is not rolled back: what it *)
(* wrote before stays.                                                     *)
(*                                                                         *)
(* A slot is a 256-bit word without a sign; a slot never written reads as  *)
(* zero.  Sums beyond 2^256 are out of the bounds here.  No code writes a  *)
(* fee parameter, so the fee is the default for every coin.                *)
(*                                                                         *)
(* Keys keep 20 of the 32 bytes of a vault ID for collateral and 31 for    *)
(* debt: vaults may share slots.  Coins have names of at most 11 bytes,    *)
(* which keys keep whole.                                                  *)
(***************************************************************************)
EXTENDS Integers, FiniteSets, FiniteSetsExt, Functions

CONSTANTS
    Users,
    Vaults,
    Coins,
    Accepted,       \* coins whose minCRatio parameter is set; only tests write one
    CollSlot,       \* the key a vault's collateral is under, without the coin
    DebtSlot,       \* the key of a vault's debt
    Amounts,        \* amounts a caller may mint, burn, deposit or withdraw
    Collaterals,    \* amounts of collateral a caller may name
    Prices,         \* prices an oracle may set, in units of PriceOne
    PriceOne,       \* one dollar (1e8 in the code)
    MaxDeposit,     \* bound: a user's deposit in the pool
    MaxRewards,     \* bound: the reward buckets of the pool
    MaxFees         \* bound: the fees routed to a user

ASSUME TwoWayAssumption ==
    /\ IsFiniteSet(Users) /\ IsFiniteSet(Vaults) /\ IsFiniteSet(Coins)
    /\ Accepted \subseteq Coins
    /\ CollSlot \in [Vaults -> Range(CollSlot)] /\ DebtSlot \in [Vaults -> Range(DebtSlot)]
    /\ \A v, w \in Vaults : DebtSlot[v] = DebtSlot[w] => CollSlot[v] = CollSlot[w]
    /\ Amounts \subseteq Nat /\ Collaterals \subseteq Nat /\ Prices \subseteq Nat
    /\ PriceOne \in Nat \ {0}
    /\ MaxDeposit \in Nat /\ MaxRewards \in Nat /\ MaxFees \in Nat

VARIABLES
    coll,       \* collateral under each key, in each coin
    price,      \* oracle price of each coin, 0 when never set
    debt,       \* debt under each key
    totalDebt,  \* the protocol's count of all debt
    minted,     \* each user's active minted debt, the exclusivity lock
    deposit,    \* each user's deposit in the pool
    lpFee,      \* mint fees routed to each user
    pool        \* totalDeposits, twoWayBalance and the reward buckets

vars == <<coll, price, debt, totalDebt, minted, deposit, lpFee, pool>>
vaultVars == <<coll, price, debt, totalDebt>>

Init ==
    /\ coll = [k \in Range(CollSlot) |-> [c \in Coins |-> 0]]
    /\ price = [c \in Coins |-> 0]
    /\ debt = [k \in Range(DebtSlot) |-> 0]
    /\ totalDebt = 0
    /\ minted = [u \in Users |-> 0]
    /\ deposit = [u \in Users |-> 0]
    /\ lpFee = [u \in Users |-> 0]
    /\ pool = [deposits |-> 0, balance |-> 0, way |-> 0, sway |-> 0, total |-> 0]

Coll(v) == coll[CollSlot[v]]
Debt(v) == debt[DebtSlot[v]]

\* writeSlot stores val.Bytes(), which has no sign.
WriteSlot(x) == IF x < 0 THEN -x ELSE x

\* A subtraction that stops at zero.
Monus(x, y) == IF x < y THEN 0 ELSE x - y

Units(f) == MapThenSumSet(LAMBDA c : f[c], Coins)

\* The value of a vault's collateral: a coin without a price counts one dollar,
\* each coin is rounded down.
ValueUSD(f) ==
    MapThenSumSet(
        LAMBDA c : (f[c] * (IF price[c] = 0 THEN PriceOne ELSE price[c])) \div PriceOne,
        Coins)

\* isAboveMinCRatio: units of collateral, whatever they are worth.
AboveMinCRatio(f, d) == d # 0 => (Units(f) * 10000) \div d >= 13000

AboveLiquidationRatio(v) ==
    Debt(v) # 0 => (ValueUSD(Coll(v)) * 10000) \div Debt(v) > 14000

\* A reward enters the WAY and SWAY buckets half each, the odd unit to SWAY.
AddRewards(p, r) ==
    [p EXCEPT !.way = @ + (r \div 2), !.sway = @ + (r - (r \div 2)), !.total = @ + r]

-----------------------------------------------------------------------------
(* The vaults, 0x18 *)

\* twoWayDeposit overwrites the collateral of the vault in this coin.
TwoWayDeposit(v, c, a) ==
    /\ c \in Accepted
    /\ coll' = [coll EXCEPT ![CollSlot[v]][c] = a]
    /\ UNCHANGED <<price, debt, totalDebt, minted, deposit, lpFee, pool>>

\* twoWayMint: refused to minters, to depositors of the pool and without
\* collateral.  The fee is booked before the ratio is checked.
\* (Mutant: depositors are not refused.)
TwoWayMintToLP(u, v, a) ==
    /\ minted[u] = 0
    /\ Units(Coll(v)) # 0
    /\ LET fee == (a * 150) \div 10000 IN
        /\ pool.total + fee <= MaxRewards /\ lpFee[u] + fee <= MaxFees
        /\ pool' = AddRewards(pool, fee)
        /\ lpFee' = [lpFee EXCEPT ![u] = @ + fee]
    /\ IF AboveMinCRatio(Coll(v), Debt(v) + a)
         THEN /\ debt' = [debt EXCEPT ![DebtSlot[v]] = @ + a]
              /\ totalDebt' = totalDebt + a
              /\ minted' = [minted EXCEPT ![u] = @ + a]
         ELSE UNCHANGED <<debt, totalDebt, minted>>
    /\ UNCHANGED <<coll, price, deposit>>
TwoWayMint(u, v, a) ==
    /\ minted[u] = 0 /\ deposit[u] = 0
    /\ Units(Coll(v)) # 0
    /\ LET fee == (a * 150) \div 10000 IN
        /\ pool.total + fee <= MaxRewards /\ lpFee[u] + fee <= MaxFees
        /\ pool' = AddRewards(pool, fee)
        /\ lpFee' = [lpFee EXCEPT ![u] = @ + fee]
    /\ IF AboveMinCRatio(Coll(v), Debt(v) + a)
         THEN /\ debt' = [debt EXCEPT ![DebtSlot[v]] = @ + a]
              /\ totalDebt' = totalDebt + a
              /\ minted' = [minted EXCEPT ![u] = @ + a]
         ELSE UNCHANGED <<debt, totalDebt, minted>>
    /\ UNCHANGED <<coll, price, deposit>>

TwoWayWithdraw(v, c, a) ==
    /\ Coll(v)[c] >= a
    /\ LET after == [Coll(v) EXCEPT ![c] = @ - a] IN
        /\ AboveMinCRatio(after, Debt(v))
        /\ coll' = [coll EXCEPT ![CollSlot[v]] = after]
    /\ UNCHANGED <<price, debt, totalDebt, minted, deposit, lpFee, pool>>

\* twoWayBurn: anyone may repay any vault; the vault's debt, the caller's lock
\* and the total each go down by the amount, each stopping at zero.
TwoWayBurn(u, v, a) ==
    /\ debt' = [debt EXCEPT ![DebtSlot[v]] = Monus(@, a)]
    /\ minted' = [minted EXCEPT ![u] = Monus(@, a)]
    /\ totalDebt' = Monus(totalDebt, a)
    /\ UNCHANGED <<coll, price, deposit, lpFee, pool>>

\* twoWayLiquidate clears the debt; the collateral stays and so does the lock of
\* whoever minted.  (Mutant: the total is not reduced.)
TwoWayLiquidateUncounted(v) ==
    /\ ~AboveLiquidationRatio(v)
    /\ debt' = [debt EXCEPT ![DebtSlot[v]] = 0]
    /\ UNCHANGED <<coll, price, totalDebt, minted, deposit, lpFee, pool>>
TwoWayLiquidate(v) ==
    /\ ~AboveLiquidationRatio(v)
    /\ debt' = [debt EXCEPT ![DebtSlot[v]] = 0]
    /\ totalDebt' = Monus(totalDebt, Debt(v))
    /\ UNCHANGED <<coll, price, minted, deposit, lpFee, pool>>

\* twoWaySetStablecoinPrice: by a verified oracle, any price.  The dispatch of
\* 0x18 has no selector for it; the repository's tests call it directly.
SetStablecoinPrice(c, p) ==
    /\ price' = [price EXCEPT ![c] = p]
    /\ UNCHANGED <<coll, debt, totalDebt, minted, deposit, lpFee, pool>>

-----------------------------------------------------------------------------
(* The Stability Pool, 0x19 *)

StabilityDeposit(u, a) ==
    /\ a > 0 /\ minted[u] = 0
    /\ deposit[u] + a <= MaxDeposit
    /\ deposit' = [deposit EXCEPT ![u] = @ + a]
    /\ pool' = [pool EXCEPT !.deposits = @ + a, !.balance = @ + a]
    /\ UNCHANGED <<vaultVars, minted, lpFee>>

\* stabilityWithdraw: bounded by the deposit, not by what the pool still holds.
\* (Mutant: the total is not reduced.)
StabilityWithdrawUncounted(u, a) ==
    /\ a > 0 /\ a <= deposit[u]
    /\ deposit' = [deposit EXCEPT ![u] = @ - a]
    /\ pool' = [pool EXCEPT !.balance = WriteSlot(@ - a)]
    /\ UNCHANGED <<vaultVars, minted, lpFee>>
StabilityWithdraw(u, a) ==
    /\ a > 0 /\ a <= deposit[u]
    /\ deposit' = [deposit EXCEPT ![u] = @ - a]
    /\ pool' = [pool EXCEPT !.deposits = WriteSlot(@ - a), !.balance = WriteSlot(@ - a)]
    /\ UNCHANGED <<vaultVars, minted, lpFee>>

\* stabilityClaimRewards: the caller's fees and every bucket of the pool are
\* reset.  Nothing is written to a user's pending rewards anywhere.
StabilityClaimRewards(u) ==
    /\ lpFee[u] > 0
    /\ lpFee' = [lpFee EXCEPT ![u] = 0]
    /\ pool' = [pool EXCEPT !.way = 0, !.sway = 0, !.total = 0]
    /\ UNCHANGED <<vaultVars, minted, deposit>>

\* stabilityAbsorb: a pool that holds less than the debt answers false and
\* changes nothing.  The debt of the vault stays.
StabilityAbsorb(v) ==
    /\ Debt(v) > 0 /\ pool.balance >= Debt(v)
    /\ LET paid == [pool EXCEPT !.balance = @ - Debt(v)]
           reward == (Debt(v) * 1000) \div 10000
       IN /\ pool.total + reward <= MaxRewards
          /\ pool' = IF pool.deposits > 0 THEN AddRewards(paid, reward) ELSE paid
    /\ UNCHANGED <<vaultVars, minted, deposit, lpFee>>

-----------------------------------------------------------------------------

VaultCall ==
    \/ \E v \in Vaults, c \in Coins, a \in Collaterals :
          TwoWayDeposit(v, c, a) \/ TwoWayWithdraw(v, c, a)
    \/ \E u \in Users, v \in Vaults, a \in Amounts :
          TwoWayMint(u, v, a) \/ TwoWayBurn(u, v, a)
    \/ \E v \in Vaults : TwoWayLiquidate(v)
    \/ \E c \in Coins, p \in Prices : SetStablecoinPrice(c, p)

PoolCall ==
    \/ \E u \in Users, a \in Amounts : StabilityDeposit(u, a) \/ StabilityWithdraw(u, a)
    \/ \E u \in Users : StabilityClaimRewards(u)
    \/ \E v \in Vaults : StabilityAbsorb(v)

Next == VaultCall \/ PoolCall

Spec == Init /\ [][Next]_vars

-----------------------------------------------------------------------------
(* Properties *)

PoolType == [deposits : Nat, balance : Nat, way : Nat, sway : Nat, total : Nat]

\* Every slot holds a natural number, which is all a slot can hold.
TypeOK ==
    /\ coll \in [Range(CollSlot) -> [Coins -> Nat]]
    /\ price \in [Coins -> Nat]
    /\ debt \in [Range(DebtSlot) -> Nat]
    /\ totalDebt \in Nat
    /\ minted \in [Users -> Nat]
    /\ deposit \in [Users -> Nat]
    /\ lpFee \in [Users -> Nat]
    /\ pool \in PoolType

\* "Users can either provide LP liquidity or mint 2WAY, but not both", whatever
\* the order of calls to the two precompiles.
Exclusive == \A u \in Users : minted[u] = 0 \/ deposit[u] = 0

\* The protocol never counts more debt than the slots of the vaults owe.
TotalDebtNotAbove == totalDebt <= SumFunctionOnSet(debt, Range(DebtSlot))

\* totalDeposits is what the users have deposited: each of them can be paid out
\* from the count, in any order.
DepositsAddUp == pool.deposits = SumFunctionOnSet(deposit, Users)

-----------------------------------------------------------------------------
(* Statements of the repository that the code does not keep *)

\* "cannot mint more until repaid": while a vault owes, some minter is locked.
UnrepaidIsLocked ==
    (\E v \in Vaults : Debt(v) > 0) => \E u \in Users : minted[u] > 0
=============================================================================
