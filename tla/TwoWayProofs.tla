---------------------------- MODULE TwoWayProofs ----------------------------
(***************************************************************************)
(* Proofs about TwoWay, for every set of users, vaults, coins and amounts, *)
(* whichever vaults share slots.                                           *)
(* Exclusivity is inductive once the slots are known to hold naturals, and *)
(* so are the two counts: of all debt and of all deposits.                 *)
(***************************************************************************)
EXTENDS TwoWay, Sums, TLAPS

IInv == TypeOK /\ Exclusive

\* The keys of a vault are among the keys in use, of which there are finitely many.
LEMMA Slots ==
    /\ IsFiniteSet(Range(DebtSlot))
    /\ \A v \in Vaults : CollSlot[v] \in Range(CollSlot) /\ DebtSlot[v] \in Range(DebtSlot)
<1>1. DebtSlot \in Surjection(Vaults, Range(DebtSlot))
  BY TwoWayAssumption DEF Surjection, Range
<1>2. IsFiniteSet(Range(DebtSlot))
  BY <1>1, TwoWayAssumption, FS_Surjection
<1>3. \A v \in Vaults : CollSlot[v] \in Range(CollSlot) /\ DebtSlot[v] \in Range(DebtSlot)
  BY TwoWayAssumption
<1> QED BY <1>2, <1>3

\* Halving a reward, and the fee and penalty percentages, give naturals.
LEMMA Shares ==
    ASSUME NEW r \in Nat
    PROVE  /\ r \div 2 \in Nat /\ r - (r \div 2) \in Nat
           /\ (r * 150) \div 10000 \in Nat /\ (r * 1000) \div 10000 \in Nat
OBVIOUS

\* Writing a natural into one slot of the pool.
LEMMA PoolSlots ==
    ASSUME NEW p \in PoolType, NEW x \in Nat
    PROVE  /\ [p EXCEPT !.deposits = x] \in PoolType
           /\ [p EXCEPT !.balance = x] \in PoolType
           /\ [p EXCEPT !.way = x] \in PoolType
           /\ [p EXCEPT !.sway = x] \in PoolType
           /\ [p EXCEPT !.total = x] \in PoolType
BY DEF PoolType

\* Each slot of the pool is a natural.
LEMMA PoolParts ==
    ASSUME NEW p \in PoolType
    PROVE  /\ p.deposits \in Nat /\ p.balance \in Nat
           /\ p.way \in Nat /\ p.sway \in Nat /\ p.total \in Nat
BY DEF PoolType

\* Booking a reward keeps the pool's slots naturals.
LEMMA AddRewardsType ==
    ASSUME NEW p \in PoolType, NEW r \in Nat
    PROVE  AddRewards(p, r) \in PoolType
<1> DEFINE w == p.way + (r \div 2)
           s == p.sway + (r - (r \div 2))
           t == p.total + r
<1>1. w \in Nat /\ s \in Nat /\ t \in Nat
  BY Shares, PoolParts
<1>2. AddRewards(p, r) = [[[p EXCEPT !.way = w] EXCEPT !.sway = s] EXCEPT !.total = t]
  BY DEF AddRewards
<1> HIDE DEF w, s, t
<1>3. [p EXCEPT !.way = w] \in PoolType
  BY <1>1, PoolSlots
<1>4. [[p EXCEPT !.way = w] EXCEPT !.sway = s] \in PoolType
  BY <1>1, <1>3, PoolSlots
<1> QED BY <1>1, <1>2, <1>4, PoolSlots

\* The vault calls that touch neither locks nor deposits keep the invariant.
LEMMA CollateralStep ==
    ASSUME IInv, NEW v \in Vaults, NEW c \in Coins, NEW a \in Collaterals,
           TwoWayDeposit(v, c, a) \/ TwoWayWithdraw(v, c, a)
    PROVE  IInv'
<1> USE TwoWayAssumption DEF IInv, TypeOK
<1>1. coll' \in [Range(CollSlot) -> [Coins -> Nat]]
  <2>1. CASE TwoWayDeposit(v, c, a)
    BY <2>1, Slots DEF TwoWayDeposit
  <2>2. CASE TwoWayWithdraw(v, c, a)
    <3>1. coll[CollSlot[v]][c] - a \in Nat
      BY <2>2, Slots DEF TwoWayWithdraw, Coll
    <3> QED BY <2>2, <3>1, Slots DEF TwoWayWithdraw, Coll
  <2> QED BY <2>1, <2>2
<1>2. UNCHANGED <<price, debt, totalDebt, minted, deposit, lpFee, pool>>
  BY DEF TwoWayDeposit, TwoWayWithdraw
<1> QED BY <1>1, <1>2 DEF Exclusive

\* A mint raises the lock of a user who has no deposit.
LEMMA MintStep ==
    ASSUME IInv, NEW u \in Users, NEW v \in Vaults, NEW a \in Amounts,
           TwoWayMint(u, v, a)
    PROVE  IInv'
<1> USE TwoWayAssumption DEF IInv, TypeOK
<1> DEFINE fee == (a * 150) \div 10000
<1>1. a \in Nat /\ fee \in Nat
  BY Shares
<1> HIDE DEF fee
<1>2. /\ pool' = AddRewards(pool, fee)
      /\ lpFee' = [lpFee EXCEPT ![u] = @ + fee]
      /\ deposit[u] = 0
      /\ UNCHANGED <<coll, price, deposit>>
  BY DEF TwoWayMint, fee
<1>3. pool' \in PoolType /\ lpFee' \in [Users -> Nat]
  BY <1>1, <1>2, AddRewardsType
<1>4. \/ /\ debt' = [debt EXCEPT ![DebtSlot[v]] = @ + a]
         /\ totalDebt' = totalDebt + a
         /\ minted' = [minted EXCEPT ![u] = @ + a]
      \/ UNCHANGED <<debt, totalDebt, minted>>
  BY DEF TwoWayMint
<1>5. debt' \in [Range(DebtSlot) -> Nat] /\ totalDebt' \in Nat /\ minted' \in [Users -> Nat]
  <2>1. debt' \in [Range(DebtSlot) -> Nat]
    BY <1>1, <1>4, Slots
  <2>2. totalDebt' \in Nat
    BY <1>1, <1>4
  <2>3. minted' \in [Users -> Nat]
    BY <1>1, <1>4
  <2> QED BY <2>1, <2>2, <2>3
<1>6. Exclusive'
  BY <1>2, <1>4 DEF Exclusive
<1> QED BY <1>2, <1>3, <1>5, <1>6

\* A burn only lowers debt and locks.
LEMMA BurnStep ==
    ASSUME IInv, NEW u \in Users, NEW v \in Vaults, NEW a \in Amounts,
           TwoWayBurn(u, v, a)
    PROVE  IInv'
<1> USE TwoWayAssumption DEF IInv, TypeOK
<1>1. \A x \in Nat : Monus(x, a) \in Nat /\ (x = 0 => Monus(x, a) = 0)
  BY DEF Monus
<1>2. /\ debt' \in [Range(DebtSlot) -> Nat] /\ totalDebt' \in Nat /\ minted' \in [Users -> Nat]
      /\ \A w \in Users : minted[w] = 0 => minted'[w] = 0
  BY <1>1, Slots DEF TwoWayBurn
<1>3. UNCHANGED <<coll, price, deposit, lpFee, pool>>
  BY DEF TwoWayBurn
<1> QED BY <1>2, <1>3 DEF Exclusive

\* Liquidation and a new price touch neither locks nor the pool.
LEMMA LiquidateStep ==
    ASSUME IInv, NEW v \in Vaults, TwoWayLiquidate(v)
    PROVE  IInv'
<1> USE DEF IInv, TypeOK
<1>1. Monus(totalDebt, Debt(v)) \in Nat
  BY Slots DEF Monus, Debt
<1> QED BY <1>1, Slots DEF TwoWayLiquidate, Exclusive

\* A price is a slot of its own.
LEMMA PriceStep ==
    ASSUME IInv, NEW c \in Coins, NEW p \in Prices, SetStablecoinPrice(c, p)
    PROVE  IInv'
BY TwoWayAssumption DEF IInv, TypeOK, SetStablecoinPrice, Exclusive

\* A deposit enters the pool only from a user without a lock.
LEMMA DepositStep ==
    ASSUME IInv, NEW u \in Users, NEW a \in Amounts, StabilityDeposit(u, a)
    PROVE  IInv'
<1> USE TwoWayAssumption DEF IInv, TypeOK
<1>a. a \in Nat
  OBVIOUS
<1>b. deposit' \in [Users -> Nat]
  BY <1>a DEF StabilityDeposit
<1>c. pool' \in PoolType
  <2> DEFINE d == pool.deposits + a
             b == pool.balance + a
  <2>1. d \in Nat /\ b \in Nat
    BY <1>a, PoolParts
  <2>2. pool' = [[pool EXCEPT !.deposits = d] EXCEPT !.balance = b]
    BY DEF StabilityDeposit
  <2> HIDE DEF d, b
  <2>3. [pool EXCEPT !.deposits = d] \in PoolType
    BY <2>1, PoolSlots
  <2> QED BY <2>1, <2>2, <2>3, PoolSlots
<1>1. deposit' \in [Users -> Nat] /\ pool' \in PoolType
  BY <1>b, <1>c
<1>2. Exclusive'
  BY DEF StabilityDeposit, Exclusive
<1> QED BY <1>1, <1>2 DEF StabilityDeposit, vaultVars

\* A withdrawal may ask the pool for more than it holds: the slot then keeps the
\* distance, a natural all the same.
LEMMA WithdrawStep ==
    ASSUME IInv, NEW u \in Users, NEW a \in Amounts, StabilityWithdraw(u, a)
    PROVE  IInv'
<1> USE TwoWayAssumption DEF IInv, TypeOK
<1>1. \A x \in Nat : WriteSlot(x - a) \in Nat
  BY DEF WriteSlot
<1>2. deposit[u] - a \in Nat /\ deposit[u] # 0
  BY DEF StabilityWithdraw
<1>3. deposit' \in [Users -> Nat] /\ pool' \in PoolType
  BY <1>1, <1>2 DEF StabilityWithdraw, PoolType
<1>4. Exclusive'
  BY <1>2 DEF StabilityWithdraw, Exclusive
<1> QED BY <1>3, <1>4 DEF StabilityWithdraw, vaultVars

\* Claiming and absorbing change the buckets and the balance of the pool only.
LEMMA RewardStep ==
    ASSUME IInv,
           \/ \E u \in Users : StabilityClaimRewards(u)
           \/ \E v \in Vaults : StabilityAbsorb(v)
    PROVE  IInv'
<1> USE DEF IInv, TypeOK
<1>1. CASE \E u \in Users : StabilityClaimRewards(u)
  <2>1. pool' = [[[pool EXCEPT !.way = 0] EXCEPT !.sway = 0] EXCEPT !.total = 0]
    BY <1>1 DEF StabilityClaimRewards
  <2>2. [[pool EXCEPT !.way = 0] EXCEPT !.sway = 0] \in PoolType
    BY PoolSlots
  <2>3. pool' \in PoolType
    BY <2>1, <2>2, PoolSlots
  <2> QED BY <1>1, <2>3 DEF StabilityClaimRewards, vaultVars, Exclusive
<1>2. ASSUME NEW v \in Vaults, StabilityAbsorb(v)
      PROVE  IInv'
  <2> DEFINE paid == [pool EXCEPT !.balance = @ - Debt(v)]
             reward == (Debt(v) * 1000) \div 10000
  <2>0. Debt(v) \in Nat
    BY Slots DEF Debt
  <2>1. paid \in PoolType
    BY <1>2, <2>0 DEF StabilityAbsorb, PoolType
  <2>2. reward \in Nat
    BY <2>0, Shares
  <2>3. pool' = AddRewards(paid, reward) \/ pool' = paid
    BY <1>2 DEF StabilityAbsorb
  <2> HIDE DEF paid, reward
  <2>4. pool' \in PoolType
    BY <2>1, <2>2, <2>3, AddRewardsType
  <2> QED BY <1>2, <2>4 DEF StabilityAbsorb, vaultVars, Exclusive
<1> QED BY <1>1, <1>2

\* Every call keeps the invariant.
LEMMA NextIInv == IInv /\ [Next]_vars => IInv'
<1> SUFFICES ASSUME IInv, [Next]_vars PROVE IInv'
  OBVIOUS
<1>1. CASE VaultCall
  BY <1>1, CollateralStep, MintStep, BurnStep, LiquidateStep, PriceStep DEF VaultCall
<1>2. CASE PoolCall
  BY <1>2, DepositStep, WithdrawStep, RewardStep DEF PoolCall
<1>3. CASE UNCHANGED vars
  BY <1>3 DEF vars, IInv, TypeOK, Exclusive
<1> QED BY <1>1, <1>2, <1>3 DEF Next

\* All slots are zero at first.
LEMMA InitIInv == Init => IInv
BY DEF Init, IInv, TypeOK, PoolType, Exclusive

\* Slots hold naturals: what the theorems below need of the arithmetic.
LEMMA TypeCorrect == Spec => []TypeOK
<1>1. IInv => TypeOK
  BY DEF IInv
<1> QED BY <1>1, InitIInv, NextIInv, PTL DEF Spec

\* No sequence of calls to the two precompiles makes a user minter and liquidity
\* provider at the same time.
THEOREM Exclusivity == Spec => []Exclusive
<1>1. IInv => Exclusive
  BY DEF IInv
<1> QED BY <1>1, InitIInv, NextIInv, PTL DEF Spec

-----------------------------------------------------------------------------
(* The counts the two precompiles keep of the whole *)

\* A slot owes d, and the sum of all debt.
LEMMA DebtSum ==
    ASSUME NEW k \in Range(DebtSlot), NEW d
    PROVE  TypeOK /\ d \in Nat /\ debt' = [debt EXCEPT ![k] = d]
              => /\ SumFunctionOnSet(debt, Range(DebtSlot)) \in Nat
                 /\ SumFunctionOnSet(debt', Range(DebtSlot)) \in Nat
                 /\ SumFunctionOnSet(debt', Range(DebtSlot))
                       = SumFunctionOnSet(debt, Range(DebtSlot)) - debt[k] + d
<1> DEFINE K == Range(DebtSlot)
<1>1. IsFiniteSet(K)
  BY Slots
<1>2. SUFFICES ASSUME TypeOK, d \in Nat, debt' = [debt EXCEPT ![k] = d]
      PROVE  /\ SumFunctionOnSet(debt, K) \in Nat
             /\ SumFunctionOnSet(debt', K) \in Nat
             /\ SumFunctionOnSet(debt', K) = SumFunctionOnSet(debt, K) - debt[k] + d
  OBVIOUS
<1>3. /\ \A y \in K : debt[y] \in Nat
      /\ \A y \in K : debt'[y] \in Nat
      /\ debt \in [K -> Int] /\ d \in Int
  BY <1>2 DEF TypeOK
<1>4. k \in K
  OBVIOUS
<1> HIDE DEF K
<1>5. SumFunctionOnSet(debt', K) = SumFunctionOnSet(debt, K) - debt[k] + d
  <2>1. \A y \in K : debt[y] \in Int /\ debt'[y] \in Int
    BY <1>2, <1>3
  <2>2. \A y \in K \ {k} : debt'[y] = debt[y]
    BY <1>2, <1>3
  <2>3. debt'[k] = d
    BY <1>2, <1>3, <1>4
  <2> QED BY <1>1, <1>4, <2>1, <2>2, <2>3, SumReplace
<1>6. SumFunctionOnSet(debt, K) \in Nat /\ SumFunctionOnSet(debt', K) \in Nat
  BY <1>1, <1>3, SumNat
<1> QED BY <1>5, <1>6

\* The pool's calls write no slot of the vaults.
LEMMA PoolLeavesVaults == PoolCall => UNCHANGED vaultVars
<1>1. ASSUME NEW u \in Users, NEW a \in Amounts, StabilityDeposit(u, a) \/ StabilityWithdraw(u, a)
      PROVE  UNCHANGED vaultVars
  BY <1>1 DEF StabilityDeposit, StabilityWithdraw
<1>2. ASSUME NEW u \in Users, StabilityClaimRewards(u) PROVE UNCHANGED vaultVars
  BY <1>2 DEF StabilityClaimRewards
<1>3. ASSUME NEW v \in Vaults, StabilityAbsorb(v) PROVE UNCHANGED vaultVars
  BY <1>3 DEF StabilityAbsorb
<1> QED BY <1>1, <1>2, <1>3 DEF PoolCall

\* A mint adds to both sides, a burn takes at most as much from a vault as from
\* the total, a liquidation takes the vault's whole debt from both.
LEMMA DebtStep ==
    ASSUME TypeOK, TotalDebtNotAbove, [Next]_vars
    PROVE  TotalDebtNotAbove'
<1> DEFINE K == Range(DebtSlot)
<1> USE DEF TotalDebtNotAbove
<1>1. ASSUME NEW u \in Users, NEW v \in Vaults, NEW a \in Amounts, TwoWayMint(u, v, a)
      PROVE  TotalDebtNotAbove'
  <2>1. a \in Nat /\ Debt(v) \in Nat /\ totalDebt \in Nat
    BY TwoWayAssumption, Slots DEF TypeOK, Debt
  <2>2. CASE debt' = [debt EXCEPT ![DebtSlot[v]] = Debt(v) + a] /\ totalDebt' = totalDebt + a
    <3>1. TypeOK /\ Debt(v) + a \in Nat /\ debt' = [debt EXCEPT ![DebtSlot[v]] = Debt(v) + a]
      BY <2>1, <2>2
    <3>2. SumFunctionOnSet(debt', K) = SumFunctionOnSet(debt, K) - Debt(v) + (Debt(v) + a)
          /\ SumFunctionOnSet(debt, K) \in Nat
      BY <3>1, Slots, DebtSum DEF Debt
    <3> QED BY <2>1, <2>2, <3>2
  <2>3. CASE UNCHANGED <<debt, totalDebt>>
    BY <2>3
  <2> QED BY <1>1, <2>2, <2>3 DEF TwoWayMint, Debt
<1>2. ASSUME NEW u \in Users, NEW v \in Vaults, NEW a \in Amounts, TwoWayBurn(u, v, a)
      PROVE  TotalDebtNotAbove'
  <2>1. a \in Nat /\ Debt(v) \in Nat /\ totalDebt \in Nat
    BY TwoWayAssumption, Slots DEF TypeOK, Debt
  <2>2. /\ debt' = [debt EXCEPT ![DebtSlot[v]] = Monus(Debt(v), a)] /\ totalDebt' = Monus(totalDebt, a)
        /\ Monus(Debt(v), a) \in Nat /\ Monus(Debt(v), a) >= Debt(v) - a
        /\ Monus(totalDebt, a) = 0 \/ Monus(totalDebt, a) = totalDebt - a
    BY <1>2, <2>1 DEF TwoWayBurn, Monus, Debt
  <2>3. /\ SumFunctionOnSet(debt, K) \in Nat
        /\ SumFunctionOnSet(debt', K) \in Nat
        /\ SumFunctionOnSet(debt', K)
              = SumFunctionOnSet(debt, K) - Debt(v) + Monus(Debt(v), a)
    BY <2>1, <2>2, Slots, DebtSum DEF Debt
  <2> QED BY <2>1, <2>2, <2>3
<1>3. ASSUME NEW v \in Vaults, TwoWayLiquidate(v)
      PROVE  TotalDebtNotAbove'
  <2>1. Debt(v) \in Nat /\ totalDebt \in Nat /\ debt' = [debt EXCEPT ![DebtSlot[v]] = 0]
    BY <1>3, Slots DEF TypeOK, TwoWayLiquidate, Debt
  <2>2. totalDebt' = 0 \/ totalDebt' = totalDebt - Debt(v)
    BY <1>3, <2>1 DEF TwoWayLiquidate, Monus
  <2>3. /\ SumFunctionOnSet(debt, K) \in Nat
        /\ SumFunctionOnSet(debt', K) \in Nat
        /\ SumFunctionOnSet(debt', K) = SumFunctionOnSet(debt, K) - Debt(v) + 0
    BY <2>1, Slots, DebtSum DEF Debt
  <2>4. \A s, t, d \in Nat : totalDebt <= s /\ t = s - d + 0 /\ totalDebt' \in {0, totalDebt - d}
                               => totalDebt' <= t
    BY <2>1
  <2> QED BY <2>1, <2>2, <2>3, <2>4
<1>4. CASE UNCHANGED <<debt, totalDebt>>
  BY <1>4
<1>5. ASSUME PoolCall PROVE TotalDebtNotAbove'
  <2>1. UNCHANGED <<debt, totalDebt>>
    BY <1>5, PoolLeavesVaults DEF vaultVars
  <2> QED BY <1>4, <2>1
<1>6. ASSUME VaultCall PROVE TotalDebtNotAbove'
  BY <1>1, <1>2, <1>3, <1>4, <1>6 DEF VaultCall, TwoWayDeposit, TwoWayWithdraw, SetStablecoinPrice
<1> QED BY <1>4, <1>5, <1>6 DEF Next, vars

\* A user's deposit becomes d, and the sum of all deposits.
LEMMA DepositSum ==
    ASSUME NEW u \in Users, NEW d
    PROVE  TypeOK /\ d \in Nat /\ deposit' = [deposit EXCEPT ![u] = d]
              => /\ SumFunctionOnSet(deposit', Users) = SumFunctionOnSet(deposit, Users) - deposit[u] + d
                 /\ deposit[u] <= SumFunctionOnSet(deposit, Users)
<1>1. IsFiniteSet(Users)
  BY TwoWayAssumption
<1>2. SUFFICES ASSUME TypeOK, d \in Nat, deposit' = [deposit EXCEPT ![u] = d]
      PROVE  /\ SumFunctionOnSet(deposit', Users) = SumFunctionOnSet(deposit, Users) - deposit[u] + d
             /\ deposit[u] <= SumFunctionOnSet(deposit, Users)
  OBVIOUS
<1>3. /\ \A y \in Users : deposit[y] \in Nat
      /\ deposit \in [Users -> Int] /\ d \in Int
  BY <1>2 DEF TypeOK
<1>4. SumFunctionOnSet(deposit', Users) = SumFunctionOnSet(deposit, Users) - deposit[u] + d
  <2>1. \A y \in Users : deposit[y] \in Int /\ deposit'[y] \in Int
    BY <1>2, <1>3
  <2>2. \A y \in Users \ {u} : deposit'[y] = deposit[y]
    BY <1>2, <1>3
  <2>3. deposit'[u] = d
    BY <1>2, <1>3
  <2> QED BY <1>1, <2>1, <2>2, <2>3, SumReplace
<1>5. deposit[u] <= SumFunctionOnSet(deposit, Users)
  BY <1>1, <1>3, SumTerm
<1> QED BY <1>4, <1>5

\* Deposits and withdrawals move the count with the user's slot; the count is
\* never below the slot, so a withdrawal does not meet the missing sign.
LEMMA DepositsStep ==
    ASSUME TypeOK, DepositsAddUp, [Next]_vars
    PROVE  DepositsAddUp'
<1> USE DEF DepositsAddUp
<1>1. ASSUME NEW u \in Users, NEW a \in Amounts, StabilityDeposit(u, a)
      PROVE  DepositsAddUp'
  <2>1. a \in Nat /\ deposit[u] \in Nat /\ pool.deposits \in Nat
    BY TwoWayAssumption, PoolParts DEF TypeOK
  <2>2. /\ deposit' = [deposit EXCEPT ![u] = deposit[u] + a] /\ deposit[u] + a \in Nat
        /\ pool'.deposits = pool.deposits + a
    BY <1>1, <2>1 DEF StabilityDeposit, TypeOK, PoolType
  <2>3. SumFunctionOnSet(deposit', Users)
           = SumFunctionOnSet(deposit, Users) - deposit[u] + (deposit[u] + a)
    BY <2>2, DepositSum
  <2> QED BY <2>1, <2>2, <2>3
<1>2. ASSUME NEW u \in Users, NEW a \in Amounts, StabilityWithdraw(u, a)
      PROVE  DepositsAddUp'
  <2>1. /\ a \in Nat /\ deposit[u] \in Nat /\ pool.deposits \in Nat
        /\ a <= deposit[u]
    BY <1>2, TwoWayAssumption, PoolParts DEF TypeOK, StabilityWithdraw
  <2>2. /\ deposit' = [deposit EXCEPT ![u] = deposit[u] - a] /\ deposit[u] - a \in Nat
        /\ pool'.deposits = WriteSlot(pool.deposits - a)
    BY <1>2, <2>1 DEF StabilityWithdraw, TypeOK, PoolType
  <2>3. /\ SumFunctionOnSet(deposit', Users)
             = SumFunctionOnSet(deposit, Users) - deposit[u] + (deposit[u] - a)
        /\ deposit[u] <= SumFunctionOnSet(deposit, Users)
    BY <2>2, DepositSum
  <2>4. WriteSlot(pool.deposits - a) = pool.deposits - a
    BY <2>1, <2>3 DEF WriteSlot
  <2> QED BY <2>1, <2>2, <2>3, <2>4
<1>3. CASE deposit' = deposit /\ pool'.deposits = pool.deposits
  BY <1>3
<1>4. ASSUME NEW p \in PoolType, NEW r, pool' = AddRewards(p, r), p.deposits = pool.deposits
      PROVE  pool'.deposits = pool.deposits
  BY <1>4 DEF AddRewards, PoolType
<1>5. ASSUME PoolCall PROVE DepositsAddUp'
  <2>1. ASSUME NEW u \in Users, StabilityClaimRewards(u) PROVE DepositsAddUp'
    BY <1>3, <2>1 DEF StabilityClaimRewards, TypeOK, PoolType
  <2>2. ASSUME NEW v \in Vaults, StabilityAbsorb(v) PROVE DepositsAddUp'
    <3> DEFINE p == [pool EXCEPT !.balance = @ - Debt(v)]
               reward == (Debt(v) * 1000) \div 10000
    <3>0. Debt(v) \in Nat
      BY Slots DEF TypeOK, Debt
    <3>1. p \in PoolType /\ p.deposits = pool.deposits
      BY <2>2, <3>0 DEF StabilityAbsorb, TypeOK, PoolType
    <3>2. deposit' = deposit /\ (pool' = AddRewards(p, reward) \/ pool' = p)
      BY <2>2 DEF StabilityAbsorb
    <3> HIDE DEF p, reward
    <3> QED BY <1>3, <1>4, <3>1, <3>2
  <2> QED BY <1>1, <1>2, <1>5, <2>1, <2>2 DEF PoolCall
<1>6. ASSUME VaultCall PROVE DepositsAddUp'
  <2>1. ASSUME NEW u \in Users, NEW v \in Vaults, NEW a \in Amounts, TwoWayMint(u, v, a)
        PROVE  DepositsAddUp'
    <3>1. pool' = AddRewards(pool, (a * 150) \div 10000) /\ deposit' = deposit /\ pool \in PoolType
      BY <2>1 DEF TwoWayMint, TypeOK
    <3> QED BY <1>3, <1>4, <3>1
  <2> QED BY <1>3, <1>6, <2>1 DEF VaultCall, TwoWayDeposit, TwoWayWithdraw, SetStablecoinPrice,
                                  TwoWayBurn, TwoWayLiquidate
<1> QED BY <1>3, <1>5, <1>6 DEF Next, vars

\* The protocol's count of debt is never above what the vaults owe, for any number
\* of vaults and any sequence of mints, partial and excessive burns by anyone,
\* and liquidations (twoWayMint, twoWayBurn, twoWayLiquidate).
THEOREM DebtNotOvercounted == Spec => []TotalDebtNotAbove
<1>1. Init => TotalDebtNotAbove
  <2> SUFFICES ASSUME Init PROVE TotalDebtNotAbove
    OBVIOUS
  <2>1. IsFiniteSet(Range(DebtSlot)) /\ \A k \in Range(DebtSlot) : debt[k] = 0
    BY Slots DEF Init
  <2>2. SumFunctionOnSet(debt, Range(DebtSlot)) = 0
    BY <2>1, SumZero
  <2> QED BY <2>2 DEF Init, TotalDebtNotAbove
<1>2. TypeOK /\ TotalDebtNotAbove /\ [Next]_vars => TotalDebtNotAbove'
  BY DebtStep
<1> QED BY <1>1, <1>2, TypeCorrect, PTL DEF Spec

\* totalDeposits is the sum of the users' deposits, for any number of users, so
\* that a withdrawal never takes it below zero (stabilityDeposit,
\* stabilityWithdraw).
THEOREM DepositsCounted == Spec => []DepositsAddUp
<1>1. Init => DepositsAddUp
  <2> SUFFICES ASSUME Init PROVE DepositsAddUp
    OBVIOUS
  <2>1. IsFiniteSet(Users) /\ \A u \in Users : deposit[u] = 0
    BY TwoWayAssumption DEF Init
  <2>2. SumFunctionOnSet(deposit, Users) = 0
    BY <2>1, SumZero
  <2> QED BY <2>2 DEF Init, DepositsAddUp
<1>2. TypeOK /\ DepositsAddUp /\ [Next]_vars => DepositsAddUp'
  BY DepositsStep
<1> QED BY <1>1, <1>2, TypeCorrect, PTL DEF Spec
=============================================================================
