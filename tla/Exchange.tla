------------------------------ MODULE Exchange -------------------------------
(***************************************************************************)
(* The rewards token SWAY 0x24 (src/evm/sway_token.go), the swap route     *)
(* 0x25 that mints it (src/evm/swap_route.go) and the trustless locks 0x1A *)
(* (src/evm/trustless_lock.go) that a liquidity provision creates.         *)
(*                                                                         *)
(* Pools and their token pairs are one value here: nothing looks at them   *)
(* apart from the identifier of a lock, a hash of the pool and of the      *)
(* bytes of an amount and a block number without anything between them.    *)
(***************************************************************************)
EXTENDS Precompiles

CONSTANTS
    Services,           \* 0x18, 0x19, 0x23, 0x25 as callers of the token
    MinterBucket,       \* the bucket a service mints from for itself ...
    LPMinters,          \* ... and the ones that mint for others
    SwayInitialSupply, SwayHardCeiling,
    LPReward,           \* SWAY for an addLiquidity
    DefaultReserve,     \* the reserves of every swap
    Volumes,            \* amounts swapped
    Liquidities,        \* amounts of liquidity and of locks
    Pools, ZeroPool,    \* pools of a lock; the one addLiquidity names
    Joined(_, _),       \* the bytes of an amount followed by the digits of a block
    Pairs, ZeroFirst,   \* token pairs; the ones whose first token begins with 0
    MinLockPeriod, LPLockPeriod,
    Periods,            \* periods, extensions, and starts and ends of vesting
    Padded              \* accounts whose name has 20 bytes or more

ASSUME ExchangeAssumption ==
    /\ MinterBucket \in [Services -> {"futureTasks", "dexLP", "none"}]
    /\ LPMinters \subseteq Services
    /\ SwayInitialSupply \in Nat /\ SwayHardCeiling \in Nat
    /\ SwayHardCeiling >= 2 * SwayInitialSupply
    /\ LPReward \in Nat \ {0} /\ DefaultReserve \in Nat \ {0}
    /\ Volumes \subseteq Nat /\ Liquidities \subseteq Nat /\ Periods \subseteq Nat
    /\ {MinLockPeriod, LPLockPeriod} \subseteq Nat
    /\ ZeroPool \in Pools /\ ZeroFirst \subseteq Pairs /\ Padded \subseteq Accounts

VARIABLES
    swayTotal,      \* sway:totalSupply
    bucket,         \* sway:bucket
    swayBal,        \* balances, under the holder's name
    swayShown,      \* addresses whose getBalance answers 1, from another slot
    pairs,          \* pairs created
    pairCount,      \* srSlotPairCount
    liquidity,      \* swaproute:liquidity
    locks,          \* lock headers that are not zero, with the vesting data
    lockCount,      \* lockCount
    promised        \* history: until when each lock was to hold, 0 once released,
                    \* and whether it is intact: no 64-bit sum of it wrapped and
                    \* it did not take the identifier of a standing lock

swayVars == <<swayTotal, bucket, swayBal, swayShown>>
lockVars == <<locks, lockCount, promised>>
exchangeVars == <<swayVars, pairs, pairCount, liquidity, lockVars>>

Buckets == {"futureTasks", "dexLP", "ecosystem"}
Alloc == [futureTasks |-> 45, dexLP |-> 20, ecosystem |-> 35]

NoLocks == [id \in {} |-> 0]

\* Genesis has called SwayInit, which does nothing the second time.
ExchangeInit ==
    /\ swayTotal = SwayInitialSupply
    /\ bucket = [b \in Buckets |-> (SwayInitialSupply * Alloc[b]) \div 100]
    /\ swayBal = [h \in Accounts \cup Services |-> 0]
    /\ swayShown = {}
    /\ pairs = {}
    /\ pairCount = 0
    /\ liquidity = 0
    /\ locks = NoLocks
    /\ lockCount = 0
    /\ promised = NoLocks

-----------------------------------------------------------------------------
(* SWAY *)

\* swayMintInternal compares the low 64 bits of the new total.
CanMint(n, b) ==
    /\ n > 0
    /\ bucket[b] >= n
    /\ (swayTotal + n) % Word <= SwayHardCeiling

\* What a mint leaves in the buckets.  (Mutant: the bucket is not drawn down.)
DrawNothing(b, n) == bucket
Draw(b, n) == [bucket EXCEPT ![b] = @ - n]

Mint(to, n, b) ==
    /\ swayTotal' = swayTotal + n
    /\ swayBal' = [swayBal EXCEPT ![to] = @ + n]
    /\ bucket' = Draw(b, n)
    /\ UNCHANGED swayShown

\* A reward that cannot be minted is dropped and the call goes on.
MintIfPossible(to, n, b) ==
    IF CanMint(n, b) THEN Mint(to, n, b) ELSE UNCHANGED swayVars

\* mint(to, amount).
SwayMint(s, to, n) ==
    /\ Call
    /\ s \in LPMinters
    /\ CanMint(n, "dexLP") /\ Mint(to, n, "dexLP")
    /\ UNCHANGED <<pairs, pairCount, liquidity, lockVars>>

\* mintToCaller(amount).
SwayMintToCaller(s, n) ==
    /\ Call
    /\ MinterBucket[s] # "none"
    /\ CanMint(n, MinterBucket[s]) /\ Mint(s, n, MinterBucket[s])
    /\ UNCHANGED <<pairs, pairCount, liquidity, lockVars>>

\* burn(from, amount), by anyone, of anyone's tokens.
SwayBurn(from, n) ==
    /\ Call
    /\ n > 0 /\ swayBal[from] >= n
    /\ swayBal' = [swayBal EXCEPT ![from] = @ - n]
    /\ swayTotal' = swayTotal - n
    /\ UNCHANGED <<bucket, swayShown, pairs, pairCount, liquidity, lockVars>>

\* swapFee(lp) writes 1 into the slot that getBalance reads and no mint writes.
SwaySwapFeeReward(a) ==
    /\ Call
    /\ swayShown' = swayShown \cup {a}
    /\ UNCHANGED <<swayTotal, bucket, swayBal, pairs, pairCount, liquidity, lockVars>>

-----------------------------------------------------------------------------
(* Locks.  A header names its type and a block: the unlock block of a time   *)
(* lock, the start of a vesting.  Type 0 is both "time" and "released".      *)

LockID(pool, amount) == <<pool, Joined(amount, block)>>

Header(id, lock) == [i \in DOMAIN locks \cup {id} |-> IF i = id THEN lock ELSE locks[i]]
Promise(id, until, intact) ==
    [i \in DOMAIN locks \cup {id} |->
        IF i = id THEN [until |-> until, intact |-> intact] ELSE promised[i]]

\* A lock that takes the identifier of another is to hold as long as either.
PutLock(id, lock, until, intact) ==
    LET old == IF id \in DOMAIN locks THEN promised[id].until ELSE 0
    IN /\ locks' = Header(id, lock)
       /\ promised' = Promise(id, IF until > old THEN until ELSE old, intact /\ old = 0)
       /\ lockCount' = lockCount + 1

TimeLock(unlock) == [type |-> "time", at |-> unlock, end |-> 0, cliff |-> 0]

PutTimeLock(id, period) ==
    PutLock(id, TimeLock(Add64(block, period % Word)), block + period, block + period < Word)

CreateTimeLock(pool, amount, period) ==
    /\ Call
    /\ period >= MinLockPeriod
    /\ PutTimeLock(LockID(pool, amount), period)
    /\ UNCHANGED <<swayVars, pairs, pairCount, liquidity>>

CreateVestingLock(pool, amount, start, end, cliff) ==
    /\ Call
    /\ end > start
    /\ PutLock(LockID(pool, amount),
               [type |-> "vesting", at |-> start, end |-> end, cliff |-> cliff],
               IF cliff < end THEN cliff ELSE end, TRUE)
    /\ UNCHANGED <<swayVars, pairs, pairCount, liquidity>>

\* createMultiSigLock: a threshold, no signers, and nothing that releases it.
CreateMultiSigLock(pool, amount, threshold) ==
    /\ Call
    /\ threshold > 0
    /\ PutLock(LockID(pool, amount),
               [type |-> "multisig", at |-> threshold, end |-> 0, cliff |-> 0],
               Word, TRUE)
    /\ UNCHANGED <<swayVars, pairs, pairCount, liquidity>>

\* releasableAmount.
Releasable(l) ==
    CASE l.type = "time" -> IF block >= l.at THEN 1 ELSE 0
      [] l.type = "vesting" ->
            IF block >= l.end THEN 1
            ELSE IF block >= l.cliff
                 THEN ((Sub64(block, l.at) * 1000) % Word) \div Sub64(l.end, l.at)
                 ELSE 0
      [] l.type = "multisig" -> 0

\* release, by anyone and as a whole.
Release(id) ==
    /\ Call
    /\ Releasable(locks[id]) > 0
    /\ locks' = [locks EXCEPT ![id].type = "time"]
    /\ promised' = [promised EXCEPT ![id].until = 0]
    /\ UNCHANGED <<lockCount, swayVars, pairs, pairCount, liquidity>>

\* extend, by anyone.  (Mutant: the extension replaces the unlock block.)
ExtendedAnew(at, n) == n % Word
Extended(at, n) == Add64(at, n % Word)

ExtendLock(id, n) ==
    /\ Call
    /\ n > 0
    /\ locks[id].type = "time"
    /\ locks' = [locks EXCEPT ![id].at = Extended(@, n)]
    /\ promised' = [promised EXCEPT ![id].until = IF @ = 0 THEN 0 ELSE @ + n,
                                    ![id].intact = @ /\ locks[id].at + n < Word]
    /\ UNCHANGED <<lockCount, swayVars, pairs, pairCount, liquidity>>

\* extend of an identifier without a lock: the header of zeros is a time lock, and
\* one is written that nobody asked for.  It promises nothing.
ExtendNothing(id, n) ==
    /\ Call
    /\ id \notin DOMAIN locks
    /\ Extended(0, n) > 0
    /\ locks' = Header(id, TimeLock(Extended(0, n)))
    /\ promised' = Promise(id, 0, TRUE)
    /\ UNCHANGED <<lockCount, swayVars, pairs, pairCount, liquidity>>

-----------------------------------------------------------------------------
(* Swap route *)

\* createPair: a pair is known by the first byte of its first token, so one that
\* begins with 0 is counted each time.
CreatePair(c, pair) ==
    /\ Call
    /\ Level[c] >= 2
    /\ pairs' = pairs \cup {pair}
    /\ pairCount' = IF pair \in pairs \ ZeroFirst THEN pairCount ELSE pairCount + 1
    /\ UNCHANGED <<swayVars, liquidity, lockVars>>

\* addLiquidity: no token is moved; a reward if it can be minted, and a time lock
\* of the whole amount, which a caller with too short a name does not get.
AddLiquidity(c, n) ==
    /\ Call
    /\ liquidity' = liquidity + n
    /\ MintIfPossible(c, LPReward, "dexLP")
    /\ IF c \in Padded THEN PutTimeLock(LockID(ZeroPool, n), LPLockPeriod)
                       ELSE UNCHANGED lockVars
    /\ UNCHANGED <<pairs, pairCount>>

\* The constant product with a fee of 0.3 percent.
AmountOut(x) == (x * 997 * DefaultReserve) \div (DefaultReserve * 1000 + x * 997)
FeeReward(x) == (x * 3) \div 1000

Swap(c, x, least) ==
    /\ Call
    /\ AmountOut(x) >= least
    /\ MintIfPossible(c, FeeReward(x), "dexLP")
    /\ UNCHANGED <<pairs, pairCount, liquidity, lockVars>>

SwayNext ==
    \/ \E s \in Services, n \in Volumes :
           SwayMintToCaller(s, n) \/ \E to \in Addrs : SwayMint(s, to, n)
    \/ \E from \in Addrs \cup Services, n \in Volumes : SwayBurn(from, n)
    \/ \E a \in Addrs : SwaySwapFeeReward(a)

SwapNext ==
    \/ \E c \in Accounts, pair \in Pairs : CreatePair(c, pair)
    \/ \E c \in Accounts, n \in Liquidities : AddLiquidity(c, n)
    \/ \E c \in Accounts, x \in Volumes, least \in Volumes : Swap(c, x, least)

LockNext ==
    \/ \E pool \in Pools, n \in Liquidities, p \in Periods :
          \/ CreateTimeLock(pool, n, p) \/ CreateMultiSigLock(pool, n, p)
          \/ \E end \in Periods, cliff \in Periods :
                CreateVestingLock(pool, n, p, end, cliff)
    \/ \E id \in DOMAIN locks :
          Release(id) \/ \E n \in Periods : ExtendLock(id, n)
    \/ \E pool \in Pools, amount \in Liquidities, n \in Periods :
          ExtendNothing(LockID(pool, amount), n)

-----------------------------------------------------------------------------
(* Properties *)

\* The hard ceiling of SWAY, which swayMintInternal enforces on 64 bits only: it
\* is the buckets that keep the total below it, mint by mint and burn by burn.
SwayCeilingHolds ==
    /\ swayTotal <= SwayHardCeiling
    /\ swayTotal + bucket.futureTasks + bucket.dexLP + bucket.ecosystem
           <= 2 * SwayInitialSupply

\* A lock opens before the block it was created for and extended to, or the cliff
\* of its vesting, only if a sum of blocks wrapped or a lock with the same
\* identifier replaced it: no other sequence of creations, extensions and releases
\* by anyone opens it.
IntactLockHolds ==
    \A id \in DOMAIN locks :
        promised[id].intact /\ block < promised[id].until => Releasable(locks[id]) = 0

-----------------------------------------------------------------------------
(* Statements of the repository that the code does not keep *)

\* "Enforced at protocol level", "cannot be bypassed": no lock can be released
\* before the block it was created for and extended to.
LockHolds ==
    \A id \in DOMAIN locks :
        block < promised[id].until => Releasable(locks[id]) = 0
=============================================================================
