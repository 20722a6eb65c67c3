# WayChain node: TLA+ specification and proofs

This directory specifies the WayChain node: its consensus manager, the ledger
with its persistence, the native economy (emission, governance, quests, faucet,
rent, storage, mineral rights, SWAY, swaps and locks), the 2WAY stablecoin, the
WebSocket subscriptions, the peer connections and the rate limiter. TLC checks
every module on small instances; TLAPS proves every safety property that a
passing run checks, for all values of the constants. Where the code does not do
what one would wish of it, the model does what the code does, and a property
says either that a statement of the repository fails (section 3) or what the
only way of failing is.

## 1. The system

The node is one Go process (`main.go`, `cli.go runNode`). These goroutines run
in it:

| goroutine | code | touches |
|---|---|---|
| block loop, one tick per second | `cli.go runNode` | chain, pool, database, subscribers, peers |
| one RPC handler per request | `rpc.go handleRPC` | chain, pool, accounts, database, under `rpc.mu` |
| one WebSocket handler per connection | `rpc.go handleWS` | the subscription manager |
| consensus ticker, timers and vote handlers | `consensus_round.go` | rounds, engine, chain |
| accept loop, one read loop per peer, heartbeat | `p2p.go` | the peer table |
| clean-up of the rate limiter | `rate_limit.go` | the token buckets |

`NewConsensusManager` has no caller outside the tests: the daemon produces
blocks from its own loop. The manager is specified as it is written. Likewise
`RegisterStake`, `RemoveStake` and `ClaimReward` have no caller outside the
tests, so the daemon pays no validator; and only tests write the `minCRatio`
parameter without which `twoWayDeposit` refuses a coin.

### Inventory

| component | state | operations | what is hard | what makes it correct |
|---|---|---|---|---|
| Consensus manager and engine (`consensus_round.go`, `consensus.go`) | current round, timers, finalized blocks, current height | propose, prevote, precommit, handle vote, time out, check commit, finalize | steps split over several critical sections, heights read without a lock, timers of replaced rounds, repeated and late votes | a committed round is final and had its quorum; heights only grow; every round is resolved |
| Chain, pool, daemon (`chain.go`, `cli.go`, `genesis.go`) | height, accounts, three lanes | produce a block, Sync, SyncTxs, boot, shut down | crash between database transactions, pool, balances and nonces shared without a lock | no replay, no half-kept transaction, no overdraft of who is covered, no height or stored transaction lost |
| Store (`store/store.go`) | accounts, height, block records, index, transactions | one database transaction each | partial failure | the index leads to the transaction it names |
| JSON-RPC (`rpc.go`) | none of its own | send a transaction, fund, deploy, queries | runs beside the block loop under another lock | what it checks still holds when it is used |
| EVM front end (`evm/interpreter.go`, `revm_bridge.go`) | accounts | transfer, precompile, call, deploy | results of revm written back to accounts | each transaction is charged as it was executed |
| Emission (`progressive_staking.go`, `evm/inflation.go`) | stakes, carry, epoch counter, rate | register, remove, distribute, roll over, claim, set the rate | rounding, a rate changed inside an epoch | nothing lost, nothing above the cap and its share, pay follows stake |
| 2WAY vaults and Stability Pool (`evm/two_way.go`, `evm/stability_pool.go`) | collateral, debt, locks, deposits, reward buckets | deposit, mint, withdraw, burn, liquidate, absorb, claim | two precompiles read and write each other's slots, no rollback | exclusivity, counters that agree |
| Subscriptions (`rpc_ws.go`, `handleWS`) | two maps, a `done` channel each | subscribe, unsubscribe, clean up, broadcast | three places close a channel, a broadcast without a lock | closed once, no leak, no head missed, only a client that does not read holds a broadcast |
| P2P (`p2p.go`, `p2p_daemon.go`) | peer table, a bounded channel | dial, accept, read, broadcast, heartbeat, stop | four goroutines that put into and delete from one map, a full channel | an open connection leaves the map only through its key, a lost one leaves it |
| Rate limiter (`rate_limit.go`) | a token bucket per client | allow, clean up | integer refill, dropped idle buckets | never more than the rate in any stretch of time |
| Governance (`evm/governance.go`) | proposals, tallies, ballots, markets | create, vote, finalize, trade | errors after the count, re-creation, finalization by anyone | one yes vote each; the rate moves by a vote only |
| Task registry, faucet, seed (`evm/task_registry.go`, `faucet.go`, `genesis_seed.go`) | claims, cap counter, escrow, bounties, treasury | claim, verify, fund, give away, escrow, drip | payers that are short, a cap that moves with the supply, callers with two names | no WAY made or lost but by one known call, cap kept |
| Economic loop (`evm/econo_loop.go`) | a window of output, a policy | accrue, compute the phase, burn | unsigned windows, lost at a restart | (feeds the treasury and the quest cap) |
| State rent, storage endowment (`evm/state_rent.go`, `precompiles.go`) | a packed slot, an operator list | pay, ask, register, prove | a block number in two bytes over a sum, names cut to 20 characters | whoever is late is frozen when asked for |
| Mineral rights (`evm/mineral_rights.go`) | claims, attestations, tokens | register, verify, approve, issue, transfer | attestations in any order, records found by a scan of all values | stages attested, tokens backed |
| SWAY, swap, locks (`evm/sway_token.go`, `swap_route.go`, `trustless_lock.go`) | total, buckets, balances, lock headers | mint, burn, swap, lock, release, extend | a ceiling and block numbers in 64 bits, identifiers that collide, type 0 with two meanings | ceiling kept, locks open early in two known ways only |
| Validator set (`validators.go`) | stakes, missed counters, jailed list | add, remove, mark missed, jail | counters of validators that left | jailed once, counters only of members |
| Badges, dead man's switch, account manager, attestation, 1WAY, scheduler (`evm/*.go`) | storage slots | one handler per selector | sequences of calls, block-number boundaries | released when due, reserves kept |
| Cryptography, encodings, client and demos | none | pure functions | - | out of scope |

`PROJECT.json` lists each component with its status, and every hazard with the
line where it bites.

## 2. Modules

| module | models | composed with |
|---|---|---|
| `Finality` | the ledger consensus promises: a set of heights that grows upwards | - |
| `Consensus` | manager, engine and the height of the chain | refines `Finality` |
| `Chain` | block loop, pool, RPC calls that change state, database, crashes | - |
| `Precompiles` | what every native call is given: caller, level, block, 64-bit arithmetic | - |
| `Econo` | the economic health loop | extends `Precompiles` |
| `Staking` | emission and the part of `ProduceBlock` that pays it | extends `Econo` |
| `Governance` | precompile 0x1D, which sets the rate of `Staking` | extends `Staking` |
| `Quests` | task registry 0x23, treasury 0x03, faucet 0x27, genesis seed | extends `Econo` |
| `Endowment` | state rent 0x1E, storage endowment 0x17 | extends `Econo` |
| `MineralRights` | precompile 0x20 | extends `Econo` |
| `Exchange` | SWAY 0x24, swap route 0x25, trustless locks 0x1A | extends `Precompiles` |
| `Economy` | the seven above on one chain, with blocks and restarts | extends all of them |
| `Peers` | the P2P node's connections | - |
| `RateLimit` | the RPC token buckets | - |
| `Network` | the two above, one behaviour about each | extends both |
| `TwoWay` | the two 2WAY precompiles | - |
| `Subscriptions` | manager, handlers, broadcast | - |
| `MC...` | instances for TLC | extend the module they name |
| `ConsensusProofs`, `ChainProofs`, `TwoWayProofs`, `SubscriptionsProofs`, `NetworkProofs` | theorems | extend the module they name |
| `WayProofs` | theorems about emission, governance and quests | extends `Economy` |
| `AssetProofs` | theorems about mineral rights, SWAY, locks and rent | extends `Economy` |
| `Sums` | lemmas about sums over finite sets | extended by the proof modules that add up |

In every module a comment marked *Mutant* introduces a definition that is the
next one with a plausible mistake in it. Nothing uses these definitions; they
are there to show that a property notices the mistake, by putting them in the
place of the definition that follows.

### Consensus

`cur` is `CurrentRound`, `tick` the program counter and locals of the ticker
goroutine, `armed` and `fired` the timers, `checks` the calls of `precommit`
between their two critical sections. Each action is one critical section of
`consensusMu`, or a stretch of code between two of them:

| action | code |
|---|---|
| `RunBlockRound`, `PublishRound`, `ArmTimer`, `AssignTimer`, `OwnPrevote` | `runBlockRound`, `proposeBlock`, `prevote`, step by step |
| `Fire`, `HandleTimeout` | the runtime, `handleTimeout` |
| `HandlePrevote`, `HandlePrecommit` | `handleVote` |
| `RecordPrecommit`, `CheckCommit` | `precommit`, `checkCommit` |
| `Stop`, `LoopExit` | `Stop`, `consensusLoop` |

`AssignTimer` is a step of its own because `round.Timeout` is written, without
the lock, after `AfterFunc` has started the timer: a commit in between cannot
stop it. A proposed block is named by its height, which `ProduceBlock` never
repeats; the height of a round is another number, read from the engine. The
lottery that picks proposers and the active set are the constants `LocalHeights`
and `ActiveSet`. Votes may carry any validator, height and published block and
come any number of times: signatures are not checked by this code.

### Chain

`mem` is the chain in memory, `disk` the database, `prod` the block loop, `rpc`
a call inside `rpc.mu`. `Crash` may fall between any two steps. A transaction is
a record of all its fields; `ok` and `gasUsed` are what executing its payload
yields. Credits and the debit are two steps, because `Execute` and the deduction
in `ProduceBlock` are. `PopConsensus`, `Pool.Add`, the balance of
`way_fundGenesis` and the nonce of `way_deployCode` are a read and a write-back
each: the block loop takes none of the locks the RPC server takes, so it may run
between the two. The write-back of a funding wins or is overwritten; the one of
a deployment puts back a nonce that transactions have raised since. A funding
may be negative, as `rpc.go` takes any hexadecimal number. `funded` and
`applied` are bookkeeping the code does not have: what was minted to an account,
and the transactions whose debit a set of accounts contains. `Image` is the
account on which revm's results are written: an address of 32 bytes is hashed to
one of 20 (`toEvmAddr`), so results for it land on another account, and one of
20 bytes is debited by revm and by `ProduceBlock`. A block's time tasks, rewards
and the treasury's share touch no account of this model (the daemon registers no
stake); the call of `OnNewBlock` is `Subscriptions`.

### Economy

Each native precompile is a module with its state, one action per selector that
writes, and its properties; `Economy` puts them on one chain. They share three
things: `ProduceBlock`, which rolls the epoch over, applies the economic policy,
pays validators and the treasury's share and raises the live supply; the
snapshot `econoSnap` that quests, rent, storage and mineral rights accrue into;
and `Restart`, between two blocks, which keeps the accounts and forgets every
package variable and the whole `ProgressiveStaking`. The height is raised first,
so calls, rewards and policy of a block see one number, and the first block is 1.
A call is one step, for a block runs its calls one after another; a call that
fails keeps what it wrote before the error, as the code does. Keys that keep 20
characters of a name are functions of `Prefix`: names that begin alike share
them.

* `Staking`: the carry `accrued`, a `float64` in the code, is counted in units of
  1/`BlocksPerYear` of a token, in which every quantity is whole. `accumulated`
  is kept per validator, `balance` per account: `ValidatorID.String()` is one byte
  of the ID (`Name`), and validators may share it. `emitted` is history, less the
  carries that were lost with a process; so is `epochShares`, what the treasury
  got on top of the epoch's rewards.
* `Governance`: a proposal is named by title, proposer and block. `yesBy` is
  history. The vote is counted before credits are checked, as in the code.
* `Quests`: a caller is named by key or by address (`Short`), and the two are
  different accounts, which is where a claim and its payment part. The faucet
  limits a prefix of the address. `bounty` is the number a bounty's slot reads
  as, which a funded treasury may cover. `issued` is history: WAY that came from
  outside (seeds, `questFund`, the treasury's share, less burns).
* `Endowment`: `rent` is the slot of a prefix as a number whose low bytes are the
  flag and two bytes of the block; `WithBlock` overwrites them. `paidBlock` and
  `asked` are history.
* `MineralRights`: `Cut` is the name that fits 32 bytes. Attestations are a
  function of verifiers; roles, approval and order matter, dates do not.
  `RoleFound` looks, as the scan does, at everything stored: `PassesFor` lists the
  deeds and names whose bytes are those of a record. `written` is history.
* `Exchange`: unlock blocks are uint64 (`Word`). `LockID` is made of the pool and
  of `Joined`, the bytes of an amount followed by the digits of a block, which
  different amounts and blocks may share. `promised` is history: until when a
  lock was to hold, and whether it is intact.

A *scenario* (`MCEconomy!Workloads`) names the families of calls a behaviour may
use, how many calls and how many blocks. The families write disjoint state
except for what is listed above, so the scenarios mix the ones that meet: quests
with staking (the cap), with rent (the snapshot) and with the faucet (the
treasury); governance with staking (the rate); swaps with locks; and restarts
with each family that keeps state in memory.

### Peers, RateLimit

`peers` is the map, `loop` the program counter of the goroutine of each
connection from dial or accept to the end of its read loop, `shut` and `gone`
the two ends of the socket. Each critical section of `peerLock` is one action.
`Key` is a connection's key in the map: registering replaces an entry with the
same key and a leaving read loop deletes whatever is under its own. The
heartbeat's empty write fails surely on a connection closed here, perhaps on one
the remote end has reset, and perhaps on one to which a message is being
written: the two share the write lock, and the deadline of three seconds also
meets a live peer that does not read. `RateLimit` counts time in ticks;
`allowed` is history. The two share nothing, and `Network` makes a behaviour
about one of them.

### TwoWay

The state is the storage slots of the two precompiles. A call that fails after
its first write is not rolled back, so `TwoWayMint` books the fee also when it
refuses the mint. `WriteSlot` drops the sign, as the code's `writeSlot` does.
Keys keep 20 bytes of a vault's ID for collateral and 31 for debt (`CollSlot`,
`DebtSlot`), so vaults may share them; a coin is taken as collateral only when
its `minCRatio` is set (`Accepted`).
The price setter has no selector in the dispatch; it is modelled because the
tests call it.

### Subscriptions

`info` holds every subscription object ever made, `subs` and `connSubs` are the
two maps, `closes` counts how often `done` was closed. `cast` is the broadcast:
its snapshot, the `select` on `done`, the write, and the clean-up after a write
that failed, each a step. A handler may serve buffered requests of a connection
that is already broken. The writes have no deadline: the clients in `Stuck` may
stay connected and stop reading.

## 3. What is checked

| run | instance | shows |
|---|---|---|
| `Consensus_rounds` | 3 validators, 2 proposals, 3 precommits a round, fair | every interleaving keeps a committed round final, counted in its own round; rounds only advance; `ImplementsFinality`; `RoundResolves`: every proposal commits, times out or is replaced |
| `Consensus_quorum` | 3 validators | does not hold: a commit without two thirds behind the block |
| `Chain_crash` | 2 accounts, 5 payments and calls, one with too low a limit, 2 crashes | no replay, disk explained by its transactions, nobody overdrawn whom the check covers, index and height sound |
| `Chain_faults` | a failing write, a funding of 2 or -1, a direct deployment, a crash, a transaction of the oracle lane | what is stored stays stored; the pool loses a transaction only by writing back a lane read before it came in |
| `Chain_tornsave` | funding in the middle of a block | does not hold: half of a transfer is saved |
| `Chain_lookup` | one failing write | does not hold: an index entry leads to another transaction |
| `TwoWay_safety` | 2 users, 2 vaults that share a collateral key, 2 coins, one accepted | exclusivity, total debt never above the vaults', deposits add up |
| `TwoWay_lock` | the same | does not hold: a burn on an empty vault frees a minter that still owes |
| `Economy` | 4 accounts with 3 addresses and 2 prefixes, 2 validators with one account, 18 scenarios of up to 6 calls and 6 blocks in epochs of 2 (620,000 states) | emission conserved, under the cap with the treasury's share, and granted by stake; one yes vote each and the rate moved by a vote; quest cap; WAY made by one call only; rent, claims and tokens; SWAY ceiling; locks |
| `Economy_lock` | the scenario of the locks | does not hold: a lock opens before its block |
| `Subscriptions` | 2 connections, one of which may stop reading, 2 subscriptions, 2 blocks, fair | closed once, no leak, no head missed; only a client that does not read holds a broadcast; lost connections forgotten |
| `Network` | 2 connections to one seed address and an inbound one, a channel of 1; a client with a bucket of 2 over 7 ticks | a connection leaves the map unclosed only through its key, a lost one is forgotten; the rate holds for every stretch of time |

**Bounds.** Two blocks in `Consensus` allow a round to be replaced and a timer of
the first to meet the second; three precommits exceed the threshold of two by
one, so a vote can come after the commit. Heights in `Chain` go to three:
genesis, a block that is lost, and the one that takes its height again; two
crashes allow a restart to be interrupted. The staking scenarios run over two
rollovers, the second with a carry from before; brackets and bounds of the rate
are the code's. A block emits three times the code's, so that an epoch of two
blocks pays at every rate, and the rate is lowered in the middle of one, below
what the epoch already minted. Six calls take a mineral claim through all stages;
one deed has the bytes of a lawyer's record of a first claim. The quest rewards
exceed what the treasury holds and the cap allows, so both refusals happen, and a
bounty is worth more than the seed and less than a funded treasury. Periods of 1,
3 and 8190 in a word of 8192 make sums of blocks wrap, and the amounts 7 and 121
join with blocks to the same digits. Two bytes of a block are 2 values here and a
grace period is 3 blocks: as in the code (65,536 and 2,592,000), the bytes hold
less than the period. A channel of one is full after the first message. Two
connections with one subscription each are enough for one to be closed while the
other is written to. Where a module ends at a bound and not at a deadlock of the
system, deadlock checking is off.

**Fairness.** `Consensus`: a goroutine past its first step keeps running, a timer
that is not stopped fires, its callback runs. These are promises of the Go
runtime; nothing makes votes arrive or a new tick come. `Subscriptions`: the
broadcast and the handlers run, and a write returns when the connection is
broken or the client reads. Nothing is assumed of a write to a client in `Stuck`
that stays connected: such a client holds up the block loop, and `BroadcastEnds`
says that nothing else does. `Network`: the read loop of a connection runs;
nothing makes messages, heartbeats or a reader of `Incoming` come. `Chain` has
no fairness: that a queued transaction is taken is not what the code gives,
because the pool may lose it and a client may hold the block loop.

### Where the code does not keep what it says

* `Consensus_quorum`: `PrecommitPower` counts messages, not validators, and does
  not look at the block a precommit names; the threshold is truncated.
* `Chain_tornsave`: `way_fundGenesis` saves all accounts under a lock the block
  loop does not take, between the credit and the debit of a transfer.
* `Chain_lookup`: `SyncTxs` runs after a failed `Sync`; the height is used again
  after a restart and the old index entry points into the new block.
* `TwoWay_lock`: a burn lowers the caller's lock whichever vault is named. (The
  trace needs a coin whose `minCRatio` is set, as the tests set it.)
* `Economy_lock`: an extension that wraps, which anyone may make, or a later lock
  whose amount and block join to the same bytes, opens a lock the code calls
  impossible to bypass.

Some properties hold with a named exception, which is what the code does wrong;
the property then says that there is no other way:

* `NoReplay` holds while `way_deployCode` is not called: its write-back rewinds a
  nonce, and an executed transaction fits again. It is about accounts whose
  address is not the 20-byte form of another one, on which revm writes a nonce.
* `NobodyOverdrawn` and `DiskExplained` are about accounts whose transactions the
  check before execution covers: the limit covers the gas charged (nothing checks
  it, and a transfer costs 21000 whatever its limit), and revm does not debit the
  sender as well (it does debit a sender of 20 bytes, whom `ProduceBlock` debits
  again). A balance below zero loses its sign on disk.
* `LaneKept`: a queued transaction is lost when a lane that was read before it
  came in is written back over it.
* `WayConserved`: `verifyCommunity` credits the claimant although the payer is
  short, which makes exactly the reward.
* `ClaimsAttested`: a deed hash or a name with the bytes of a verifier's record
  stands in for a lawyer or a surveyor.
* `LateIsFrozen`: a slot that a payment left at zero reads as never paid.
  Nothing is said of the converse, which fails: past block 65535 an account that
  just paid reads as late.
* `IntactLockHolds`: see `Economy_lock`.
* `EpochCapHolds`: the treasury's share comes on top of the cap, and a restart
  starts counting anew in the middle of an epoch.
* `BroadcastEnds`: a client that stays connected and does not read holds up the
  block loop for good.
* `OpenIsTracked`: a connection that shares its key with another (a seed listed
  twice, a remote port used again) loses its entry when that one registers or
  leaves, and stays open and read where no broadcast, heartbeat or `Stop` finds
  it.

Seen in the source and followed by the models, without a run of their own: the
timer of a replaced round times out its successor at the same height; the oracle
and private lanes have no consumer; a shutdown overwrites the record of the last
block; a burn above a vault's debt lowers the total by more than the vault; a
second deposit replaces collateral without a ratio check; a withdrawal after an
absorption can make the pool's balance grow; `stabilityAbsorb` leaves the
vault's debt, so it can be absorbed again; a refused mint keeps its fee; vaults
whose IDs begin alike share their collateral; the treasury's share is not
counted in the supply; validators whose IDs end alike are paid into one account;
a validator with a small share of the rewards may never be paid, because the
carry is spent on the large ones whenever it reaches one of their tokens; the
first bracket holds 1001 tokens where its comment says 1,000.

In the native economy: a vote with credits on a quadratic proposal returns an
error and counts all the same, and no operation gives credits; a no vote without
credits leaves no record and can be repeated; a proposal created again in its
block keeps its ballots and loses its yes votes; anyone finalizes at any time; a
quest can be verified without a claim, and again; escrows of all tasks are one
balance; a bounty's slot reads as a number far above its amount, which is paid
each time the fix is verified if the treasury was funded that far, and anyone
may fund it; callers whose addresses begin alike share a cooldown; a founder's
drip seeds whatever is empty, each time; payouts accrue with block 0, which
opens a new window whenever the old one began later; rent is not taken from the
payer, and names that begin alike share a rent slot and an operator record; an
operator may register again, and one whose name is longer than 20 bytes cannot
submit a proof; anyone may burn anyone's SWAY; `getBalance` reads a slot no mint
writes; a released lock of another type reads as a time lock whose start is its
unlock block, so it can be released again; an extension of an identifier that no
lock has writes the header of a time lock; a pair whose first token begins with
a zero byte is counted each time it is created; a comment says the buckets of
SWAY are 45/20/15/12/8 where the code has three. In the network: a dial or
accept that ends after `Stop` still registers its connection; the daemon does
not read `Incoming`.

## 4. What is proved

Every safety invariant and every action property of a passing run is a theorem:
it holds for every value of the constants that satisfies the named assumptions
of its module, and TLC evaluates those assumptions on every run.

### Sums

The conservation properties add up a function over a finite set, with
`SumFunctionOnSet` of the community modules, whose definition recurs over the
set. `Sums` proves what the sum of an arbitrary function does: it is zero over
the empty set, gains the term of an element that is added, changes by the
difference when one term changes, grows with its terms, is whole or natural when
they are, adds up over disjoint sets (`SumUnion`) and over the groups into which
a function divides a set (`SumGroups`, which gives what shared accounts are
credited). The induction is a minimal counterexample among the subsets of a
finite set (`SubsetInduction`), for which `WFMin` of the library is enough; no
operator is passed as a parameter.

### Consensus

`ConsensusProofs` (assumptions: finite validators that contain the active set and
the local node, natural bounds):

* `TypeCorrect`, `CommittedRoundsAreFinal`, `FinalizedRoundsHadTheirQuorum`,
  `HeightsAgree` from the inductive invariant `IInv` of `Consensus`;
* `RoundsOnlyAdvance`, an action property, and `Refinement`: the manager
  implements `Finality`.

The safety properties are not inductive by themselves. The ticker publishes a
round from a height and a block it read earlier, so one must know that the
height is still not above the engine's next one and not below the current
round's, and that the block is still the newest of the chain, above the current
round's: `TickerInv`. With it a commit always finalizes a block at or above the
engine's height, which is what the refinement needs. The proof has one lemma per
group of actions; steps that only touch votes, timers or the ticker's program
counter go through `QuietStep`, the commit check through `CommitStep`.

### Chain

`ChainProofs` (assumptions: finite accounts that contain the development account,
well-typed transactions, natural bounds). All theorems rest on `Inv`: the types,
with a balance taken as an integer, and `Stage`, what the program counters say of
the rest (a process that is down does nothing, genesis is stored before anyone
is served, a chain in memory is never behind the database).

| theorem | hypotheses | inductive invariant |
|---|---|---|
| `TypesKept` | - | `Inv` |
| `StoredHeightGrows` | - | `Stage` |
| `StoredStays` | - | `KeptInv`: while the daemon serves, the transactions in memory extend the ones on disk |
| `QueueIsKept` | - | `Inv` |
| `NothingReplayed` | `MaxDeploys = 0` | `NonceInv`: the transactions of an account of its own in a ledger are distinct and behind the nonce of their sender; the one between execution and debit is not among them |
| `IndexedTxsApplied` | `MaxErrors = 0` | `StoredInv`: memory contains what the disk contains, and the two agree from the save of the accounts to the end of `SyncTxs` |
| `LookupsAreSound` | `MaxErrors = 0` | `LookupInv`: an index entry points to its transaction, in a written list or in the block in hand; no list is above the stored height |
| `CoveredNotOverdrawn` | `MaxFunds = 0` | `Solvent`: nobody covered is below zero, and a covered sender of the transaction in hand still has what it will be charged |
| `DiskIsExplained` | `MaxFunds = 0` | `MoneyInv`: memory and disk are what was minted plus the effects of their transactions, and memory holds the credit of the one in hand besides |

Nothing is assumed of the transactions: any sender, limit and kind. The
hypotheses are bounds that switch a fault off, because with it the property
fails: `Chain_lookup` shows the lookup with one failing write, `Chain_tornsave`
the balances with one funding (which may also be negative, or write over a
debit); a deployment rewinds a nonce. Crashes, restarts and shutdowns are never
restricted.

The hard step of the last two is the pair `ExecuteTx`, `DebitSender`: the RPC
server runs between them, and a crash may fall there. `Solvent` survives
because whatever comes between them leaves the sender at least what it had;
`DiskExplained` survives because `SyncAccounts` runs at a program counter where
nothing is pending.

### 2WAY

`TwoWayProofs` (assumptions: finite users, vaults and coins, natural amounts, a
positive unit of price, vaults that share the longer key share the shorter):
`Exclusivity`, the invariant being the type together with exclusivity: the mint
checks the deposit slot and the deposit checks the lock, and no other call
raises either. `DebtNotOvercounted` and `DepositsCounted` are inductive together
with the types: a burn lowers the total by at least what it takes from the
vault, and a deposit slot is never above the sum, so a withdrawal does not meet
the sign that `WriteSlot` drops.

### Economy

The theorems are about behaviours of the whole `Economy`, blocks and restarts
included.

`WayProofs` (assumptions of `Staking`, `Governance` and `Quests`: finite sets of
validators, accounts and addresses, brackets that rise, natural amounts and
rates):

* `EmissionIsConserved`, with the types of stakes and pay. The shares of a block
  add up to what leaves the carry, and they do not exceed it, since each is a
  floor of its part (`SumLeq`, `SumScale`); what the accounts are credited is the
  same sum, grouped by name (`BlockCredits`); a restart drops carry and history
  alike. `EpochCapKept` follows from the same bound at the moment of the block,
  whatever the rate was before; the shares of the treasury, floors too, stay
  within the share of the cap (`ShareOfSum`).
* `PaidInOrderOfStake`, on what a block adds to `Accumulated` of each validator:
  the weight of a stake is monotone because the brackets rise, and so are the
  shares. `TotalIsExact`: registering, changing and removing a stake change one
  term of the sum.
* `OneVoteEach`: a yes vote is counted together with a record, and the record
  keeps the voter out. Inductive is that the yes-voters of a proposal are among
  its ballots and that all functions have the proposals as their domain.
  `RateMovesByVote`: a passed proposal has a yes vote because its share exceeds a
  threshold that is not negative.
* `QuestsWithinCap`: the cap only grows, as a block raises the supply.
  `WayIsConserved`, an action property: each call moves one or two terms of the
  sum of holdings or enters `issued`; what an empty faucet or treasury is seeded
  with is issued. `verifyCommunity` with a short payer is the one step that does
  neither, and it adds the reward.

`AssetProofs` (assumptions of `MineralRights`, `Exchange`, `Endowment` and
`Precompiles`; finitely many names):

* `StagesAttested`: attestations are only ever added, so the roles, the approval
  and the number a stage rests on stay; what is stored was written
  (`StoredIsWritten`), so a record that passed for a verifier's stays explained.
  Nothing is assumed of which deeds and names pass for a record.
  `TokensAreBacked`: tokens are issued on leaving the stage in which the sum is
  zero.
* `SwayWithinCeiling`: total and buckets together never exceed twice the initial
  supply, which makes the 64-bit comparison irrelevant. `IntactLocksHold`: the
  header of an intact lock is tied to its promise: a time lock opens at the
  promised block or later, a vesting not before its cliff or its end, a
  multi-signature lock never. `Joined` is any operator, so identifiers collide in
  any way.
* `LateNamesAreFrozen`: the two bytes of a block are never above the block, so
  what is late by the true block is late by the bytes (`RentInv`). It rests on
  the arithmetic of the packed slot, for any width of its parts and any grace
  period.

### Subscriptions and network

`SubscriptionsProofs` (assumptions: natural bounds): `TypeCorrect`,
`DoneClosedOnce`, `NothingLeaks`. The parts need each other: that a clean-up
closes no channel twice follows from `ClosedOnce`, that it leaves nothing behind
follows from `MapsAgree`, and that nothing is added after the handler returned
from `NoLeak` and the program counter of the handler. `HeadsReachAll` from
`HeadInv`: a subscription that is due the head has it, is still to be visited, or
is the one being written to.

`NetworkProofs`: `OpenConnectionsTracked` for any `Key`; its three parts and the
types of the map and of the program counters are inductive together: the
heartbeat, the leaving read loop and `Stop` each close what they take out of the
map, or leave, or take out another connection with their key. `AllOpenTracked`
is the case of distinct keys: every open connection is in the map.
`RateIsKept` (assumptions: a positive rate and interval, an idle limit of at least
the time in which an empty bucket fills, as ten windows are in the code)
from `Budget`: for every start of a stretch, what a bucket gave out since and
still holds is within one full bucket and the refill up to its last count, and a
client whose bucket was dropped has a whole bucket to spare.

### Only model-checked

The liveness properties `RoundResolves`, `BroadcastEnds`, `LostConnsForgotten` and
`LostIsForgotten`: they rest on fairness, hence on `ENABLED`, which the prover
does not handle. And, being false in their runs, the properties of the five runs
that find a violation.

## 5. What is not modelled

Block hashes, the state root, signatures and logs; bytecode (revm, a library);
scheduled tasks inside `ProduceBlock`; reads that change nothing; overflow of
64-bit gas arithmetic and of 256-bit slots; a phantom lock header that an
extension brings around to zero, which would vanish; a Go abort on concurrent
use of a map (it is the `Crash` of `Chain`); identifiers that `append` builds
over the caller's input; the components listed as `not_modelled` in
`PROJECT.json`, with the reason for each.

## 6. Plan

What is left, in this order:

1. **1WAY** beside `TwoWay`, and the **validator set** with jailing.
2. **Core precompiles**: badges, dead man's switch, bitcoin registry; the account
   manager and cross-chain attestation.
3. **Scheduler**: tasks that run inside `ProduceBlock`.

Each of them gets its invariants, with their proofs, beside the module.
