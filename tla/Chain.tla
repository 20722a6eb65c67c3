-------------------------------- MODULE Chain -------------------------------
(***************************************************************************)
(* The daemon's ledger (chain.go, cli.go runNode) with its RPC front end   *)
(* (rpc.go) and its BoltDB store (store/store.go), through crashes and     *)
(* restarts.  Two goroutines share the chain without a common lock:        *)
(*                                                                         *)
(*   - the block loop: produce a block, transaction by transaction, then   *)
(*     persist it in separate database transactions: all accounts, the     *)
(*     block record with the height, one index entry per transaction, the  *)
(*     block's transactions;                                               *)
(*   - the RPC server, which holds rpc.mu, a lock the block loop ignores.  *)
(*                                                                         *)
(* A crash may fall between any two steps.  What survives is disk.         *)
(*                                                                         *)
(* Each account carries, next to its nonce and balance, the bookkeeping a  *)
(* ledger is judged by and the code does not have: funded, what was minted *)
(* to it, and the state carries applied, the transactions whose debit it   *)
(* contains.  Both are saved and lost with the accounts.                   *)
(*                                                                         *)
(* The daemon registers no stakes, so DistributeBlockReward pays nothing;  *)
(* epoch rollover and scheduled tasks touch no account of this model.  The *)
(* gas price is 1.                                                         *)
(***************************************************************************)
EXTENDS Integers, Sequences, FiniteSets, FiniteSetsExt, Functions

CONSTANTS
    Accounts,
    Dev,            \* the daemon's development account, funded when empty
    Txs,            \* transactions a client may send
    GenesisBalance, \* balances of InitGenesis
    Doxed,          \* accounts with Dox_Dev level 2 or more at genesis
    Image,          \* the account revm's results for an account are written to:
                    \* itself when its address has 20 bytes, else another one
    DevFund,        \* what the daemon gives Dev when it is empty
    FundAmounts,    \* amounts of way_fundGenesis: it takes any, also below zero
    TransferGas,    \* gas of a plain transfer, whatever its limit
    BatchSize,      \* transactions per block
    MaxHeight,      \* bound: blocks
    MaxSubmits,     \* bound: transactions accepted by the RPC server
    MaxFunds,       \* bound: way_fundGenesis calls
    MaxDeploys,     \* bound: way_deployCode calls
    MaxErrors,      \* bound: failed database transactions
    MaxCrashes      \* bound: crashes and shutdowns

\* A transaction is known by all its fields; ok and gasUsed are what executing
\* its payload yields.
TxType ==
    [from : Accounts, to : Accounts, kind : {"transfer", "precompile", "call", "deploy"},
     nonce : Nat, value : Nat, gasLimit : Nat, gasUsed : Nat, ok : BOOLEAN,
     lane : {"consensus", "oracle", "private"}]

ASSUME ChainAssumption ==
    /\ IsFiniteSet(Accounts) /\ Dev \in Accounts /\ Doxed \subseteq Accounts
    /\ \A t \in Txs : t \in TxType
    /\ GenesisBalance \in [Accounts -> Nat]
    /\ DOMAIN Image = Accounts
    /\ DevFund \in Nat /\ TransferGas \in Nat /\ BatchSize \in Nat \ {0}
    /\ FundAmounts \subseteq Int /\ MaxHeight \in Nat \ {0}
    /\ {MaxSubmits, MaxFunds, MaxDeploys, MaxErrors, MaxCrashes} \subseteq Nat

VARIABLES
    up,         \* the process: "down", "booting" or "serving"
    mem,        \* Chain: height, accounts and the bookkeeping
    pool,       \* TxPool: the consensus lane and the two others
    prod,       \* where the block loop stands
    rpc,        \* where the RPC call under rpc.mu stands, and the deployments,
                \* which take no lock
    disk,       \* the database
    used        \* how much of each bound is used up

vars == <<up, mem, pool, prod, rpc, disk, used>>

Within(bound, max) == used[bound] < max
Use(bound) == used' = [used EXCEPT ![bound] = @ + 1]

Genesis ==
    [a \in Accounts |-> [nonce |-> 0, balance |-> GenesisBalance[a],
                         doxed |-> a \in Doxed, funded |-> GenesisBalance[a]]]

Idle == [pc |-> "idle", why |-> "block", batch |-> <<>>, tx |-> <<>>, done |-> <<>>, next |-> 1]
NoCall == [pc |-> "idle", tx |-> <<>>, snap |-> <<>>,
           acct |-> Dev, amount |-> 0, seen |-> 0, deploys |-> {}]
EmptyPool == [consensus |-> <<>>, oracle |-> <<>>, private |-> <<>>]
EmptyMem == [height |-> 0, acc |-> Genesis, applied |-> <<>>]
EmptyFunction == [h \in {} |-> <<>>]

Init ==
    /\ up = "down"
    /\ mem = EmptyMem
    /\ pool = EmptyPool
    /\ prod = Idle
    /\ rpc = NoCall
    /\ disk = [height |-> 0, acc |-> Genesis, applied |-> <<>>,
               blocks |-> EmptyFunction, index |-> EmptyFunction, txs |-> EmptyFunction]
    /\ used = [b \in {"submits", "funds", "deploys", "errors", "crashes"} |-> 0]

\* f with the entry k set to x, k new or not: Put of a bucket.
Put(f, k, x) == [i \in DOMAIN f \cup {k} |-> IF i = k THEN x ELSE f[i]]

-----------------------------------------------------------------------------
(* Boot: OpenStore, then genesis on a fresh database *)

\* The development account is topped up only when it is empty.
FundDev(acc) ==
    IF acc[Dev].balance = 0
      THEN [acc EXCEPT ![Dev].balance = DevFund, ![Dev].doxed = TRUE,
                       ![Dev].funded = @ + DevFund]
      ELSE acc

\* serializeAccount writes Balance.Bytes(), which has no sign.
Abs(x) == IF x < 0 THEN -x ELSE x
Deserialize(acc) == [a \in Accounts |-> [acc[a] EXCEPT !.balance = Abs(@)]]

\* OpenStore with a stored height: accounts and height come from disk, the
\* pool starts empty.  (Mutants: the height is not taken over, the accounts are
\* not.)
RestoreAccountsOnly ==
    /\ up = "down" /\ disk.height > 0
    /\ mem' = [height |-> 0, acc |-> FundDev(Deserialize(disk.acc)), applied |-> disk.applied]
    /\ up' = "serving"
    /\ UNCHANGED <<pool, prod, rpc, disk, used>>
RestoreHeightOnly ==
    /\ up = "down" /\ disk.height > 0
    /\ mem' = [height |-> disk.height, acc |-> FundDev(Genesis), applied |-> <<>>]
    /\ up' = "serving"
    /\ UNCHANGED <<pool, prod, rpc, disk, used>>
Restore ==
    /\ up = "down" /\ disk.height > 0
    /\ mem' = [height |-> disk.height, acc |-> FundDev(Deserialize(disk.acc)),
               applied |-> disk.applied]
    /\ up' = "serving"
    /\ UNCHANGED <<pool, prod, rpc, disk, used>>

\* A database with no height: InitGenesis and ProduceGenesisBlock build a chain
\* at height 1, and Sync("genesis") follows.
BootGenesis ==
    /\ up = "down" /\ disk.height = 0
    /\ mem' = [height |-> 1, acc |-> Genesis, applied |-> <<>>]
    /\ prod' = [Idle EXCEPT !.pc = "accounts", !.why = "genesis"]
    /\ up' = "booting"
    /\ UNCHANGED <<pool, rpc, disk, used>>

-----------------------------------------------------------------------------
(* ProduceBlock *)

\* The tick: the height goes up and PopConsensus reads the lane ...
BeginBlock ==
    /\ up = "serving" /\ prod.pc = "idle"
    /\ mem.height < MaxHeight
    /\ mem' = [mem EXCEPT !.height = @ + 1]
    /\ prod' = [Idle EXCEPT !.pc = "pop", !.batch = pool.consensus]
    /\ UNCHANGED <<up, pool, rpc, disk, used>>

\* ... and writes back what it leaves of what it read.
PopConsensus ==
    /\ prod.pc = "pop"
    /\ LET n == Min({BatchSize, Len(prod.batch)}) IN
        /\ prod' = [prod EXCEPT !.pc = "exec", !.batch = SubSeq(@, 1, n)]
        /\ pool' = IF n = 0 THEN pool
                   ELSE [pool EXCEPT !.consensus = SubSeq(prod.batch, n + 1, Len(prod.batch))]
    /\ UNCHANGED <<up, mem, rpc, disk, used>>

\* The checks before execution: nonce, deploy gate, funds for limit and value.
\* (Mutant: the value is not covered.)
ExecutableUncovered(t, acc) ==
    /\ t.nonce = acc[t.from].nonce
    /\ t.kind = "deploy" => acc[t.from].doxed
    /\ acc[t.from].balance >= t.gasLimit
Executable(t, acc) ==
    /\ t.nonce = acc[t.from].nonce
    /\ t.kind = "deploy" => acc[t.from].doxed
    /\ acc[t.from].balance >= t.gasLimit + t.value

\* What a successful run of revm writes back: the caller's balance less gas and
\* value, the target's plus the value.  The caller's own nonce is left alone.
ApplyRevm(t, acc) ==
    [a \in Accounts |->
        CASE a = Image[t.to] /\ t.kind = "call" /\ Image[t.to] # Image[t.from] ->
               [acc[a] EXCEPT !.balance = acc[t.to].balance + t.value, !.nonce = acc[t.to].nonce]
          [] a = Image[t.from] ->
               [acc[a] EXCEPT !.balance = acc[t.from].balance - t.gasUsed
                                            - (IF t.kind = "call" /\ t.to = t.from
                                                 THEN 0 ELSE t.value),
                              !.nonce = IF a = t.from THEN @ ELSE acc[t.from].nonce + 1]
          [] OTHER -> acc[a]]

\* EVM.Execute: a plain transfer between two accounts credits the recipient; the
\* value of a precompile call goes nowhere; calls and deployments run in revm.
Execute(t, acc) ==
    CASE t.kind = "transfer" /\ t.from # t.to -> [acc EXCEPT ![t.to].balance = @ + t.value]
      [] t.kind \in {"call", "deploy"} /\ t.ok -> ApplyRevm(t, acc)
      [] OTHER -> acc

\* One transaction of the batch: a rejected one is dropped.
ExecuteTx ==
    /\ prod.pc = "exec" /\ prod.batch # <<>>
    /\ LET t == Head(prod.batch)
           good == Executable(t, mem.acc)
       IN /\ mem' = IF good THEN [mem EXCEPT !.acc = Execute(t, @)] ELSE mem
          /\ prod' = [prod EXCEPT !.batch = Tail(@),
                                  !.pc = IF good THEN "debit" ELSE "exec",
                                  !.tx = IF good THEN t ELSE <<>>]
    /\ UNCHANGED <<up, pool, rpc, disk, used>>

\* result.GasUsed.
GasUsed(t) == IF t.kind = "transfer" THEN TransferGas ELSE t.gasUsed

\* The sender pays gas used and value and its nonce goes up, whether or not the
\* execution succeeded; only a successful one enters the block.
\* (Mutants: the nonce of a failed transaction stays; the value is not taken.)
DebitSenderKeepingNonce ==
    /\ prod.pc = "debit"
    /\ LET t == prod.tx IN
        /\ mem' = [mem EXCEPT !.acc[t.from].balance = @ - (GasUsed(t) + t.value),
                              !.acc[t.from].nonce = IF t.ok THEN @ + 1 ELSE @,
                              !.applied = Append(@, t)]
        /\ prod' = [prod EXCEPT !.pc = "exec", !.tx = <<>>,
                                !.done = IF t.ok THEN Append(@, t) ELSE @]
    /\ UNCHANGED <<up, pool, rpc, disk, used>>
DebitSenderGasOnly ==
    /\ prod.pc = "debit"
    /\ LET t == prod.tx IN
        /\ mem' = [mem EXCEPT !.acc[t.from].balance = @ - GasUsed(t),
                              !.acc[t.from].nonce = @ + 1,
                              !.applied = Append(@, t)]
        /\ prod' = [prod EXCEPT !.pc = "exec", !.tx = <<>>,
                                !.done = IF t.ok THEN Append(@, t) ELSE @]
    /\ UNCHANGED <<up, pool, rpc, disk, used>>
DebitSender ==
    /\ prod.pc = "debit"
    /\ LET t == prod.tx IN
        /\ mem' = [mem EXCEPT !.acc[t.from].balance = @ - (GasUsed(t) + t.value),
                              !.acc[t.from].nonce = @ + 1,
                              !.applied = Append(@, t)]
        /\ prod' = [prod EXCEPT !.pc = "exec", !.tx = <<>>,
                                !.done = IF t.ok THEN Append(@, t) ELSE @]
    /\ UNCHANGED <<up, pool, rpc, disk, used>>

\* The block is assembled and ProduceBlock returns; Sync comes next.
\* (Mutant: the transactions are synced before the accounts.)
SealBlockTxsFirst ==
    /\ prod.pc = "exec" /\ prod.batch = <<>>
    /\ prod' = [prod EXCEPT !.pc = "index"]
    /\ UNCHANGED <<up, mem, pool, rpc, disk, used>>
SealBlock ==
    /\ prod.pc = "exec" /\ prod.batch = <<>>
    /\ prod' = [prod EXCEPT !.pc = "accounts"]
    /\ UNCHANGED <<up, mem, pool, rpc, disk, used>>

-----------------------------------------------------------------------------
(* Sync and SyncTxs: every step is one database transaction *)

\* Sync returned: a block goes on to SyncTxs, genesis lets the daemon serve (or
\* exit when it could not be stored), a shutdown ends the process.
AfterSync(failed) ==
    \/ /\ prod.why = "block"
       /\ prod' = [prod EXCEPT !.pc = IF prod.done = <<>> THEN "idle" ELSE "index"]
       /\ UNCHANGED <<up, mem, pool, rpc>>
    \/ /\ prod.why = "genesis" /\ ~failed
       /\ prod' = Idle
       /\ up' = "serving"
       /\ mem' = [mem EXCEPT !.acc = FundDev(@)]
       /\ UNCHANGED <<pool, rpc>>
    \/ /\ prod.why = "shutdown" \/ (prod.why = "genesis" /\ failed)
       /\ up' = "down"
       /\ mem' = EmptyMem
       /\ pool' = EmptyPool
       /\ prod' = Idle
       /\ rpc' = NoCall

SaveAllAccounts(d, m) == [d EXCEPT !.acc = m.acc, !.applied = m.applied]

SyncAccounts ==
    /\ prod.pc = "accounts"
    /\ disk' = SaveAllAccounts(disk, mem)
    /\ prod' = [prod EXCEPT !.pc = "block"]
    /\ UNCHANGED <<up, mem, pool, rpc, used>>

\* SaveBlock: the record and the height, in one database transaction.  A
\* shutdown writes its own record over that of the last block.
SyncBlock ==
    /\ prod.pc = "block"
    /\ disk' = [disk EXCEPT !.height = mem.height,
                            !.blocks = Put(@, mem.height, [why |-> prod.why, count |-> Len(prod.done)])]
    /\ AfterSync(FALSE)
    /\ UNCHANGED used

\* Either part of Sync fails: Sync returns, and the error is only logged.
SyncFails ==
    /\ prod.pc \in {"accounts", "block"}
    /\ Within("errors", MaxErrors)
    /\ Use("errors")
    /\ AfterSync(TRUE)
    /\ UNCHANGED disk

\* SaveTxIndex for the next transaction of the block.
SaveTxIndex ==
    /\ prod.pc = "index" /\ prod.next <= Len(prod.done)
    /\ disk' = [disk EXCEPT !.index = Put(@, prod.done[prod.next], <<mem.height, prod.next>>)]
    /\ prod' = [prod EXCEPT !.next = @ + 1]
    /\ UNCHANGED <<up, mem, pool, rpc, used>>

\* The list of the block's transactions, under the block's height.
\* (Mutant: under the height of the next one.)
SaveBlockTxsAhead ==
    /\ prod.pc = "index" /\ prod.next > Len(prod.done)
    /\ disk' = [disk EXCEPT !.txs = Put(@, mem.height + 1, prod.done)]
    /\ prod' = Idle
    /\ UNCHANGED <<up, mem, pool, rpc, used>>
SaveBlockTxs ==
    /\ prod.pc = "index" /\ prod.next > Len(prod.done)
    /\ disk' = [disk EXCEPT !.txs = Put(@, mem.height, prod.done)]
    /\ prod' = Idle
    /\ UNCHANGED <<up, mem, pool, rpc, used>>

\* A failure in SyncTxs abandons the rest of it.
SyncTxsFails ==
    /\ prod.pc = "index"
    /\ Within("errors", MaxErrors)
    /\ Use("errors")
    /\ prod' = Idle
    /\ UNCHANGED <<up, mem, pool, rpc, disk>>

\* A signal between two blocks: Sync("shutdown"), then exit.
Shutdown ==
    /\ up = "serving" /\ prod.pc = "idle"
    /\ Within("crashes", MaxCrashes)
    /\ Use("crashes")
    /\ prod' = [Idle EXCEPT !.pc = "accounts", !.why = "shutdown"]
    /\ UNCHANGED <<up, mem, pool, rpc, disk>>

Crash ==
    /\ up # "down"
    /\ Within("crashes", MaxCrashes)
    /\ Use("crashes")
    /\ up' = "down"
    /\ mem' = EmptyMem
    /\ pool' = EmptyPool
    /\ prod' = Idle
    /\ rpc' = NoCall
    /\ UNCHANGED disk

-----------------------------------------------------------------------------
(* The RPC server *)

Lane(t) == IF t.lane \in {"oracle", "private"} THEN t.lane ELSE "consensus"

\* eth_sendRawTransaction: the checks, then Pool.Add begins by reading the lane;
\* the block loop may run before it writes.
SendRawTransaction(t) ==
    /\ up = "serving" /\ rpc.pc = "idle"
    /\ Within("submits", MaxSubmits)
    /\ Executable(t, mem.acc)
    /\ Use("submits")
    /\ rpc' = [rpc EXCEPT !.pc = "add", !.tx = t, !.snap = pool[Lane(t)]]
    /\ UNCHANGED <<up, mem, pool, prod, disk>>

Return == [NoCall EXCEPT !.deploys = rpc.deploys]

\* (Mutant: the lane is replaced, not extended.)
PoolReplace ==
    /\ rpc.pc = "add"
    /\ pool' = [pool EXCEPT ![Lane(rpc.tx)] = <<rpc.tx>>]
    /\ rpc' = Return
    /\ UNCHANGED <<up, mem, prod, disk, used>>
PoolAdd ==
    /\ rpc.pc = "add"
    /\ pool' = [pool EXCEPT ![Lane(rpc.tx)] = Append(rpc.snap, rpc.tx)]
    /\ rpc' = Return
    /\ UNCHANGED <<up, mem, prod, disk, used>>

\* way_fundGenesis adds to a balance the block loop adds to and subtracts from
\* without rpc.mu: it reads it ...
FundRead(a, amount) ==
    /\ up = "serving" /\ rpc.pc = "idle"
    /\ Within("funds", MaxFunds)
    /\ Use("funds")
    /\ rpc' = [rpc EXCEPT !.pc = "fund", !.acct = a, !.amount = amount,
                          !.seen = mem.acc[a].balance]
    /\ UNCHANGED <<up, mem, pool, prod, disk>>

\* ... and writes the sum over whatever the block loop wrote since, or its sum is
\* what the block loop writes over.  All accounts are then saved, in the middle
\* of a block as well as between two.
FundGenesis ==
    /\ rpc.pc = "fund"
    /\ \E sum \in {rpc.seen + rpc.amount, mem.acc[rpc.acct].balance} :
        /\ sum # rpc.seen + rpc.amount => mem.acc[rpc.acct].balance # rpc.seen
        /\ mem' = [mem EXCEPT !.acc[rpc.acct].balance = sum,
                              !.acc[rpc.acct].doxed = TRUE,
                              !.acc[rpc.acct].funded = @ + rpc.amount]
    /\ \/ disk' = SaveAllAccounts(disk, mem') /\ UNCHANGED used
       \/ /\ Within("errors", MaxErrors)      \* the save fails, unnoticed
          /\ Use("errors")
          /\ UNCHANGED disk
    /\ rpc' = Return
    /\ UNCHANGED <<up, pool, prod>>

\* way_deployCode raises the nonce of the deployer outside any transaction and
\* under no lock: it reads the nonce ...
DeployRead(a) ==
    /\ up = "serving" /\ mem.acc[a].doxed
    /\ Within("deploys", MaxDeploys)
    /\ Use("deploys")
    /\ rpc' = [rpc EXCEPT !.deploys = @ \cup {[call |-> used["deploys"], acct |-> a,
                                               nonce |-> mem.acc[a].nonce]}]
    /\ UNCHANGED <<up, mem, pool, prod, disk>>

\* ... and writes it back raised, whatever transactions have made of it since.
DeployCode(d) ==
    /\ mem' = [mem EXCEPT !.acc[d.acct].nonce = d.nonce + 1]
    /\ rpc' = [rpc EXCEPT !.deploys = @ \ {d}]
    /\ UNCHANGED <<up, pool, prod, disk, used>>

-----------------------------------------------------------------------------

BlockLoop ==
    \/ BeginBlock \/ PopConsensus \/ ExecuteTx \/ DebitSender \/ SealBlock
    \/ SyncAccounts \/ SyncBlock \/ SaveTxIndex \/ SaveBlockTxs

Rpc ==
    \/ \E t \in Txs : SendRawTransaction(t)
    \/ PoolAdd
    \/ \E a \in Accounts, amount \in FundAmounts : FundRead(a, amount)
    \/ FundGenesis
    \/ \E a \in Accounts : DeployRead(a)
    \/ \E d \in rpc.deploys : DeployCode(d)

Next ==
    \/ Restore \/ BootGenesis
    \/ BlockLoop \/ SyncFails \/ SyncTxsFails
    \/ Rpc
    \/ Shutdown \/ Crash

Spec == Init /\ [][Next]_vars

-----------------------------------------------------------------------------
(* Properties *)

TxSeq == Seq(Txs)

AccountsType == [Accounts -> [nonce : Nat, balance : Int, doxed : BOOLEAN, funded : Int]]

\* Every variable keeps its type: a height never leaves the range the ticker
\* counts in, and what is queued, read and stored are transactions, through
\* every write-back of ProduceBlock, Sync and the RPC calls.
TypeOK ==
    /\ up \in {"down", "booting", "serving"}
    /\ mem.height \in 0 .. MaxHeight /\ mem.acc \in AccountsType /\ mem.applied \in TxSeq
    /\ \A l \in DOMAIN pool : pool[l] \in TxSeq
    /\ prod.pc \in {"idle", "pop", "exec", "debit", "accounts", "block", "index"}
    /\ prod.batch \in TxSeq /\ prod.done \in TxSeq
    /\ rpc.pc \in {"idle", "add", "fund"} /\ rpc.snap \in TxSeq
    /\ disk.height \in 0 .. MaxHeight /\ disk.acc \in AccountsType /\ disk.applied \in TxSeq
    /\ DOMAIN disk.index \subseteq Txs /\ DOMAIN disk.txs \subseteq 1 .. MaxHeight

\* Nothing revm computes for another account is written to a: its address is not
\* the 20-byte form of another one.
Own(a) == \A b \in Accounts : Image[b] = a => b = a

\* No transaction of such an account takes effect twice, in memory or on disk:
\* not when the race between Pool.Add and PopConsensus puts executed
\* transactions back into the pool, and not when a client sends one again after
\* a restart.  It holds while way_deployCode, which writes nonces back without a
\* lock, is not called.
Once(applied) ==
    \A i, j \in DOMAIN applied : applied[i] = applied[j] /\ Own(applied[i].from) => i = j
NoReplay == Once(mem.applied) /\ Once(disk.applied)

\* Whether revm runs t and its results are written back.
RevmRuns(t) == t.kind \in {"call", "deploy"} /\ t.ok

\* The check before execution covers what t is charged: the limit covers the
\* gas, and the sender is charged once, by ProduceBlock and not by revm as well.
Covered(t) == GasUsed(t) <= t.gasLimit /\ (RevmRuns(t) => Image[t.from] # t.from)

\* The check has covered every transaction a has sent.
AllCovered(a, applied) ==
    Own(a) /\ \A i \in DOMAIN applied : applied[i].from = a => Covered(applied[i])

\* The transactions that have begun to take effect in memory.
Begun == IF prod.pc = "debit" THEN Append(mem.applied, prod.tx) ELSE mem.applied

\* "Check sender has enough balance for gas + value": an account that has sent
\* only transactions the check covers is never overdrawn, in memory or on disk,
\* whatever others send, although the check at submission is made against
\* balances the block loop is changing.
NobodyOverdrawn ==
    \A a \in Accounts :
        /\ AllCovered(a, Begun) => mem.acc[a].balance >= 0
        /\ AllCovered(a, disk.applied) => disk.acc[a].balance >= 0

\* What transaction t does to the balance of a: the value it receives, unless
\* revm's results for a are written elsewhere; what ProduceBlock takes; and what
\* revm takes as well when it writes to the sender itself.
Delta(t, a) ==
    (IF /\ t.to = a /\ t.from # a
        /\ t.kind = "transfer" \/ (t.kind = "call" /\ t.ok /\ Image[a] = a)
       THEN t.value ELSE 0)
    - ((IF t.from = a THEN GasUsed(t) + t.value ELSE 0)
       + (IF t.from = a /\ RevmRuns(t) /\ Image[a] = a
            THEN t.gasUsed + (IF t.kind = "call" /\ t.to = a THEN 0 ELSE t.value) ELSE 0))

\* What a sequence of transactions does to it.
Effect(applied, a) ==
    SumFunctionOnSet([i \in DOMAIN applied |-> Delta(applied[i], a)], DOMAIN applied)

\* The balances of all accounts the check has protected.  (A balance below zero
\* loses its sign on disk.)
Explained(acc, applied) ==
    \A a \in Accounts :
        AllCovered(a, applied) => acc[a].balance = acc[a].funded + Effect(applied, a)

\* The balances on disk are exactly what was minted plus the transactions they
\* contain: no crash, and no restart, keeps half of a transaction.  "Sync
\* persists all current state to disk. Call after every block commit": it holds
\* while only Sync saves accounts, and way_fundGenesis, which saves them in the
\* middle of a block, breaks it.
DiskExplained == Explained(disk.acc, disk.applied)

\* LoadTxFromStore: by the index, then by position in the block's transactions.
Lookup(t) ==
    IF t \in DOMAIN disk.index
      THEN LET h == disk.index[t][1]
               i == disk.index[t][2]
           IN IF h \in DOMAIN disk.txs /\ i <= Len(disk.txs[h]) THEN {disk.txs[h][i]} ELSE {}
      ELSE {}

\* "LoadTxFromStore looks up a transaction by hash": what it returns is that
\* transaction or nothing.  It holds through crashes, and not when Sync fails
\* and SyncTxs goes on.
LookupSound == \A t \in Txs : Lookup(t) \subseteq {t}

\* A transaction the store returns has its effects on disk, and its block is
\* within the stored height.
StoredTxsApplied ==
    \A t \in DOMAIN disk.index :
        /\ t \in Range(disk.applied)
        /\ disk.index[t][1] <= disk.height

\* The stored height never goes back, whatever is lost in memory.
HeightNeverRewound == [][disk'.height >= disk.height]_vars

\* A transaction whose effects are on disk stays there, at its place: through
\* failed saves, saves in the middle of a block, crashes and restarts, the stored
\* accounts only move on.
PersistedStays ==
    [][\A i \in DOMAIN disk.applied :
          i \in DOMAIN disk'.applied /\ disk'.applied[i] = disk.applied[i]]_vars

\* While the process lives, a transaction leaves the consensus lane only into a
\* block, or when Pool.Add or PopConsensus writes back a lane it read before the
\* transaction came in: nothing either of them has seen is dropped.
LaneKept ==
    [][\A t \in Range(pool.consensus) :
          \/ t \in Range(pool'.consensus)
          \/ t \in Range(prod'.batch)
          \/ up' = "down"
          \/ prod.pc = "pop" /\ prod'.pc # "pop" /\ t \notin Range(prod.batch)
          \/ rpc.pc = "add" /\ rpc'.pc # "add" /\ t \notin Range(rpc.snap)]_vars
=============================================================================
