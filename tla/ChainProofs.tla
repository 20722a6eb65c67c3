---------------------------- MODULE ChainProofs -----------------------------
(***************************************************************************)
(* Proofs about Chain, for any accounts, transactions, batch size and      *)
(* bounds.                                                                 *)
(***************************************************************************)
EXTENDS Chain, Sums, TLAPS

-----------------------------------------------------------------------------
(* Types *)

Account == [nonce : Nat, balance : Int, doxed : BOOLEAN, funded : Int]
Ledger == [Accounts -> Account]

Partial(D, V) == UNION {[S -> V] : S \in SUBSET D}

Records == Partial(Nat, [why : {"block", "genesis", "shutdown"}, count : Nat])
Indexes == Partial(Txs, Nat \X Nat)
TxLists == Partial(1 .. MaxHeight, TxSeq)

Chains == [height : 0 .. MaxHeight, acc : Ledger, applied : TxSeq]
Pools == [consensus : TxSeq, oracle : TxSeq, private : TxSeq]
Producers ==
    [pc : {"idle", "pop", "exec", "debit", "accounts", "block", "index"},
     why : {"block", "genesis", "shutdown"}, batch : TxSeq,
     tx : Txs \cup {<<>>}, done : TxSeq, next : Nat \ {0}]
Deploys == [call : Nat, acct : Accounts, nonce : Nat]
Calls ==
    [pc : {"idle", "add", "fund"}, tx : Txs \cup {<<>>}, snap : TxSeq,
     acct : Accounts, amount : Int, seen : Int, deploys : SUBSET Deploys]
Stores ==
    [height : 0 .. MaxHeight, acc : Ledger, applied : TxSeq,
     blocks : Records, index : Indexes, txs : TxLists]
Counters == [{"submits", "funds", "deploys", "errors", "crashes"} -> Nat]

USE DEF Chains, Pools, Producers, Calls, Stores, Counters

Shape ==
    /\ up \in {"down", "booting", "serving"}
    /\ mem \in Chains
    /\ pool \in Pools
    /\ prod \in Producers
    /\ rpc \in Calls
    /\ disk \in Stores
    /\ used \in Counters

\* What the program counters say of the rest: a process that is down does
\* nothing, genesis is stored before anyone is served, and a chain in memory is
\* never behind the database.
Stage ==
    /\ prod.pc = "debit" => prod.tx \in Txs
    /\ rpc.pc = "add" => rpc.tx \in Txs
    /\ up = "down" => prod.pc = "idle"
    /\ up # "serving" => rpc = NoCall
    /\ MaxFunds = 0 => rpc.pc # "fund"
    /\ MaxDeploys = 0 => rpc.deploys = {}
    /\ prod.pc # "idle" => (prod.why = "genesis" <=> up = "booting")
    /\ up = "booting" => prod.pc \in {"accounts", "block"} /\ prod.done = <<>>
    /\ up # "down" => 1 <= mem.height /\ disk.height <= mem.height

LEMMA MinOfTwo ==
  ASSUME NEW x \in Int, NEW y \in Int
  PROVE  Min({x, y}) \in {x, y} /\ Min({x, y}) <= x /\ Min({x, y}) <= y
<1>1. \E z \in {x, y} : \A w \in {x, y} : z <= w
  <2>1. CASE x <= y
    BY <2>1
  <2>2. CASE ~(x <= y)
    BY <2>2
  <2> QED BY <2>1, <2>2
<1> QED BY <1>1 DEF Min

\* Put of a bucket.
LEMMA PutFacts ==
  ASSUME NEW D, NEW V, NEW f \in Partial(D, V), NEW k \in D, NEW x \in V
  PROVE  /\ Put(f, k, x) \in Partial(D, V)
         /\ DOMAIN Put(f, k, x) = DOMAIN f \cup {k}
         /\ Put(f, k, x)[k] = x
         /\ \A i \in DOMAIN f \ {k} : Put(f, k, x)[i] = f[i]
<1>1. PICK S \in SUBSET D : f \in [S -> V]
  BY DEF Partial
<1>2. Put(f, k, x) \in [S \cup {k} -> V]
  BY <1>1 DEF Put
<1>3. S \cup {k} \in SUBSET D
  BY <1>1
<1>4. Put(f, k, x) \in Partial(D, V)
  BY <1>2, <1>3 DEF Partial
<1> QED BY <1>1, <1>4 DEF Put

\* The ledgers the code makes of a ledger.
LEMMA TxFacts ==
  ASSUME NEW t \in Txs
  PROVE  /\ t.from \in Accounts /\ t.to \in Accounts /\ t.nonce \in Nat /\ t.value \in Nat
         /\ t.gasLimit \in Nat /\ t.gasUsed \in Nat /\ t.ok \in BOOLEAN
         /\ t.kind \in {"transfer", "precompile", "call", "deploy"}
         /\ GasUsed(t) \in Nat
<1>1. t \in TxType
  BY ChainAssumption
<1>2. /\ t.from \in Accounts /\ t.to \in Accounts /\ t.nonce \in Nat /\ t.value \in Nat
      /\ t.gasLimit \in Nat /\ t.gasUsed \in Nat /\ t.ok \in BOOLEAN
      /\ t.kind \in {"transfer", "precompile", "call", "deploy"}
  BY <1>1 DEF TxType
<1> QED BY <1>2, ChainAssumption DEF GasUsed

LEMMA GenesisFacts ==
  /\ Genesis \in Ledger
  /\ \A a \in Accounts : Genesis[a].nonce = 0 /\ Genesis[a].balance = Genesis[a].funded
  /\ \A a \in Accounts : Genesis[a].balance >= 0
BY ChainAssumption DEF Genesis, Ledger, Account

\* Funding touches the development account, when it is empty.
LEMMA FundDevFacts ==
  ASSUME NEW acc \in Ledger
  PROVE  /\ FundDev(acc) \in Ledger
         /\ \A a \in Accounts :
               /\ FundDev(acc)[a].nonce = acc[a].nonce
               /\ FundDev(acc)[a].balance - FundDev(acc)[a].funded = acc[a].balance - acc[a].funded
               /\ acc[a].balance >= 0 => FundDev(acc)[a].balance >= 0
<1>1. Dev \in Accounts /\ DevFund \in Nat
  BY ChainAssumption
<1>2. CASE acc[Dev].balance = 0
  <2> DEFINE r == [acc[Dev] EXCEPT !.balance = DevFund, !.doxed = TRUE, !.funded = @ + DevFund]
  <2>1. FundDev(acc) = [acc EXCEPT ![Dev] = r]
    BY <1>2, <1>1 DEF FundDev, Ledger, Account
  <2>2. acc[Dev] \in Account
    BY <1>1 DEF Ledger
  <2>3. /\ r \in Account /\ r.nonce = acc[Dev].nonce /\ r.balance = DevFund
        /\ r.funded = acc[Dev].funded + DevFund
    <3> DEFINE q == acc[Dev]
               f == q.funded + DevFund
    <3>1. q \in Account
      BY <2>2
    <3>2. f \in Int
      BY <1>1, <3>1 DEF Account
    <3>3. r = [q EXCEPT !.balance = DevFund, !.doxed = TRUE, !.funded = f]
      BY <3>1 DEF Account
    <3> HIDE DEF q, f, r
    <3>4. r.nonce = q.nonce /\ r.balance = DevFund /\ r.funded = f
      BY <3>1, <3>3 DEF Account
    <3>5. r.doxed = TRUE
      BY <3>1, <3>3 DEF Account
    <3>6. r \in Account
      <4>1. q.nonce \in Nat /\ DevFund \in Int
        BY <1>1, <3>1 DEF Account
      <4> QED BY <3>1, <3>2, <3>3, <3>4, <3>5, <4>1 DEF Account
    <3> QED BY <3>4, <3>6 DEF q, f
  <2> HIDE DEF r
  <2>4. FundDev(acc) \in Ledger
    BY <1>1, <2>1, <2>3 DEF Ledger
  <2>5. ASSUME NEW a \in Accounts
        PROVE  /\ FundDev(acc)[a].nonce = acc[a].nonce
               /\ FundDev(acc)[a].balance - FundDev(acc)[a].funded = acc[a].balance - acc[a].funded
               /\ acc[a].balance >= 0 => FundDev(acc)[a].balance >= 0
    <3>1. FundDev(acc)[a] = IF a = Dev THEN r ELSE acc[a]
      BY <2>1 DEF Ledger
    <3>2. acc[Dev].funded \in Int
      BY <2>2 DEF Account
    <3> QED BY <1>1, <1>2, <2>3, <3>1, <3>2
  <2> QED BY <2>4, <2>5
<1>3. CASE acc[Dev].balance # 0
  BY <1>3 DEF FundDev
<1> QED BY <1>2, <1>3

\* Reading accounts back from disk.
LEMMA DeserializeFacts ==
  ASSUME NEW acc \in Ledger
  PROVE  /\ Deserialize(acc) \in Ledger
         /\ \A a \in Accounts :
               /\ Deserialize(acc)[a].nonce = acc[a].nonce
               /\ Deserialize(acc)[a].balance >= 0
               /\ acc[a].balance >= 0 => Deserialize(acc)[a] = acc[a]
<1>1. ASSUME NEW a \in Accounts
      PROVE  /\ Deserialize(acc)[a] = [acc[a] EXCEPT !.balance = Abs(@)]
             /\ acc[a] \in Account
  BY DEF Deserialize, Ledger
<1>2. \A x \in Int : Abs(x) \in Nat /\ (x >= 0 => Abs(x) = x)
  BY DEF Abs
<1>3. ASSUME NEW a \in Accounts
      PROVE  /\ Deserialize(acc)[a] \in Account
             /\ Deserialize(acc)[a].nonce = acc[a].nonce
             /\ Deserialize(acc)[a].balance >= 0
             /\ acc[a].balance >= 0 => Deserialize(acc)[a] = acc[a]
  <2> DEFINE r == acc[a]
             b == Abs(r.balance)
             q == [r EXCEPT !.balance = b]
  <2>1. r \in Account /\ Deserialize(acc)[a] = q
    BY <1>1
  <2>2. r.balance \in Int
    BY <2>1 DEF Account
  <2>3. b \in Nat /\ (r.balance >= 0 => b = r.balance)
    BY <1>2, <2>2
  <2> HIDE DEF r, b
  <2>4. q \in Account /\ q.nonce = r.nonce /\ q.balance = b
    BY <2>1, <2>3 DEF Account
  <2>5. b = r.balance => q = r
    BY <2>1 DEF Account
  <2> QED BY <2>1, <2>3, <2>4, <2>5 DEF r
<1>4. Deserialize(acc) = [a \in Accounts |-> Deserialize(acc)[a]]
  BY DEF Deserialize
<1>5. Deserialize(acc) \in Ledger
  BY <1>3, <1>4 DEF Ledger
<1> QED BY <1>3, <1>5

\* Execution keeps the types; what it does to nonces and balances comes later.
LEMMA ExecuteIsLedger ==
  ASSUME NEW acc \in Ledger, NEW t \in Txs
  PROVE  Execute(t, acc) \in Ledger
<1>1. t.from \in Accounts /\ t.to \in Accounts /\ t.value \in Nat /\ t.gasUsed \in Nat
  BY TxFacts
<1>2. [acc EXCEPT ![t.to].balance = @ + t.value] \in Ledger
  BY <1>1 DEF Ledger, Account
<1>3. ApplyRevm(t, acc) \in Ledger
  <2> DEFINE x == acc[t.to].balance + t.value
             y == acc[t.from].balance - t.gasUsed
                    - (IF t.kind = "call" /\ t.to = t.from THEN 0 ELSE t.value)
             m == acc[t.to].nonce
             n == acc[t.from].nonce + 1
  <2>1. x \in Int /\ y \in Int /\ m \in Nat /\ n \in Nat
    BY <1>1 DEF Ledger, Account
  <2>2. ASSUME NEW a \in Accounts
        PROVE  /\ ApplyRevm(t, acc)[a] \in
                      {[acc[a] EXCEPT !.balance = x, !.nonce = m],
                       [acc[a] EXCEPT !.balance = y, !.nonce = IF a = t.from THEN @ ELSE n],
                       acc[a]}
               /\ acc[a] \in Account
    BY DEF ApplyRevm, Ledger
  <2> HIDE DEF x, y, m, n
  <2>3. ASSUME NEW a \in Accounts PROVE ApplyRevm(t, acc)[a] \in Account
    BY <2>1, <2>2 DEF Account
  <2>4. ApplyRevm(t, acc) = [a \in Accounts |-> ApplyRevm(t, acc)[a]]
    BY DEF ApplyRevm
  <2> QED BY <2>3, <2>4 DEF Ledger
<1> QED BY <1>2, <1>3 DEF Execute

-----------------------------------------------------------------------------
(* Types and program counters are inductive *)

Inv == Shape /\ Stage

LEMMA EmptyShapes ==
  /\ EmptyMem \in Chains
  /\ EmptyPool \in Pools
  /\ Idle \in Producers
  /\ NoCall \in Calls
  /\ EmptyFunction \in Records /\ EmptyFunction \in Indexes /\ EmptyFunction \in TxLists
<1>1. <<>> \in TxSeq
  BY DEF TxSeq
<1>2. ASSUME NEW D, NEW V PROVE EmptyFunction \in Partial(D, V)
  <2>1. EmptyFunction \in [{} -> V] /\ {} \in SUBSET D
    BY DEF EmptyFunction
  <2> QED BY <2>1 DEF Partial
<1>3. EmptyMem \in Chains
  BY <1>1, GenesisFacts, ChainAssumption DEF EmptyMem
<1>4. NoCall \in Calls
  BY <1>1, ChainAssumption DEF NoCall
<1> QED BY <1>1, <1>2, <1>3, <1>4 DEF EmptyPool, Idle, Records, Indexes, TxLists

LEMMA InitInv == Init => Inv
<1> SUFFICES ASSUME Init PROVE Inv
  OBVIOUS
<1>1. disk = [height |-> 0, acc |-> Genesis, applied |-> <<>>,
              blocks |-> EmptyFunction, index |-> EmptyFunction, txs |-> EmptyFunction]
  BY DEF Init
<1>2. disk \in Stores
  BY <1>1, EmptyShapes, GenesisFacts, ChainAssumption DEF TxSeq
<1>3. Shape
  BY <1>2, EmptyShapes DEF Init, Shape
<1>4. Stage
  BY DEF Init, Stage, Idle, NoCall
<1> QED BY <1>3, <1>4 DEF Inv

\* A process that starts.
LEMMA BootInv == ASSUME Inv, Restore \/ BootGenesis PROVE Inv'
<1>1. CASE Restore
  <2>1. FundDev(Deserialize(disk.acc)) \in Ledger
    BY FundDevFacts, DeserializeFacts DEF Inv, Shape
  <2>2. mem' \in Chains /\ mem'.height = disk.height
    BY <1>1, <2>1 DEF Restore, Inv, Shape
  <2>3. /\ up = "down" /\ up' = "serving" /\ disk.height > 0 /\ disk.height \in Nat
        /\ UNCHANGED <<pool, prod, rpc, disk, used>> /\ prod.pc = "idle"
    BY <1>1, ChainAssumption DEF Restore, Inv, Shape, Stage
  <2>4. Shape'
    BY <2>2, <2>3 DEF Inv, Shape
  <2>5. Stage'
    BY <2>2, <2>3 DEF Inv, Stage
  <2> QED BY <2>4, <2>5 DEF Inv
<1>2. CASE BootGenesis
  <2>1. mem' \in Chains /\ mem'.height = 1
    BY <1>2, GenesisFacts, ChainAssumption DEF BootGenesis, TxSeq
  <2>2. /\ prod' \in Producers
        /\ prod'.pc = "accounts" /\ prod'.why = "genesis" /\ prod'.done = <<>>
    BY <1>2, EmptyShapes DEF BootGenesis, Idle
  <2> QED BY <1>2, <2>1, <2>2 DEF BootGenesis, Inv, Shape, Stage
<1> QED BY <1>1, <1>2

\* A process that ends.
LEMMA DownInv ==
  ASSUME Inv, up' = "down", mem' = EmptyMem, pool' = EmptyPool, prod' = Idle, rpc' = NoCall,
         disk' \in Stores,
         used' \in Counters
  PROVE  Inv'
BY EmptyShapes DEF Inv, Shape, Stage, Idle, NoCall

LEMMA UseFacts ==
  ASSUME Inv, NEW b \in {"submits", "funds", "deploys", "errors", "crashes"}, Use(b)
  PROVE  used' \in Counters
BY DEF Inv, Shape, Use

\* The debit, account by account.
LEMMA DebitFacts ==
  ASSUME Inv, DebitSender
  PROVE  /\ prod.pc = "debit" /\ prod.tx \in Txs
         /\ mem' \in Chains
         /\ mem'.height = mem.height /\ mem'.applied = Append(mem.applied, prod.tx)
         /\ \A a \in Accounts \ {prod.tx.from} : mem'.acc[a] = mem.acc[a]
         /\ LET t == prod.tx
                x == mem.acc[t.from]
                y == mem'.acc[t.from]
            IN /\ y.nonce = x.nonce + 1 /\ y.funded = x.funded
               /\ y.balance = x.balance - (GasUsed(t) + t.value)
<1> DEFINE t == prod.tx
           f == t.from
           x == mem.acc[f]
           b == x.balance - (GasUsed(t) + t.value)
           y == [x EXCEPT !.balance = b]
           n == y.nonce + 1
           z == [y EXCEPT !.nonce = n]
           m == [mem.acc EXCEPT ![f] = y]
           k == [mem.acc EXCEPT ![f] = z]
           l == Append(mem.applied, t)
<1>1. t \in Txs /\ mem.acc \in Ledger /\ prod.pc = "debit" /\ mem.applied \in Seq(Txs)
  BY DEF DebitSender, Inv, Shape, Stage, TxSeq
<1>2. f \in Accounts /\ GasUsed(t) \in Nat /\ t.value \in Nat
  BY <1>1, TxFacts
<1>3. x \in Account /\ m[f] = y
  BY <1>1, <1>2 DEF Ledger
<1>4. mem' = [mem EXCEPT !.acc[f].balance = b, !.acc[f].nonce = @ + 1, !.applied = l]
  BY DEF DebitSender
<1>5. mem' = [[[mem EXCEPT !.acc = m] EXCEPT !.acc[f].nonce = @ + 1] EXCEPT !.applied = l]
  BY <1>4, ZenonT(30)
<1>6. b \in Int /\ l \in TxSeq
  BY <1>1, <1>2, <1>3 DEF Account, TxSeq
<1>7. y.nonce = x.nonce /\ y.funded = x.funded /\ y.balance = b /\ y \in Account
  BY <1>3, <1>6 DEF Account
<1>8. z.nonce = x.nonce + 1 /\ z.funded = x.funded /\ z.balance = b /\ z \in Account
  <2>1. n \in Nat /\ n = x.nonce + 1
    BY <1>3, <1>7 DEF Account
  <2> HIDE DEF n, y, x
  <2> QED BY <1>7, <2>1 DEF Account
<1>9. mem' = [mem EXCEPT !.acc = k, !.applied = l]
  <2> DEFINE mm == [mem EXCEPT !.acc = m]
  <2>1. mm.acc = m /\ mm \in [height : 0 .. MaxHeight, acc : {m}, applied : TxSeq]
    BY DEF Inv, Shape
  <2>2. mem' = [[mm EXCEPT !.acc = [m EXCEPT ![f] = [m[f] EXCEPT !.nonce = m[f].nonce + 1]]] EXCEPT !.applied = l]
    BY <1>5, <2>1
  <2>3. [m EXCEPT ![f] = [m[f] EXCEPT !.nonce = m[f].nonce + 1]] = [m EXCEPT ![f] = z]
    BY <1>3
  <2> HIDE DEF z, y
  <2>4. [m EXCEPT ![f] = z] = k
    BY <1>1, <1>2 DEF Ledger
  <2>5. mem' = [[mm EXCEPT !.acc = k] EXCEPT !.applied = l]
    BY <2>2, <2>3, <2>4
  <2> HIDE DEF m, k, l
  <2> QED BY <2>5 DEF Inv, Shape
<1> HIDE DEF x, z, l, f, b
<1>10. k \in Ledger /\ k[f] = z /\ \A a \in Accounts \ {f} : k[a] = mem.acc[a]
  BY <1>1, <1>2, <1>8 DEF Ledger
<1> HIDE DEF k
<1>11. /\ mem' \in Chains
       /\ mem'.height = mem.height /\ mem'.acc = k /\ mem'.applied = l
  BY <1>6, <1>9, <1>10 DEF Inv, Shape
<1> QED BY <1>1, <1>8, <1>10, <1>11 DEF x, f, b, l

\* ProduceBlock.
LEMMA ProduceInv ==
  ASSUME Inv, BeginBlock \/ PopConsensus \/ ExecuteTx \/ DebitSender \/ SealBlock
  PROVE  Inv'
<1>1. CASE BeginBlock
  <2>1. /\ mem' = [mem EXCEPT !.height = @ + 1] /\ mem.height < MaxHeight
        /\ prod' = [Idle EXCEPT !.pc = "pop", !.batch = pool.consensus]
        /\ up = "serving" /\ UNCHANGED <<up, pool, rpc, disk, used>>
    BY <1>1 DEF BeginBlock
  <2>2. /\ mem.height \in 0 .. MaxHeight /\ MaxHeight \in Nat
        /\ pool.consensus \in TxSeq /\ disk.height \in Nat
    BY ChainAssumption DEF Inv, Shape
  <2>4. /\ mem'.height = mem.height + 1
        /\ mem' \in Chains
    BY <2>1, <2>2 DEF Inv, Shape
  <2>5. /\ prod' \in Producers
        /\ prod'.pc = "pop" /\ prod'.why = "block"
    BY <2>1, <2>2, EmptyShapes DEF Idle
  <2> QED BY <2>1, <2>2, <2>4, <2>5 DEF Inv, Shape, Stage
<1>2. CASE PopConsensus
  <2> DEFINE n == Min({BatchSize, Len(prod.batch)})
             front == SubSeq(prod.batch, 1, n)
             back == SubSeq(prod.batch, n + 1, Len(prod.batch))
  <2>1. /\ prod' = [prod EXCEPT !.pc = "exec", !.batch = front]
        /\ pool' = pool \/ pool' = [pool EXCEPT !.consensus = back]
        /\ prod.pc = "pop" /\ UNCHANGED <<up, mem, rpc, disk, used>>
    BY <1>2 DEF PopConsensus, Inv, Shape
  <2>2. prod.batch \in Seq(Txs) /\ BatchSize \in Nat
    BY ChainAssumption DEF Inv, Shape, TxSeq
  <2>3. n \in 0 .. Len(prod.batch)
    <3>1. Len(prod.batch) \in Nat /\ Len(prod.batch) \in Int /\ BatchSize \in Int
      BY <2>2
    <3>2. n \in {BatchSize, Len(prod.batch)} /\ n <= Len(prod.batch)
      BY <3>1, MinOfTwo
    <3> HIDE DEF n
    <3> QED BY <2>2, <3>1, <3>2
  <2> HIDE DEF n
  <2>4. front \in TxSeq /\ back \in TxSeq
    BY <2>2, <2>3 DEF TxSeq
  <2> HIDE DEF front, back
  <2> QED BY <2>1, <2>4 DEF Inv, Shape, Stage
<1>3. CASE ExecuteTx
  <2> DEFINE t == Head(prod.batch)
             good == Executable(t, mem.acc)
  <2>1. /\ mem' = IF good THEN [mem EXCEPT !.acc = Execute(t, @)] ELSE mem
        /\ prod' = [prod EXCEPT !.batch = Tail(@),
                                !.pc = IF good THEN "debit" ELSE "exec",
                                !.tx = IF good THEN t ELSE <<>>]
        /\ prod.batch # <<>> /\ prod.pc = "exec" /\ UNCHANGED <<up, pool, rpc, disk, used>>
    BY <1>3 DEF ExecuteTx
  <2>2. prod.batch \in Seq(Txs) /\ mem.acc \in Ledger
    BY DEF Inv, Shape, TxSeq
  <2>3. t \in Txs /\ Tail(prod.batch) \in TxSeq
    BY <2>1, <2>2 DEF TxSeq
  <2>4. Execute(t, mem.acc) \in Ledger
    BY <2>2, <2>3, ExecuteIsLedger
  <2> HIDE DEF t, good
  <2>5. mem' \in Chains /\ mem'.height = mem.height
    BY <2>1, <2>4 DEF Inv, Shape
  <2>6. /\ prod' \in Producers
        /\ prod'.pc \in {"debit", "exec"} /\ prod'.why = prod.why /\ prod'.done = prod.done
        /\ prod'.pc = "debit" => prod'.tx \in Txs
    BY <2>1, <2>3 DEF Inv, Shape
  <2> QED BY <2>1, <2>5, <2>6 DEF Inv, Shape, Stage
<1>4. CASE DebitSender
  <2> DEFINE t == prod.tx
  <2>1. /\ t \in Txs /\ mem'.height = mem.height /\ prod.pc = "debit"
        /\ mem' \in Chains
    BY <1>4, DebitFacts
  <2>2. /\ prod' = [prod EXCEPT !.pc = "exec", !.tx = <<>>, !.done = IF t.ok THEN Append(@, t) ELSE @]
        /\ UNCHANGED <<up, pool, rpc, disk, used>>
    BY <1>4 DEF DebitSender
  <2>3. Append(prod.done, t) \in TxSeq
    BY <2>1 DEF Inv, Shape, TxSeq
  <2> HIDE DEF t
  <2>4. /\ prod' \in Producers
        /\ prod'.pc = "exec" /\ prod'.why = prod.why
    BY <2>2, <2>3 DEF Inv, Shape
  <2> QED BY <2>1, <2>2, <2>4 DEF Inv, Shape, Stage
<1>5. CASE SealBlock
  <2>1. /\ prod' = [prod EXCEPT !.pc = "accounts"] /\ prod.pc = "exec"
        /\ UNCHANGED <<up, mem, pool, rpc, disk, used>>
    BY <1>5 DEF SealBlock
  <2> QED BY <2>1 DEF Inv, Shape, Stage
<1> QED BY <1>1, <1>2, <1>3, <1>4, <1>5

\* The accounts of a ledger are written together with what they contain.
LEMMA SaveFacts ==
  ASSUME Inv, NEW m \in Chains,
         disk' = SaveAllAccounts(disk, m)
  PROVE  /\ disk' \in Stores
         /\ disk'.acc = m.acc /\ disk'.applied = m.applied
         /\ disk'.height = disk.height /\ disk'.index = disk.index /\ disk'.txs = disk.txs
<1>1. disk' = [disk EXCEPT !.acc = m.acc, !.applied = m.applied]
  BY DEF SaveAllAccounts
<1> QED BY <1>1 DEF Inv, Shape

LEMMA SyncBlockFacts ==
  ASSUME Inv, SyncBlock
  PROVE  /\ disk' \in Stores
         /\ disk'.acc = disk.acc /\ disk'.applied = disk.applied
         /\ disk'.height = mem.height /\ disk'.index = disk.index /\ disk'.txs = disk.txs
         /\ prod.pc = "block" /\ up # "down" /\ AfterSync(FALSE) /\ used' = used
<1> DEFINE r == [why |-> prod.why, count |-> Len(prod.done)]
           q == Put(disk.blocks, mem.height, r)
<1>1. r \in [why : {"block", "genesis", "shutdown"}, count : Nat] /\ mem.height \in Nat
  BY ChainAssumption DEF Inv, Shape, TxSeq
<1>2. q \in Records
  BY <1>1, PutFacts DEF Inv, Shape, Records
<1>3. disk' = [disk EXCEPT !.height = mem.height, !.blocks = q]
  BY DEF SyncBlock
<1>4. prod.pc = "block" /\ up # "down" /\ AfterSync(FALSE) /\ used' = used
  BY DEF SyncBlock, Inv, Stage
<1> HIDE DEF q
<1> QED BY <1>2, <1>3, <1>4 DEF Inv, Shape

\* What happens when Sync returns, whatever it stored.
LEMMA AfterSyncFacts ==
  ASSUME Inv, NEW failed \in BOOLEAN, AfterSync(failed), prod.pc \in {"accounts", "block"}
  PROVE  \/ /\ prod.why = "block" /\ UNCHANGED <<up, mem, pool, rpc>>
            /\ prod' = [prod EXCEPT !.pc = IF prod.done = <<>> THEN "idle" ELSE "index"]
            /\ prod'.pc = (IF prod.done = <<>> THEN "idle" ELSE "index")
            /\ prod'.why = prod.why /\ prod'.done = prod.done /\ prod'.next = prod.next
         \/ /\ prod.why = "genesis" /\ prod' = Idle /\ up' = "serving" /\ ~failed
            /\ mem' \in Chains
            /\ mem'.acc = FundDev(mem.acc) /\ mem'.height = mem.height
            /\ mem'.applied = mem.applied /\ UNCHANGED <<pool, rpc>>
         \/ /\ up' = "down" /\ mem' = EmptyMem /\ pool' = EmptyPool
            /\ prod' = Idle /\ rpc' = NoCall
<1>1. FundDev(mem.acc) \in Ledger
  BY FundDevFacts DEF Inv, Shape
<1>2. CASE prod.why = "block" /\ UNCHANGED <<up, mem, pool, rpc>>
           /\ prod' = [prod EXCEPT !.pc = IF prod.done = <<>> THEN "idle" ELSE "index"]
  <2>1. /\ prod'.pc = (IF prod.done = <<>> THEN "idle" ELSE "index")
        /\ prod'.why = prod.why /\ prod'.done = prod.done /\ prod'.next = prod.next
    BY <1>2 DEF Inv, Shape
  <2> QED BY <1>2, <2>1
<1>3. CASE /\ prod.why = "genesis" /\ prod' = Idle /\ up' = "serving" /\ ~failed
           /\ mem' = [mem EXCEPT !.acc = FundDev(mem.acc)] /\ UNCHANGED <<pool, rpc>>
  <2>1. /\ mem' \in Chains
        /\ mem'.acc = FundDev(mem.acc) /\ mem'.height = mem.height
        /\ mem'.applied = mem.applied
    BY <1>1, <1>3 DEF Inv, Shape
  <2> QED BY <1>3, <2>1
<1> QED BY <1>2, <1>3 DEF AfterSync

LEMMA AfterSyncInv ==
  ASSUME Inv, NEW failed \in BOOLEAN, AfterSync(failed), prod.pc \in {"accounts", "block"},
         disk' \in Stores,
         disk'.height <= mem.height,
         used' \in Counters
  PROVE  Inv'
<1>1. CASE /\ prod.why = "block" /\ UNCHANGED <<up, mem, pool, rpc>>
           /\ prod' = [prod EXCEPT !.pc = IF prod.done = <<>> THEN "idle" ELSE "index"]
  <2>1. /\ prod' \in Producers
        /\ prod'.pc \in {"idle", "index"} /\ prod'.why = "block"
    BY <1>1 DEF Inv, Shape
  <2> QED BY <1>1, <2>1 DEF Inv, Shape, Stage
<1>2. CASE /\ prod.why = "genesis" /\ prod' = Idle /\ up' = "serving" /\ ~failed
           /\ mem' \in Chains
           /\ mem'.acc = FundDev(mem.acc) /\ mem'.height = mem.height
           /\ mem'.applied = mem.applied /\ UNCHANGED <<pool, rpc>>
  <2>1. prod'.pc = "idle"
    BY <1>2 DEF Idle
  <2> QED BY <1>2, <2>1, EmptyShapes DEF Inv, Shape, Stage
<1>3. CASE up' = "down" /\ mem' = EmptyMem /\ pool' = EmptyPool /\ prod' = Idle /\ rpc' = NoCall
  BY <1>3, DownInv
<1> QED BY <1>1, <1>2, <1>3, AfterSyncFacts

\* The index and the list of a block's transactions.
LEMMA SaveTxIndexFacts ==
  ASSUME Inv, SaveTxIndex
  PROVE  LET t == prod.done[prod.next] IN
         /\ prod.pc = "index" /\ up # "down" /\ prod.next <= Len(prod.done)
         /\ t \in Txs
         /\ disk' \in Stores
         /\ disk'.acc = disk.acc /\ disk'.applied = disk.applied
         /\ disk'.height = disk.height /\ disk'.txs = disk.txs
         /\ DOMAIN disk'.index = DOMAIN disk.index \cup {t}
         /\ disk'.index[t] = <<mem.height, prod.next>>
         /\ \A u \in DOMAIN disk.index \ {t} : disk'.index[u] = disk.index[u]
         /\ prod' \in Producers
         /\ prod'.pc = prod.pc /\ prod'.why = prod.why /\ prod'.done = prod.done
         /\ UNCHANGED <<up, mem, pool, rpc, used>>
<1> DEFINE t == prod.done[prod.next]
           x == <<mem.height, prod.next>>
           q == Put(disk.index, t, x)
<1>0. prod.next >= 1
  BY DEF Inv, Shape
<1>1. /\ prod.pc = "index" /\ up # "down" /\ prod.next <= Len(prod.done)
      /\ prod.done \in Seq(Txs) /\ prod.next \in Nat
  BY DEF SaveTxIndex, Inv, Shape, Stage, TxSeq
<1>2. t \in Txs /\ x \in Nat \X Nat
  BY <1>0, <1>1, ChainAssumption, SMTT(30) DEF Inv, Shape
<1>3. disk.index \in Partial(Txs, Nat \X Nat)
  BY DEF Inv, Shape, Indexes
<1>4. disk' = [disk EXCEPT !.index = q] /\ prod' = [prod EXCEPT !.next = @ + 1]
      /\ UNCHANGED <<up, mem, pool, rpc, used>>
  BY DEF SaveTxIndex
<1> HIDE DEF t, x
<1>5. /\ q \in Partial(Txs, Nat \X Nat)
      /\ DOMAIN q = DOMAIN disk.index \cup {t} /\ q[t] = x
      /\ \A u \in DOMAIN disk.index \ {t} : q[u] = disk.index[u]
  <2> DEFINE f == disk.index
             V == Nat \X Nat
  <2>1. f \in Partial(Txs, V) /\ t \in Txs /\ x \in V
    BY <1>2, <1>3
  <2> HIDE DEF f, V
  <2>2. /\ Put(f, t, x) \in Partial(Txs, V)
        /\ DOMAIN Put(f, t, x) = DOMAIN f \cup {t} /\ Put(f, t, x)[t] = x
        /\ \A u \in DOMAIN f \ {t} : Put(f, t, x)[u] = f[u]
    BY <2>1, PutFacts
  <2> QED BY <2>2 DEF f, V
<1>6. q \in Indexes
  BY <1>5 DEF Indexes
<1> HIDE DEF q
<1>7. /\ disk' \in Stores
      /\ disk'.acc = disk.acc /\ disk'.applied = disk.applied
      /\ disk'.height = disk.height /\ disk'.txs = disk.txs /\ disk'.index = q
  BY <1>4, <1>6 DEF Inv, Shape
<1>8. /\ prod' \in Producers
      /\ prod'.pc = prod.pc /\ prod'.why = prod.why /\ prod'.done = prod.done
  <2> DEFINE n == prod.next + 1
  <2>1. n \in Nat \ {0} /\ prod' = [prod EXCEPT !.next = n]
    BY <1>1, <1>4
  <2> HIDE DEF n
  <2> QED BY <2>1 DEF Inv, Shape
<1> QED BY <1>1, <1>2, <1>4, <1>5, <1>7, <1>8 DEF t, x

LEMMA SaveBlockTxsFacts ==
  ASSUME Inv, SaveBlockTxs
  PROVE  /\ prod.pc = "index" /\ up # "down"
         /\ disk' \in Stores
         /\ disk'.acc = disk.acc /\ disk'.applied = disk.applied
         /\ disk'.height = disk.height /\ disk'.index = disk.index
         /\ DOMAIN disk'.txs = DOMAIN disk.txs \cup {mem.height}
         /\ disk'.txs[mem.height] = prod.done
         /\ \A h \in DOMAIN disk.txs \ {mem.height} : disk'.txs[h] = disk.txs[h]
         /\ prod' = Idle /\ UNCHANGED <<up, mem, pool, rpc, used>>
<1> DEFINE q == Put(disk.txs, mem.height, prod.done)
<1>1. prod.pc = "index" /\ up # "down" /\ mem.height \in 1 .. MaxHeight /\ prod.done \in TxSeq
  BY ChainAssumption DEF SaveBlockTxs, Inv, Shape, Stage
<1>2. disk.txs \in Partial(1 .. MaxHeight, TxSeq)
  BY DEF Inv, Shape, TxLists
<1>3. /\ q \in Partial(1 .. MaxHeight, TxSeq)
      /\ DOMAIN q = DOMAIN disk.txs \cup {mem.height} /\ q[mem.height] = prod.done
      /\ \A h \in DOMAIN disk.txs \ {mem.height} : q[h] = disk.txs[h]
  <2> DEFINE f == disk.txs
             k == mem.height
             x == prod.done
             D == 1 .. MaxHeight
  <2>1. f \in Partial(D, TxSeq) /\ k \in D /\ x \in TxSeq
    BY <1>1, <1>2
  <2> HIDE DEF f, k, x, D
  <2>2. /\ Put(f, k, x) \in Partial(D, TxSeq)
        /\ DOMAIN Put(f, k, x) = DOMAIN f \cup {k} /\ Put(f, k, x)[k] = x
        /\ \A h \in DOMAIN f \ {k} : Put(f, k, x)[h] = f[h]
    BY <2>1, PutFacts
  <2> QED BY <2>2 DEF f, k, x, D
<1>4. q \in TxLists
  BY <1>3 DEF TxLists
<1>5. disk' = [disk EXCEPT !.txs = q] /\ prod' = Idle /\ UNCHANGED <<up, mem, pool, rpc, used>>
  BY DEF SaveBlockTxs
<1> HIDE DEF q
<1> QED BY <1>1, <1>3, <1>4, <1>5 DEF Inv, Shape

\* Sync and SyncTxs.
LEMMA SyncInv ==
  ASSUME Inv, \/ SyncAccounts \/ SyncBlock \/ SyncFails
              \/ SaveTxIndex \/ SaveBlockTxs \/ SyncTxsFails
  PROVE  Inv'
<1>1. CASE SyncAccounts
  <2>1. /\ prod' = [prod EXCEPT !.pc = "block"] /\ prod.pc = "accounts"
        /\ disk' = SaveAllAccounts(disk, mem) /\ UNCHANGED <<up, mem, pool, rpc, used>>
    BY <1>1 DEF SyncAccounts
  <2>2. /\ disk' \in Stores
        /\ disk'.height = disk.height
    BY <2>1, SaveFacts DEF Inv, Shape
  <2> QED BY <2>1, <2>2 DEF Inv, Shape, Stage
<1>2. CASE SyncBlock
  <2>1. /\ disk' \in Stores
        /\ disk'.height = mem.height /\ prod.pc = "block" /\ AfterSync(FALSE) /\ used' = used
    BY <1>2, SyncBlockFacts
  <2>2. disk'.height <= mem.height
    BY <2>1, ChainAssumption DEF Inv, Shape
  <2>3. used' \in Counters
    BY <2>1 DEF Inv, Shape
  <2> QED BY <2>1, <2>2, <2>3, AfterSyncInv
<1>3. CASE SyncFails
  <2>1. /\ prod.pc \in {"accounts", "block"} /\ AfterSync(TRUE) /\ disk' = disk
        /\ used' \in Counters
    BY <1>3, UseFacts DEF SyncFails
  <2>2. /\ disk' \in Stores
        /\ disk'.height <= mem.height
    BY <2>1 DEF Inv, Shape, Stage
  <2> QED BY <2>1, <2>2, AfterSyncInv
<1>4. CASE SaveTxIndex
  BY <1>4, SaveTxIndexFacts, SMTT(30) DEF Inv, Shape, Stage
<1>5. CASE SaveBlockTxs
  <2>1. prod'.pc = "idle"
    BY <1>5, SaveBlockTxsFacts DEF Idle
  <2> QED BY <1>5, <2>1, SaveBlockTxsFacts, EmptyShapes DEF Inv, Shape, Stage
<1>6. CASE SyncTxsFails
  <2>1. /\ prod' = Idle /\ prod'.pc = "idle" /\ prod.pc = "index" /\ UNCHANGED <<up, mem, pool, rpc, disk>>
        /\ used' \in Counters
    BY <1>6, UseFacts DEF SyncTxsFails, Idle
  <2> QED BY <2>1, EmptyShapes DEF Inv, Shape, Stage
<1> QED BY <1>1, <1>2, <1>3, <1>4, <1>5, <1>6

\* An RPC call that returns leaves the deployments under way alone.
LEMMA ReturnFacts ==
  ASSUME Inv
  PROVE  Return \in Calls /\ Return.pc = "idle" /\ Return.deploys = rpc.deploys
BY EmptyShapes DEF Return, NoCall, Inv, Shape

\* way_fundGenesis, account by account.
LEMMA FundFacts ==
  ASSUME Inv, FundGenesis
  PROVE  /\ up = "serving" /\ UNCHANGED <<up, pool, prod>> /\ rpc' = Return
         /\ mem' \in Chains
         /\ mem'.height = mem.height /\ mem'.applied = mem.applied
         /\ \A c \in Accounts : mem'.acc[c].nonce = mem.acc[c].nonce
         /\ disk' = SaveAllAccounts(disk, mem') \/ disk' = disk
         /\ disk' # SaveAllAccounts(disk, mem') => Within("errors", MaxErrors)
         /\ MaxFunds # 0
         /\ used' \in Counters
<1>0. PICK sum \in {rpc.seen + rpc.amount, mem.acc[rpc.acct].balance} :
        mem' = [mem EXCEPT !.acc[rpc.acct].balance = sum, !.acc[rpc.acct].doxed = TRUE,
                           !.acc[rpc.acct].funded = @ + rpc.amount]
  BY DEF FundGenesis
<1> DEFINE a == rpc.acct
           e == rpc.amount
           x == mem.acc[a]
           y == [x EXCEPT !.balance = sum]
           z == [y EXCEPT !.doxed = TRUE]
           f == z.funded + e
           w == [z EXCEPT !.funded = f]
           k == [mem.acc EXCEPT ![a] = w]
<1>1. mem.acc \in Ledger /\ a \in Accounts /\ x \in Account /\ e \in Int /\ rpc.seen \in Int
  BY DEF Inv, Shape, Ledger
<1>2. sum \in Int
  BY <1>0, <1>1 DEF Account
<1>3. y.nonce = x.nonce /\ y \in Account
  BY <1>1, <1>2 DEF Account
<1>4. z.nonce = x.nonce /\ z \in Account
  <2> HIDE DEF y
  <2>1. z.nonce = y.nonce /\ z.balance = y.balance /\ z.funded = y.funded /\ z.doxed = TRUE
    BY <1>3 DEF Account
  <2> QED BY <1>3, <2>1 DEF Account
<1>5. w.nonce = x.nonce /\ w \in Account
  <2>1. f \in Int
    BY <1>1, <1>4 DEF Account
  <2> HIDE DEF z, f
  <2> QED BY <1>4, <2>1 DEF Account
<1>6. mem' = [mem EXCEPT !.acc = k]
  <2> DEFINE m1 == [mem.acc EXCEPT ![a] = y]
             m2 == [m1 EXCEPT ![a] = z]
             m3 == [m2 EXCEPT ![a] = w]
             M1 == [mem EXCEPT !.acc = m1]
             M2 == [M1 EXCEPT !.acc = m2]
  <2> HIDE DEF a, e
  <2>1. mem' = [mem EXCEPT !.acc[a].balance = sum, !.acc[a].doxed = TRUE, !.acc[a].funded = @ + e]
    BY <1>0 DEF a, e
  <2>2. mem' = [[M1 EXCEPT !.acc[a].doxed = TRUE] EXCEPT !.acc[a].funded = @ + e]
    BY <2>1, ZenonT(30)
  <2>3. m1[a] = y /\ m2[a] = z /\ M1.acc = m1 /\ M2.acc = m2
    BY <1>1 DEF Inv, Shape, Ledger
  <2>4. [M1 EXCEPT !.acc[a].doxed = TRUE] = M2
    <3>1. [M1 EXCEPT !.acc[a].doxed = TRUE]
              = [M1 EXCEPT !.acc = [M1.acc EXCEPT ![a] = [M1.acc[a] EXCEPT !.doxed = TRUE]]]
      BY Zenon
    <3> QED BY <2>3, <3>1
  <2>5. mem' = [M2 EXCEPT !.acc = m3]
    <3> HIDE DEF M2
    <3>1. [M2 EXCEPT !.acc[a].funded = @ + e]
              = [M2 EXCEPT !.acc = [M2.acc EXCEPT ![a] = [M2.acc[a] EXCEPT !.funded = @ + e]]]
      BY Zenon
    <3> QED BY <2>2, <2>3, <2>4, <3>1
  <2> HIDE DEF y, z, w
  <2>6. m3 = k
    BY <1>1 DEF Ledger
  <2> HIDE DEF m1, m2, m3, k
  <2> QED BY <2>5, <2>6 DEF Inv, Shape
<1> HIDE DEF w, x
<1>7. k \in Ledger /\ k[a] = w /\ \A c \in Accounts \ {a} : k[c] = mem.acc[c]
  BY <1>1, <1>5 DEF Ledger
<1>8. \A c \in Accounts : k[c].nonce = mem.acc[c].nonce
  BY <1>5, <1>7 DEF x
<1> HIDE DEF k
<1>9. /\ mem' \in Chains
      /\ mem'.height = mem.height /\ mem'.applied = mem.applied /\ mem'.acc = k
  BY <1>6, <1>7 DEF Inv, Shape
<1>10. /\ UNCHANGED <<up, pool, prod>> /\ rpc' = Return /\ rpc.pc = "fund"
       /\ disk' = SaveAllAccounts(disk, mem') \/ disk' = disk
       /\ disk' # SaveAllAccounts(disk, mem') => Within("errors", MaxErrors)
       /\ used' \in Counters
  BY SMTT(30) DEF FundGenesis, Use, Inv, Shape
<1>11. up = "serving" /\ MaxFunds # 0
  BY <1>10 DEF Inv, Stage, NoCall
<1> QED BY <1>8, <1>9, <1>10, <1>11

\* way_deployCode.
LEMMA DeployFacts ==
  ASSUME Inv, NEW d \in rpc.deploys, DeployCode(d)
  PROVE  /\ up = "serving" /\ UNCHANGED <<up, pool, prod, disk, used>>
         /\ rpc' = [rpc EXCEPT !.deploys = @ \ {d}]
         /\ mem' \in Chains
         /\ mem'.height = mem.height /\ mem'.applied = mem.applied
         /\ \A c \in Accounts : /\ mem'.acc[c].balance = mem.acc[c].balance
                                 /\ mem'.acc[c].funded = mem.acc[c].funded
         /\ MaxDeploys # 0
<1> DEFINE a == d.acct
           x == mem.acc[a]
           n == d.nonce + 1
           y == [x EXCEPT !.nonce = n]
           k == [mem.acc EXCEPT ![a] = y]
<1>1. mem.acc \in Ledger /\ a \in Accounts /\ x \in Account /\ n \in Nat
  BY DEF Inv, Shape, Ledger, Deploys
<1>2. mem' = [mem EXCEPT !.acc = k]
  BY DEF DeployCode
<1> HIDE DEF a, x, n
<1>3. y.balance = x.balance /\ y.funded = x.funded /\ y \in Account
  BY <1>1 DEF Account
<1> HIDE DEF y
<1>4. k \in Ledger /\ k[a] = y /\ \A c \in Accounts \ {a} : k[c] = mem.acc[c]
  BY <1>1, <1>3 DEF Ledger
<1>5. \A c \in Accounts : k[c].balance = mem.acc[c].balance /\ k[c].funded = mem.acc[c].funded
  BY <1>3, <1>4 DEF x
<1> HIDE DEF k
<1>6. /\ mem' \in Chains
      /\ mem'.height = mem.height /\ mem'.applied = mem.applied /\ mem'.acc = k
  BY <1>2, <1>4 DEF Inv, Shape
<1>7. up = "serving" /\ MaxDeploys # 0
  BY DEF Inv, Stage, NoCall
<1> QED BY <1>5, <1>6, <1>7 DEF DeployCode

\* The steps of the RPC server that only note what they read.
LEMMA ReadFacts ==
  ASSUME Inv, \/ \E t \in Txs : SendRawTransaction(t)
              \/ \E a \in Accounts, amount \in FundAmounts : FundRead(a, amount)
              \/ \E a \in Accounts : DeployRead(a)
  PROVE  up = "serving" /\ UNCHANGED <<up, mem, pool, prod, disk>> /\ used' \in Counters
BY UseFacts DEF SendRawTransaction, FundRead, DeployRead

LEMMA LaneIsLane == ASSUME NEW t PROVE Lane(t) \in {"consensus", "oracle", "private"}
BY DEF Lane

\* The RPC server.
LEMMA RpcInv == ASSUME Inv, Rpc PROVE Inv'
<1>1. ASSUME NEW t \in Txs, SendRawTransaction(t) PROVE Inv'
  <2>1. pool[Lane(t)] \in TxSeq
    BY LaneIsLane DEF Inv, Shape
  <2>2. /\ rpc' = [rpc EXCEPT !.pc = "add", !.tx = t, !.snap = pool[Lane(t)]] /\ up = "serving"
        /\ UNCHANGED <<up, mem, pool, prod, disk>>
        /\ used' \in Counters
    BY <1>1, UseFacts DEF SendRawTransaction
  <2>3. /\ rpc' \in Calls
        /\ rpc'.pc = "add" /\ rpc'.tx = t /\ rpc'.deploys = rpc.deploys
    BY <2>1, <2>2 DEF Inv, Shape
  <2> QED BY <2>2, <2>3 DEF Inv, Shape, Stage
<1>2. CASE PoolAdd
  <2>1. rpc.tx \in Txs /\ rpc.snap \in Seq(Txs)
    BY <1>2 DEF PoolAdd, Inv, Shape, Stage, TxSeq
  <2>2. Append(rpc.snap, rpc.tx) \in TxSeq
    BY <2>1 DEF TxSeq
  <2>3. pool' \in Pools
    BY <1>2, <2>2, LaneIsLane DEF PoolAdd, Inv, Shape
  <2>4. rpc' = Return /\ rpc.pc = "add" /\ UNCHANGED <<up, mem, prod, disk, used>>
    BY <1>2 DEF PoolAdd
  <2>5. up = "serving"
    BY <2>4 DEF Inv, Stage, NoCall
  <2> QED BY <2>3, <2>4, <2>5, ReturnFacts DEF Inv, Shape, Stage
<1>5. ASSUME NEW a \in Accounts, NEW e \in FundAmounts, FundRead(a, e) PROVE Inv'
  <2>1. mem.acc[a].balance \in Int /\ e \in Int
    BY ChainAssumption DEF Inv, Shape, Ledger, Account
  <2>2. /\ rpc' = [rpc EXCEPT !.pc = "fund", !.acct = a, !.amount = e, !.seen = mem.acc[a].balance]
        /\ Within("funds", MaxFunds) /\ up = "serving" /\ UNCHANGED <<up, mem, pool, prod, disk>>
        /\ used' \in Counters
    BY <1>5, UseFacts DEF FundRead
  <2>3. MaxFunds # 0
    BY <2>2 DEF Within, Inv, Shape
  <2>4. rpc' \in Calls /\ rpc'.pc = "fund" /\ rpc'.deploys = rpc.deploys
    BY <2>1, <2>2 DEF Inv, Shape
  <2> QED BY <2>2, <2>3, <2>4 DEF Inv, Shape, Stage
<1>6. ASSUME NEW a \in Accounts, DeployRead(a) PROVE Inv'
  <2> DEFINE d == [call |-> used["deploys"], acct |-> a, nonce |-> mem.acc[a].nonce]
  <2>1. d \in Deploys
    BY DEF Inv, Shape, Ledger, Account, Deploys
  <2>2. /\ rpc' = [rpc EXCEPT !.deploys = @ \cup {d}]
        /\ Within("deploys", MaxDeploys) /\ up = "serving" /\ UNCHANGED <<up, mem, pool, prod, disk>>
        /\ used' \in Counters
    BY <1>6, UseFacts DEF DeployRead
  <2>3. MaxDeploys # 0
    BY <2>2 DEF Within, Inv, Shape
  <2> HIDE DEF d
  <2>4. rpc' \in Calls /\ rpc'.pc = rpc.pc /\ rpc'.tx = rpc.tx
    BY <2>1, <2>2 DEF Inv, Shape
  <2> QED BY <2>2, <2>3, <2>4 DEF Inv, Shape, Stage
<1>3. CASE FundGenesis
  <2>1. /\ disk' \in Stores
        /\ disk'.height = disk.height
    <3>1. mem' \in Chains
      BY <1>3, FundFacts
    <3>2. CASE disk' = SaveAllAccounts(disk, mem')
      BY <3>1, <3>2, SaveFacts
    <3>3. CASE disk' = disk
      BY <3>3 DEF Inv, Shape
    <3> QED BY <1>3, <3>2, <3>3, FundFacts
  <2> QED BY <1>3, <2>1, FundFacts, ReturnFacts DEF Inv, Shape, Stage
<1>4. ASSUME NEW d \in rpc.deploys, DeployCode(d) PROVE Inv'
  <2>1. rpc' \in Calls /\ rpc'.pc = rpc.pc /\ rpc'.tx = rpc.tx
    BY <1>4, DeployFacts DEF Inv, Shape
  <2> QED BY <1>4, <2>1, DeployFacts DEF Inv, Shape, Stage
<1> QED BY <1>1, <1>2, <1>3, <1>4, <1>5, <1>6 DEF Rpc

\* Inv is inductive.
LEMMA NextInv == Inv /\ [Next]_vars => Inv'
<1> SUFFICES ASSUME Inv, [Next]_vars PROVE Inv'
  OBVIOUS
<1>1. CASE UNCHANGED vars
  BY <1>1 DEF vars, Inv, Shape, Stage
<1>2. CASE Shutdown
  <2>1. /\ prod' = [Idle EXCEPT !.pc = "accounts", !.why = "shutdown"] /\ up = "serving"
        /\ UNCHANGED <<up, mem, pool, rpc, disk>>
        /\ used' \in Counters
    BY <1>2, UseFacts DEF Shutdown
  <2>2. /\ prod' \in Producers
        /\ prod'.pc = "accounts" /\ prod'.why = "shutdown"
    BY <2>1, EmptyShapes DEF Idle
  <2> QED BY <2>1, <2>2 DEF Inv, Shape, Stage
<1>3. CASE Crash
  <2>1. /\ up' = "down" /\ mem' = EmptyMem /\ pool' = EmptyPool /\ prod' = Idle /\ rpc' = NoCall
        /\ disk' = disk
        /\ used' \in Counters
    BY <1>3, UseFacts DEF Crash
  <2>2. disk' \in Stores
    BY <2>1 DEF Inv, Shape
  <2> QED BY <2>1, <2>2, DownInv
<1> QED BY <1>1, <1>2, <1>3, BootInv, ProduceInv, SyncInv, RpcInv DEF Next, BlockLoop

\* The stored height never goes back, through any crash, restart, failing write
\* and shutdown: a chain in memory is never behind the database.
THEOREM StoredHeightGrows == Spec => HeightNeverRewound
<1>1. Inv /\ [Next]_vars => [disk'.height >= disk.height]_vars
  <2> SUFFICES ASSUME Inv, Next PROVE disk'.height >= disk.height
    OBVIOUS
  <2>1. disk.height \in Nat /\ mem.height \in Nat
    BY ChainAssumption DEF Inv, Shape
  <2>2. CASE SyncBlock
    <3>1. disk'.height = mem.height /\ disk.height <= mem.height
      BY <2>2, SyncBlockFacts DEF Inv, Stage
    <3> QED BY <2>1, <3>1
  <2>3. CASE SyncAccounts
    <3>1. disk'.height = disk.height
      BY <2>3, SaveFacts DEF SyncAccounts, Inv, Shape
    <3> QED BY <2>1, <3>1
  <2>4. CASE FundGenesis
    <3>1. CASE disk' = SaveAllAccounts(disk, mem')
      <4>1. mem' \in Chains
        BY <2>4, FundFacts
      <4>2. disk'.height = disk.height
        BY <3>1, <4>1, SaveFacts
      <4> QED BY <2>1, <4>2
    <3>2. CASE disk' = disk
      BY <2>1, <3>2
    <3> QED BY <2>4, <3>1, <3>2, FundFacts
  <2>5. CASE SaveTxIndex
    BY <2>1, <2>5, SaveTxIndexFacts
  <2>6. CASE SaveBlockTxs
    BY <2>1, <2>6, SaveBlockTxsFacts
  <2>7. CASE \/ Restore \/ BootGenesis \/ BeginBlock \/ PopConsensus \/ ExecuteTx \/ DebitSender
             \/ SealBlock \/ SyncFails \/ SyncTxsFails \/ Shutdown \/ Crash \/ PoolAdd
             \/ (\E t \in Txs : SendRawTransaction(t))
             \/ (\E a \in Accounts, amount \in FundAmounts : FundRead(a, amount))
             \/ (\E a \in Accounts : DeployRead(a)) \/ (\E d \in rpc.deploys : DeployCode(d))
    <3>1. disk' = disk
      BY <2>7 DEF Restore, BootGenesis, BeginBlock, PopConsensus, ExecuteTx, DebitSender, SealBlock,
                  SyncFails, SyncTxsFails, Shutdown, Crash, PoolAdd, SendRawTransaction, FundRead,
                  DeployRead, DeployCode
    <3> QED BY <2>1, <3>1
  <2> QED BY <2>2, <2>3, <2>4, <2>5, <2>6, <2>7 DEF Next, BlockLoop, Rpc
<1> QED BY <1>1, InitInv, NextInv, PTL DEF Spec, HeightNeverRewound

-----------------------------------------------------------------------------
(* No transaction takes effect twice *)

\* What a ledger contains is behind its nonces.  The nonces of an account that is
\* another's image follow nothing: revm may set them to those of the other.
Spent(acc, applied) ==
    /\ Once(applied)
    /\ \A i \in DOMAIN applied :
          Own(applied[i].from) => applied[i].nonce < acc[applied[i].from].nonce

\* A transaction between its execution and its debit is not contained yet, and
\* its nonce is the sender's.
Fresh(t, acc, applied) ==
    Own(t.from) => /\ \A i \in DOMAIN applied : applied[i] # t
                   /\ t.nonce <= acc[t.from].nonce

NonceInv ==
    /\ Spent(mem.acc, mem.applied)
    /\ Spent(disk.acc, disk.applied)
    /\ prod.pc = "debit" => Fresh(prod.tx, mem.acc, mem.applied)

LEMMA SeqFacts ==
  ASSUME NEW q \in TxSeq
  PROVE  /\ DOMAIN q = 1 .. Len(q) /\ Len(q) \in Nat
         /\ \A i \in DOMAIN q : q[i] \in Txs
BY DEF TxSeq

LEMMA NonceIsNat ==
  ASSUME NEW acc \in Ledger, NEW t \in Txs PROVE acc[t.from].nonce \in Nat /\ t.nonce \in Nat
BY TxFacts DEF Ledger, Account

LEMMA SpentNothing == ASSUME NEW acc PROVE Spent(acc, <<>>)
BY DEF Spent, Once

\* Nonces that only grow keep it so.
LEMMA SpentKept ==
  ASSUME NEW acc \in Ledger, NEW new \in Ledger, NEW q \in TxSeq, Spent(acc, q),
         \A u \in Txs : Own(u.from) => new[u.from].nonce >= acc[u.from].nonce
  PROVE  Spent(new, q)
<1> SUFFICES ASSUME NEW i \in DOMAIN q, Own(q[i].from) PROVE q[i].nonce < new[q[i].from].nonce
  BY DEF Spent
<1>1. q[i] \in Txs
  BY SeqFacts
<1> DEFINE u == q[i]
<1>2. u.nonce < acc[u.from].nonce /\ new[u.from].nonce >= acc[u.from].nonce
  BY <1>1 DEF Spent
<1>3. acc[u.from].nonce \in Nat /\ new[u.from].nonce \in Nat /\ u.nonce \in Nat
  BY <1>1, NonceIsNat
<1> QED BY <1>2, <1>3

LEMMA FreshKept ==
  ASSUME NEW acc \in Ledger, NEW new \in Ledger, NEW q, NEW t \in Txs, Fresh(t, acc, q),
         Own(t.from) => new[t.from].nonce >= acc[t.from].nonce
  PROVE  Fresh(t, new, q)
BY NonceIsNat DEF Fresh

\* Execution leaves the nonce alone of every account that is nobody else's image:
\* what revm writes to it is its own result, without the nonce.
LEMMA ExecuteNonces ==
  ASSUME NEW acc \in Ledger, NEW t \in Txs, NEW u \in Txs, Own(u.from)
  PROVE  Execute(t, acc)[u.from].nonce = acc[u.from].nonce
<1> DEFINE a == u.from
<1>1. t.from \in Accounts /\ t.to \in Accounts /\ a \in Accounts
  BY TxFacts
<1>2. (a = Image[t.to] => t.to = a) /\ (a = Image[t.from] => t.from = a)
  BY <1>1 DEF Own
<1>3. acc[a] \in Account
  BY <1>1 DEF Ledger
<1>4. CASE Execute(t, acc) = [acc EXCEPT ![t.to].balance = @ + t.value]
  BY <1>1, <1>3, <1>4 DEF Ledger, Account
<1>5. CASE Execute(t, acc) = ApplyRevm(t, acc)
  <2> DEFINE x == acc[t.to].balance + t.value
             y == acc[t.from].balance - t.gasUsed
                    - (IF t.kind = "call" /\ t.to = t.from THEN 0 ELSE t.value)
  <2>1. \/ ApplyRevm(t, acc)[a] = acc[a]
        \/ a = Image[t.to] /\ ApplyRevm(t, acc)[a] = [acc[a] EXCEPT !.balance = x, !.nonce = acc[t.to].nonce]
        \/ a = Image[t.from] /\ ApplyRevm(t, acc)[a] =
               [acc[a] EXCEPT !.balance = y, !.nonce = IF a = t.from THEN @ ELSE acc[t.from].nonce + 1]
    BY <1>1 DEF ApplyRevm
  <2> HIDE DEF x, y
  <2>2. CASE a = Image[t.to] /\ ApplyRevm(t, acc)[a] = [acc[a] EXCEPT !.balance = x, !.nonce = acc[t.to].nonce]
    <3>1. t.to = a
      BY <1>2, <2>2
    <3>2. ApplyRevm(t, acc)[a].nonce = acc[t.to].nonce
      BY <1>3, <2>2 DEF Account
    <3> QED BY <1>5, <3>1, <3>2
  <2>3. CASE a = Image[t.from] /\ ApplyRevm(t, acc)[a] =
               [acc[a] EXCEPT !.balance = y, !.nonce = IF a = t.from THEN @ ELSE acc[t.from].nonce + 1]
    <3>1. t.from = a
      BY <1>2, <2>3
    <3>2. ApplyRevm(t, acc)[a].nonce = acc[a].nonce
      BY <1>3, <2>3, <3>1 DEF Account
    <3> QED BY <1>5, <3>2
  <2> QED BY <1>5, <2>1, <2>2, <2>3
<1>6. CASE Execute(t, acc) = acc
  BY <1>6
<1> QED BY <1>4, <1>5, <1>6 DEF Execute

\* A step that touches neither the ledgers nor the transaction in hand.
LEMMA QuietNonces ==
  ASSUME NonceInv, mem'.acc = mem.acc, mem'.applied = mem.applied,
         disk'.acc = disk.acc, disk'.applied = disk.applied,
         prod'.pc # "debit" \/ (prod.pc = "debit" /\ prod'.tx = prod.tx)
  PROVE  NonceInv'
BY DEF NonceInv

\* A process that ended, or starts from genesis.
LEMMA EmptyNonces ==
  ASSUME NonceInv, mem'.applied = <<>>, disk'.acc = disk.acc, disk'.applied = disk.applied,
         prod'.pc # "debit"
  PROVE  NonceInv'
BY SpentNothing DEF NonceInv

LEMMA AfterSyncNonces ==
  ASSUME Inv, NonceInv, NEW failed \in BOOLEAN, AfterSync(failed),
         prod.pc \in {"accounts", "block"}, disk'.acc = disk.acc, disk'.applied = disk.applied
  PROVE  NonceInv'
<1>1. CASE /\ UNCHANGED mem
           /\ prod'.pc = (IF prod.done = <<>> THEN "idle" ELSE "index")
  BY <1>1, QuietNonces
<1>2. CASE mem'.acc = FundDev(mem.acc) /\ mem'.applied = mem.applied /\ prod' = Idle
  <2>1. mem.acc \in Ledger /\ mem.applied \in TxSeq
    BY DEF Inv, Shape
  <2>2. /\ FundDev(mem.acc) \in Ledger
        /\ \A c \in Accounts : FundDev(mem.acc)[c].nonce = mem.acc[c].nonce
    BY <2>1, FundDevFacts
  <2>3. \A u \in Txs : FundDev(mem.acc)[u.from].nonce >= mem.acc[u.from].nonce
    BY <2>1, <2>2, TxFacts, NonceIsNat
  <2>4. Spent(FundDev(mem.acc), mem.applied)
    BY <2>1, <2>2, <2>3, SpentKept DEF NonceInv
  <2> QED BY <1>2, <2>4 DEF NonceInv, Idle
<1>3. CASE mem' = EmptyMem /\ prod' = Idle
  BY <1>3, EmptyNonces DEF EmptyMem, Idle
<1> QED BY <1>1, <1>2, <1>3, AfterSyncFacts

LEMMA ProduceNonces ==
  ASSUME Inv, NonceInv,
         BeginBlock \/ PopConsensus \/ ExecuteTx \/ DebitSender \/ SealBlock
  PROVE  NonceInv'
<1>0. mem.acc \in Ledger /\ mem.applied \in TxSeq
  BY DEF Inv, Shape
<1>1. CASE BeginBlock \/ PopConsensus \/ SealBlock
  <2>1. mem'.acc = mem.acc /\ mem'.applied = mem.applied /\ disk' = disk
    BY <1>1 DEF BeginBlock, PopConsensus, SealBlock, Inv, Shape
  <2>2. prod'.pc \in {"pop", "exec", "accounts"}
    BY <1>1 DEF BeginBlock, PopConsensus, SealBlock, Inv, Shape, Idle
  <2> QED BY <2>1, <2>2, QuietNonces
<1>2. CASE ExecuteTx
  <2> DEFINE t == Head(prod.batch)
  <2>1. prod.batch \in Seq(Txs) /\ prod.batch # <<>> /\ disk' = disk
    BY <1>2 DEF ExecuteTx, Inv, Shape, TxSeq
  <2>2. t \in Txs
    BY <2>1
  <2>3. CASE ~Executable(t, mem.acc)
    <3>1. mem' = mem /\ prod'.pc = "exec"
      BY <1>2, <2>3 DEF ExecuteTx, Inv, Shape
    <3> QED BY <2>1, <3>1, QuietNonces
  <2>4. CASE Executable(t, mem.acc)
    <3> DEFINE new == Execute(t, mem.acc)
    <3>1. mem' = [mem EXCEPT !.acc = new] /\ prod' = [prod EXCEPT !.batch = Tail(@), !.pc = "debit", !.tx = t]
      BY <1>2, <2>4 DEF ExecuteTx
    <3>2. new \in Ledger
      BY <1>0, <2>2, ExecuteIsLedger
    <3>3. \A u \in Txs : Own(u.from) => new[u.from].nonce = mem.acc[u.from].nonce
      BY <1>0, <2>2, ExecuteNonces
    <3>4. \A u \in Txs : Own(u.from) => new[u.from].nonce >= mem.acc[u.from].nonce
      BY <1>0, <3>2, <3>3, NonceIsNat
    <3> HIDE DEF new, t
    <3>5. Spent(new, mem.applied)
      BY <1>0, <3>2, <3>4, SpentKept DEF NonceInv
    <3>6. Fresh(t, mem.acc, mem.applied)
      <4>1. t.nonce = mem.acc[t.from].nonce /\ t.nonce \in Nat
        BY <1>0, <2>2, <2>4, NonceIsNat DEF Executable
      <4>2. \A i \in DOMAIN mem.applied :
              Own(mem.applied[i].from) => mem.applied[i].nonce < mem.acc[mem.applied[i].from].nonce
        BY DEF NonceInv, Spent
      <4> QED BY <4>1, <4>2 DEF Fresh
    <3>7. Fresh(t, new, mem.applied)
      BY <1>0, <2>2, <3>2, <3>4, <3>6, FreshKept
    <3>8. mem'.acc = new /\ mem'.applied = mem.applied /\ prod'.tx = t
      BY <3>1 DEF Inv, Shape
    <3> QED BY <2>1, <3>5, <3>7, <3>8 DEF NonceInv
  <2> QED BY <2>3, <2>4
<1>3. CASE DebitSender
  <2> DEFINE t == prod.tx
             q == mem.applied
             acc == mem.acc
             new == mem'.acc
  <2>1. /\ t \in Txs /\ mem'.applied = Append(q, t) /\ new \in Ledger
        /\ new[t.from].nonce = acc[t.from].nonce + 1
        /\ \A a \in Accounts \ {t.from} : new[a] = acc[a]
    BY <1>3, DebitFacts
  <2>2. disk' = disk /\ prod'.pc = "exec" /\ prod.pc = "debit"
    BY <1>3 DEF DebitSender, Inv, Shape
  <2>3. Spent(acc, q) /\ Fresh(t, acc, q) /\ acc \in Ledger /\ q \in TxSeq
    BY <1>0, <2>2 DEF NonceInv
  <2> HIDE DEF t, q, acc, new
  <2>4. \A u \in Txs : new[u.from].nonce >= acc[u.from].nonce
    <3> SUFFICES ASSUME NEW u \in Txs PROVE new[u.from].nonce >= acc[u.from].nonce
      OBVIOUS
    <3>1. u.from \in Accounts /\ acc[u.from].nonce \in Nat
      BY <2>3, TxFacts, NonceIsNat
    <3> QED BY <2>1, <3>1
  <2>5. Spent(new, q)
    BY <2>1, <2>3, <2>4, SpentKept
  <2>6. Own(t.from) => t.nonce < new[t.from].nonce
    BY <2>1, <2>3, NonceIsNat DEF Fresh
  <2>7. q \in Seq(Txs)
    BY <2>3 DEF TxSeq
  <2>8. /\ DOMAIN Append(q, t) = DOMAIN q \cup {Len(q) + 1} /\ Append(q, t)[Len(q) + 1] = t
        /\ \A i \in DOMAIN q : Append(q, t)[i] = q[i]
    BY <2>1, <2>7
  <2>9. Spent(new, Append(q, t))
    <3> DEFINE p == Append(q, t)
               l == Len(q) + 1
    <3> HIDE DEF p, l
    <3>1. /\ DOMAIN p = DOMAIN q \cup {l} /\ p[l] = t
          /\ \A i \in DOMAIN q : p[i] = q[i] /\ (Own(t.from) => q[i] # t)
      BY <2>3, <2>8 DEF p, l, Fresh
    <3>2. Once(p)
      BY <2>5, <3>1 DEF Spent, Once
    <3> QED BY <2>5, <2>6, <3>1, <3>2 DEF Spent, p
  <2> QED BY <2>1, <2>2, <2>9 DEF NonceInv, q, new
<1> QED BY <1>1, <1>2, <1>3

LEMMA SyncNonces ==
  ASSUME Inv, NonceInv, \/ SyncAccounts \/ SyncBlock \/ SyncFails
                        \/ SaveTxIndex \/ SaveBlockTxs \/ SyncTxsFails
  PROVE  NonceInv'
<1>1. CASE SyncAccounts
  <2>1. mem' = mem /\ prod'.pc = "block" /\ disk' = SaveAllAccounts(disk, mem)
    BY <1>1 DEF SyncAccounts, Inv, Shape
  <2>2. disk'.acc = mem.acc /\ disk'.applied = mem.applied
    BY <2>1, SaveFacts DEF Inv, Shape
  <2> QED BY <2>1, <2>2 DEF NonceInv
<1>2. CASE SyncBlock
  <2>1. /\ disk'.acc = disk.acc /\ disk'.applied = disk.applied /\ AfterSync(FALSE)
        /\ prod.pc = "block"
    BY <1>2, SyncBlockFacts
  <2> QED BY <2>1, AfterSyncNonces
<1>3. CASE SyncFails
  <2>1. /\ disk'.acc = disk.acc /\ disk'.applied = disk.applied /\ AfterSync(TRUE)
        /\ prod.pc \in {"accounts", "block"}
    BY <1>3 DEF SyncFails
  <2> QED BY <2>1, AfterSyncNonces
<1>4. CASE SaveTxIndex
  <2>1. /\ mem' = mem /\ disk'.acc = disk.acc /\ disk'.applied = disk.applied
        /\ prod'.pc = prod.pc /\ prod.pc = "index"
    BY <1>4, SaveTxIndexFacts
  <2> QED BY <2>1, QuietNonces
<1>5. CASE SaveBlockTxs
  <2>1. mem' = mem /\ disk'.acc = disk.acc /\ disk'.applied = disk.applied /\ prod'.pc = "idle"
    BY <1>5, SaveBlockTxsFacts DEF Idle
  <2> QED BY <2>1, QuietNonces
<1>6. CASE SyncTxsFails
  <2>1. mem' = mem /\ disk' = disk /\ prod'.pc = "idle"
    BY <1>6 DEF SyncTxsFails, Idle
  <2> QED BY <2>1, QuietNonces
<1> QED BY <1>1, <1>2, <1>3, <1>4, <1>5, <1>6

\* A ledger whose nonces are not lower, with the same transactions.
LEMMA RaisedNonces ==
  ASSUME Inv, Inv', NonceInv, prod' = prod, mem'.applied = mem.applied,
         \A a \in Accounts : mem'.acc[a].nonce >= mem.acc[a].nonce,
         \/ disk'.acc = disk.acc /\ disk'.applied = disk.applied
         \/ disk'.acc = mem'.acc /\ disk'.applied = mem'.applied
  PROVE  NonceInv'
<1>1. mem.acc \in Ledger /\ mem'.acc \in Ledger /\ mem.applied \in TxSeq
  BY DEF Inv, Shape
<1>2. \A u \in Txs : mem'.acc[u.from].nonce >= mem.acc[u.from].nonce
  BY TxFacts
<1>3. Spent(mem'.acc, mem.applied)
  BY <1>1, <1>2, SpentKept DEF NonceInv
<1>4. prod.pc = "debit" => Fresh(prod.tx, mem'.acc, mem.applied)
  <2> SUFFICES ASSUME prod.pc = "debit" PROVE Fresh(prod.tx, mem'.acc, mem.applied)
    OBVIOUS
  <2>1. prod.tx \in Txs /\ Fresh(prod.tx, mem.acc, mem.applied)
    BY DEF Inv, Stage, NonceInv
  <2> QED BY <1>1, <1>2, <2>1, FreshKept
<1> QED BY <1>3, <1>4 DEF NonceInv

LEMMA RpcNonces == ASSUME Inv, Inv', NonceInv, MaxDeploys = 0, Rpc PROVE NonceInv'
<1>1. CASE \/ \E t \in Txs : SendRawTransaction(t)
           \/ \E a \in Accounts, amount \in FundAmounts : FundRead(a, amount)
           \/ \E a \in Accounts : DeployRead(a)
  <2>1. UNCHANGED <<mem, prod, disk>>
    BY <1>1, ReadFacts
  <2> QED BY <2>1 DEF NonceInv
<1>2. CASE FundGenesis
  <2>1. /\ prod' = prod /\ mem'.applied = mem.applied /\ mem' \in Chains
        /\ \A c \in Accounts : mem'.acc[c].nonce = mem.acc[c].nonce
    BY <1>2, FundFacts
  <2>2. \A c \in Accounts : mem.acc[c].nonce \in Nat
    BY DEF Inv, Shape, Ledger, Account
  <2>3. \A c \in Accounts : mem'.acc[c].nonce >= mem.acc[c].nonce
    BY <2>1, <2>2
  <2>4. \/ disk'.acc = disk.acc /\ disk'.applied = disk.applied
        \/ disk'.acc = mem'.acc /\ disk'.applied = mem'.applied
    <3>1. CASE disk' = SaveAllAccounts(disk, mem')
      BY <2>1, <3>1, SaveFacts
    <3>2. CASE disk' = disk
      BY <3>2
    <3> QED BY <1>2, <3>1, <3>2, FundFacts
  <2> QED BY <2>1, <2>3, <2>4, RaisedNonces
<1>3. CASE PoolAdd
  <2>1. UNCHANGED <<mem, prod, disk>>
    BY <1>3 DEF PoolAdd
  <2> QED BY <2>1 DEF NonceInv
<1>4. rpc.deploys = {}
  BY DEF Inv, Stage
<1> QED BY <1>1, <1>2, <1>3, <1>4 DEF Rpc

\* No transaction of an account that is nobody else's image is contained twice in
\* a ledger, in memory or on disk, for any transactions, races of the pool,
\* crashes, failing writes and fundings, on a node where way_deployCode is not
\* called: it writes nonces back that transactions have raised meanwhile.
THEOREM NothingReplayed == ASSUME MaxDeploys = 0 PROVE Spec => []NoReplay
<1>1. Init => NonceInv
  BY SpentNothing DEF Init, NonceInv, EmptyMem, Idle
<1>2. Inv /\ NonceInv /\ [Next]_vars => NonceInv'
  <2> SUFFICES ASSUME Inv, NonceInv, [Next]_vars PROVE NonceInv'
    OBVIOUS
  <2>0. Inv'
    BY NextInv
  <2>1. CASE Restore
    <3> DEFINE acc == FundDev(Deserialize(disk.acc))
    <3>1. disk.acc \in Ledger /\ disk.applied \in TxSeq /\ prod.pc = "idle"
      BY <2>1 DEF Restore, Inv, Shape, Stage
    <3>2. /\ Deserialize(disk.acc) \in Ledger
          /\ \A a \in Accounts : Deserialize(disk.acc)[a].nonce = disk.acc[a].nonce
      BY <3>1, DeserializeFacts
    <3>3. acc \in Ledger /\ \A a \in Accounts : acc[a].nonce = Deserialize(disk.acc)[a].nonce
      BY <3>2, FundDevFacts
    <3>4. mem'.acc = acc /\ mem'.applied = disk.applied /\ disk' = disk /\ prod' = prod
      BY <2>1 DEF Restore
    <3> HIDE DEF acc
    <3>5. \A u \in Txs : acc[u.from].nonce >= disk.acc[u.from].nonce
      BY <3>1, <3>2, <3>3, TxFacts, NonceIsNat
    <3>6. Spent(acc, disk.applied)
      BY <3>1, <3>3, <3>5, SpentKept DEF NonceInv
    <3> QED BY <3>1, <3>4, <3>6 DEF NonceInv
  <2>2. CASE BootGenesis
    BY <2>2, EmptyNonces DEF BootGenesis, Idle
  <2>3. CASE Shutdown
    BY <2>3, QuietNonces DEF Shutdown, Idle
  <2>4. CASE Crash
    BY <2>4, EmptyNonces DEF Crash, EmptyMem, Idle
  <2>5. CASE UNCHANGED vars
    BY <2>5 DEF vars, NonceInv
  <2> QED BY <2>0, <2>1, <2>2, <2>3, <2>4, <2>5, ProduceNonces, SyncNonces, RpcNonces DEF Next, BlockLoop
<1>3. NonceInv => NoReplay
  BY DEF NonceInv, Spent, NoReplay
<1> QED BY <1>1, <1>2, <1>3, InitInv, NextInv, PTL DEF Spec

-----------------------------------------------------------------------------
(* What the store returns, when the database does not fail *)

StoredInv ==
    /\ disk.height = 0 => disk.applied = <<>>
    /\ up = "booting" => disk.height = 0 /\ mem.applied = <<>>
    /\ up = "serving" => disk.height > 0
    /\ up = "down" => prod.done = <<>>
    /\ up # "down" => Range(disk.applied) \subseteq Range(mem.applied)
    /\ Range(prod.done) \subseteq Range(mem.applied)
    /\ prod.pc \in {"block", "index"} => disk.applied = mem.applied
    /\ prod.pc = "index" => disk.height = mem.height
    /\ StoredTxsApplied

LEMMA RangeFacts ==
  /\ Range(<<>>) = {}
  /\ \A q \in TxSeq, t \in Txs : Range(Append(q, t)) = Range(q) \cup {t}
<1>1. Range(<<>>) = {}
  BY DEF Range
<1>2. ASSUME NEW q \in TxSeq, NEW t \in Txs PROVE Range(Append(q, t)) = Range(q) \cup {t}
  <2>1. q \in Seq(Txs)
    BY DEF TxSeq
  <2>2. /\ DOMAIN Append(q, t) = DOMAIN q \cup {Len(q) + 1} /\ Append(q, t)[Len(q) + 1] = t
        /\ \A i \in DOMAIN q : Append(q, t)[i] = q[i]
    BY <2>1
  <2> QED BY <2>2 DEF Range
<1> QED BY <1>1, <1>2

LEMMA NoErrors == ASSUME Inv, MaxErrors = 0 PROVE ~Within("errors", MaxErrors)
BY DEF Within, Inv, Shape

LEMMA IndexFacts ==
  ASSUME Inv, NEW t \in DOMAIN disk.index
  PROVE  t \in Txs /\ disk.index[t][1] \in Nat /\ disk.index[t][2] \in Nat
<1>1. PICK S \in SUBSET Txs : disk.index \in [S -> Nat \X Nat]
  BY DEF Inv, Shape, Indexes, Partial
<1> QED BY <1>1

\* A step that leaves the database, the chain and the block in hand alone.
LEMMA QuietStored ==
  ASSUME StoredInv, disk' = disk, mem'.applied = mem.applied, mem'.height = mem.height, up' = up,
         prod'.done \in {prod.done, <<>>}, prod'.pc \notin {"block", "index"} \/ prod'.pc = prod.pc
  PROVE  StoredInv'
BY RangeFacts DEF StoredInv, StoredTxsApplied

LEMMA DownStored ==
  ASSUME StoredInv, disk'.applied = disk.applied, disk'.index = disk.index,
         disk'.height = disk.height, up' = "down", prod' = Idle
  PROVE  StoredInv'
<1>1. prod'.pc = "idle" /\ prod'.done = <<>>
  BY DEF Idle
<1> QED BY <1>1, RangeFacts DEF StoredInv, StoredTxsApplied

LEMMA ProduceStored ==
  ASSUME Inv, StoredInv, BeginBlock \/ PopConsensus \/ ExecuteTx \/ DebitSender \/ SealBlock
  PROVE  StoredInv'
<1>1. CASE BeginBlock
  <2>1. disk' = disk /\ mem'.applied = mem.applied /\ up' = up
    BY <1>1 DEF BeginBlock, Inv, Shape
  <2>2. prod'.pc = "pop" /\ prod'.done = <<>> /\ up = "serving"
    BY <1>1 DEF BeginBlock, Idle
  <2> QED BY <2>1, <2>2, RangeFacts DEF StoredInv, StoredTxsApplied
<1>2. CASE PopConsensus \/ SealBlock
  <2>1. disk' = disk /\ mem' = mem /\ up' = up
    BY <1>2 DEF PopConsensus, SealBlock
  <2>2. prod'.pc \in {"exec", "accounts"} /\ prod'.done = prod.done
    BY <1>2 DEF PopConsensus, SealBlock, Inv, Shape
  <2> QED BY <2>1, <2>2, QuietStored
<1>3. CASE ExecuteTx
  <2>1. disk' = disk /\ up' = up
    BY <1>3 DEF ExecuteTx
  <2>2. mem'.applied = mem.applied /\ mem'.height = mem.height
    BY <1>3 DEF ExecuteTx, Inv, Shape
  <2>3. prod'.pc \in {"debit", "exec"} /\ prod'.done = prod.done
    BY <1>3 DEF ExecuteTx, Inv, Shape
  <2> QED BY <2>1, <2>2, <2>3, QuietStored
<1>4. CASE DebitSender
  <2> DEFINE t == prod.tx
  <2>1. t \in Txs /\ mem'.applied = Append(mem.applied, t) /\ prod.pc = "debit"
    BY <1>4, DebitFacts
  <2>2. disk' = disk /\ up' = up /\ prod'.pc = "exec"
        /\ prod'.done = IF t.ok THEN Append(prod.done, t) ELSE prod.done
    BY <1>4 DEF DebitSender, Inv, Shape
  <2>3. mem.applied \in TxSeq /\ prod.done \in TxSeq
    BY DEF Inv, Shape
  <2>4. up = "serving"
    BY <2>1 DEF Inv, Shape, Stage
  <2> HIDE DEF t
  <2>5. Range(mem'.applied) = Range(mem.applied) \cup {t}
        /\ Range(prod'.done) \subseteq Range(prod.done) \cup {t}
    BY <2>1, <2>2, <2>3, RangeFacts
  <2> QED BY <2>2, <2>4, <2>5 DEF StoredInv, StoredTxsApplied
<1> QED BY <1>1, <1>2, <1>3, <1>4

LEMMA SyncStored ==
  ASSUME Inv, StoredInv, MaxErrors = 0,
         \/ SyncAccounts \/ SyncBlock \/ SyncFails
         \/ SaveTxIndex \/ SaveBlockTxs \/ SyncTxsFails
  PROVE  StoredInv'
<1>1. CASE SyncAccounts
  <2>1. mem' = mem /\ prod'.pc = "block" /\ prod'.done = prod.done /\ up' = up /\ up # "down"
        /\ disk' = SaveAllAccounts(disk, mem)
    BY <1>1 DEF SyncAccounts, Inv, Shape, Stage
  <2>2. /\ disk'.applied = mem.applied /\ disk'.index = disk.index /\ disk'.height = disk.height
        /\ disk.height \in Nat
    BY <2>1, SaveFacts, ChainAssumption DEF Inv, Shape
  <2>3. up \in {"booting", "serving"}
    BY <2>1 DEF Inv, Shape
  <2> QED BY <2>1, <2>2, <2>3 DEF StoredInv, StoredTxsApplied
<1>2. CASE SyncBlock
  <2>1. /\ disk'.applied = disk.applied /\ disk'.index = disk.index /\ disk'.height = mem.height
        /\ prod.pc = "block" /\ up # "down" /\ AfterSync(FALSE)
    BY <1>2, SyncBlockFacts
  <2>2. /\ disk.height <= mem.height /\ 1 <= mem.height /\ disk.height \in Nat /\ mem.height \in Nat
        /\ \A t \in DOMAIN disk.index : disk.index[t][1] \in Nat
    BY <2>1, IndexFacts, ChainAssumption DEF Inv, Shape, Stage
  <2>3. StoredTxsApplied' /\ disk'.height > 0 /\ disk'.applied = mem.applied
    BY <2>1, <2>2 DEF StoredInv, StoredTxsApplied
  <2>4. CASE /\ prod.why = "block" /\ UNCHANGED <<up, mem, pool, rpc>>
             /\ prod'.pc = (IF prod.done = <<>> THEN "idle" ELSE "index")
             /\ prod'.done = prod.done
    <3>1. up = "serving"
      BY <2>1, <2>4 DEF Inv, Shape, Stage
    <3> QED BY <2>1, <2>3, <2>4, <3>1 DEF StoredInv
  <2>5. CASE prod' = Idle /\ up' = "serving" /\ mem'.applied = mem.applied
    <3>1. prod'.pc = "idle" /\ prod'.done = <<>>
      BY <2>5 DEF Idle
    <3> QED BY <2>3, <2>5, <3>1, RangeFacts DEF StoredInv
  <2>6. CASE up' = "down" /\ prod' = Idle
    <3>1. prod'.pc = "idle" /\ prod'.done = <<>>
      BY <2>6 DEF Idle
    <3> QED BY <2>3, <2>6, <3>1, RangeFacts DEF StoredInv
  <2> QED BY <2>1, <2>4, <2>5, <2>6, AfterSyncFacts
<1>3. CASE SyncFails \/ SyncTxsFails
  BY <1>3, NoErrors DEF SyncFails, SyncTxsFails
<1>4. CASE SaveTxIndex
  <2> DEFINE t == prod.done[prod.next]
  <2>1. /\ prod.pc = "index" /\ up' = up /\ mem' = mem /\ prod'.pc = prod.pc /\ prod'.done = prod.done
        /\ disk'.applied = disk.applied /\ disk'.height = disk.height
        /\ DOMAIN disk'.index = DOMAIN disk.index \cup {t}
        /\ disk'.index[t] = <<mem.height, prod.next>>
        /\ \A u \in DOMAIN disk.index \ {t} : disk'.index[u] = disk.index[u]
    BY <1>4, SaveTxIndexFacts
  <2>2. t \in Range(prod.done)
    <3>1. prod.next \in 1 .. Len(prod.done) /\ prod.done \in TxSeq
      BY <1>4, SaveTxIndexFacts DEF Inv, Shape
    <3> QED BY <3>1, SeqFacts DEF Range
  <2>3. t \in Range(disk.applied) /\ mem.height <= disk.height
    BY <2>1, <2>2, ChainAssumption DEF StoredInv, Inv, Shape
  <2> HIDE DEF t
  <2>4. StoredTxsApplied'
    <3> SUFFICES ASSUME NEW u \in DOMAIN disk'.index
                 PROVE  u \in Range(disk.applied) /\ disk'.index[u][1] <= disk.height
      BY <2>1 DEF StoredTxsApplied
    <3>1. CASE u = t
      BY <2>1, <2>3, <3>1
    <3>2. CASE u # t
      BY <2>1, <3>2 DEF StoredInv, StoredTxsApplied
    <3> QED BY <3>1, <3>2
  <2> QED BY <2>1, <2>4 DEF StoredInv
<1>5. CASE SaveBlockTxs
  <2>1. /\ prod' = Idle /\ up' = up /\ mem' = mem /\ disk'.applied = disk.applied
        /\ disk'.height = disk.height /\ disk'.index = disk.index
    BY <1>5, SaveBlockTxsFacts
  <2>2. prod'.pc = "idle" /\ prod'.done = <<>>
    BY <2>1 DEF Idle
  <2> QED BY <2>1, <2>2, RangeFacts DEF StoredInv, StoredTxsApplied
<1> QED BY <1>1, <1>2, <1>3, <1>4, <1>5

\* Two calls of the RPC server write to the accounts.
LEMMA RpcCases ==
  ASSUME Inv, Rpc
  PROVE  \/ UNCHANGED <<up, mem, prod, disk>>
         \/ FundGenesis
         \/ \E d \in rpc.deploys : DeployCode(d)
<1>1. PoolAdd => UNCHANGED <<up, mem, prod, disk>>
  BY DEF PoolAdd
<1> QED BY <1>1, ReadFacts DEF Rpc

LEMMA RpcStored == ASSUME Inv, StoredInv, MaxErrors = 0, Rpc PROVE StoredInv'
<1>1. CASE UNCHANGED <<up, mem, prod, disk>>
  BY <1>1, QuietStored
<1>2. CASE FundGenesis
  <2>1. /\ up = "serving" /\ up' = up /\ prod' = prod /\ mem'.applied = mem.applied
        /\ mem'.height = mem.height /\ mem' \in Chains
        /\ disk' = SaveAllAccounts(disk, mem')
    BY <1>2, FundFacts, NoErrors
  <2>2. disk'.applied = mem'.applied /\ disk'.index = disk.index /\ disk'.height = disk.height
    BY <2>1, SaveFacts
  <2>3. disk.height > 0 /\ disk.height \in Nat
    BY <2>1, ChainAssumption DEF StoredInv, Inv, Shape
  <2> QED BY <2>1, <2>2, <2>3 DEF StoredInv, StoredTxsApplied
<1>3. ASSUME NEW d \in rpc.deploys, DeployCode(d) PROVE StoredInv'
  <2>1. /\ prod' = prod /\ mem'.applied = mem.applied /\ mem'.height = mem.height
        /\ disk' = disk /\ up' = up
    BY <1>3, DeployFacts
  <2> QED BY <2>1, QuietStored
<1> QED BY <1>1, <1>2, <1>3, RpcCases

LEMMA InitStored == Init => StoredInv
<1> SUFFICES ASSUME Init PROVE StoredInv
  OBVIOUS
<1>1. DOMAIN disk.index = {} /\ disk.applied = <<>> /\ up = "down"
      /\ prod.done = <<>> /\ prod.pc = "idle"
  BY DEF Init, EmptyFunction, Idle
<1> QED BY <1>1, RangeFacts DEF StoredInv, StoredTxsApplied

LEMMA NextStored == ASSUME Inv, StoredInv, MaxErrors = 0, [Next]_vars PROVE StoredInv'
<1>1. CASE Restore
  <2>1. /\ disk' = disk /\ disk.height > 0 /\ up' = "serving" /\ prod' = prod /\ up = "down"
        /\ mem'.applied = disk.applied /\ mem'.height = disk.height
    BY <1>1 DEF Restore
  <2>2. prod.pc = "idle" /\ Range(prod.done) \subseteq Range(mem.applied)
    BY <2>1 DEF Inv, Stage, StoredInv
  <2>3. prod.done = <<>>
    BY <2>1 DEF StoredInv
  <2> QED BY <2>1, <2>2, <2>3, RangeFacts DEF StoredInv, StoredTxsApplied
<1>2. CASE BootGenesis
  <2>1. /\ disk' = disk /\ disk.height = 0 /\ up' = "booting" /\ mem'.applied = <<>>
    BY <1>2 DEF BootGenesis
  <2>2. prod'.pc = "accounts" /\ prod'.done = <<>>
    BY <1>2 DEF BootGenesis, Idle
  <2> QED BY <2>1, <2>2, RangeFacts DEF StoredInv, StoredTxsApplied
<1>3. CASE Shutdown
  <2>1. disk' = disk /\ mem' = mem /\ up' = up
    BY <1>3 DEF Shutdown
  <2>2. prod'.pc = "accounts" /\ prod'.done = <<>>
    BY <1>3 DEF Shutdown, Idle
  <2> QED BY <2>1, <2>2, QuietStored
<1>4. CASE Crash
  BY <1>4, DownStored DEF Crash
<1>5. CASE UNCHANGED vars
  BY <1>5, QuietStored DEF vars
<1> QED BY <1>1, <1>2, <1>3, <1>4, <1>5, ProduceStored, SyncStored, RpcStored DEF Next, BlockLoop

\* A transaction the index knows is contained in the accounts on disk, at or below
\* the stored height, through any crash, race and funding, when no write fails.
THEOREM IndexedTxsApplied == ASSUME MaxErrors = 0 PROVE Spec => []StoredTxsApplied
<1>1. StoredInv => StoredTxsApplied
  BY DEF StoredInv
<1>2. Inv /\ StoredInv /\ [Next]_vars => StoredInv'
  BY NextStored
<1> QED BY <1>1, <1>2, InitInv, NextInv, InitStored, PTL DEF Spec

\* An index entry points to its transaction: in the list of its block, or in the
\* block in hand, whose list comes last.  A list that was never written stays
\* unwritten, because the next block has another height.
Points(t) ==
    LET h == disk.index[t][1]
        i == disk.index[t][2]
    IN /\ h \in DOMAIN disk.txs /\ i <= Len(disk.txs[h]) => disk.txs[h][i] = t
       /\ prod.pc = "index" /\ h = mem.height => prod.done[i] = t

LookupInv ==
    /\ prod.pc \in {"pop", "exec", "debit", "accounts", "block"} /\ prod.why = "block"
          => disk.height < mem.height
    /\ prod.pc = "index" => mem.height \notin DOMAIN disk.txs
    /\ \A h \in DOMAIN disk.txs : h <= disk.height
    /\ \A t \in DOMAIN disk.index : Points(t)

\* A step that writes no index entry and no list, and stays behind its height.
LEMMA QuietLookup ==
  ASSUME LookupInv, disk'.index = disk.index, disk'.txs = disk.txs, disk'.height = disk.height,
         prod'.pc # "index",
         prod'.pc \in {"pop", "exec", "debit", "accounts", "block"} /\ prod'.why = "block"
             => disk.height < mem'.height
  PROVE  LookupInv'
BY DEF LookupInv, Points

LEMMA SameLookup ==
  ASSUME LookupInv, disk'.index = disk.index, disk'.txs = disk.txs, disk'.height = disk.height,
         prod' = prod, mem'.height = mem.height
  PROVE  LookupInv'
BY DEF LookupInv, Points

LEMMA ProduceLookup ==
  ASSUME Inv, LookupInv,
         BeginBlock \/ PopConsensus \/ ExecuteTx \/ DebitSender \/ SealBlock
  PROVE  LookupInv'
<1>1. CASE BeginBlock
  <2>1. mem.height \in Nat /\ disk.height \in Nat /\ disk.height <= mem.height
    BY <1>1, ChainAssumption DEF BeginBlock, Inv, Shape, Stage
  <2>2. mem'.height = mem.height + 1 /\ disk' = disk /\ prod'.pc = "pop"
    BY <1>1 DEF BeginBlock, Inv, Shape, Idle
  <2>3. disk.height < mem'.height
    BY <2>1, <2>2
  <2> QED BY <2>2, <2>3, QuietLookup
<1>2. CASE PopConsensus \/ SealBlock
  <2>1. disk' = disk /\ mem' = mem /\ prod.pc \in {"pop", "exec"}
    BY <1>2 DEF PopConsensus, SealBlock
  <2>2. prod'.pc \in {"exec", "accounts"} /\ prod'.why = prod.why
    BY <1>2 DEF PopConsensus, SealBlock, Inv, Shape
  <2>3. prod.why = "block" => disk.height < mem'.height
    BY <2>1 DEF LookupInv
  <2> QED BY <2>1, <2>2, <2>3, QuietLookup
<1>3. CASE ExecuteTx
  <2>1. disk' = disk /\ prod.pc = "exec"
    BY <1>3 DEF ExecuteTx
  <2>2. mem'.height = mem.height
    BY <1>3 DEF ExecuteTx, Inv, Shape
  <2>3. prod'.pc \in {"debit", "exec"} /\ prod'.why = prod.why
    BY <1>3 DEF ExecuteTx, Inv, Shape
  <2>4. prod.why = "block" => disk.height < mem'.height
    BY <2>1, <2>2 DEF LookupInv
  <2> QED BY <2>1, <2>3, <2>4, QuietLookup
<1>4. CASE DebitSender
  <2>1. disk' = disk /\ prod.pc = "debit" /\ mem'.height = mem.height
    BY <1>4, DebitFacts DEF DebitSender
  <2>2. prod'.pc = "exec" /\ prod'.why = prod.why
    BY <1>4 DEF DebitSender, Inv, Shape
  <2>3. prod.why = "block" => disk.height < mem'.height
    BY <2>1 DEF LookupInv
  <2> QED BY <2>1, <2>2, <2>3, QuietLookup
<1> QED BY <1>1, <1>2, <1>3, <1>4

LEMMA SyncLookup ==
  ASSUME Inv, StoredInv, LookupInv, MaxErrors = 0,
         \/ SyncAccounts \/ SyncBlock \/ SyncFails
         \/ SaveTxIndex \/ SaveBlockTxs \/ SyncTxsFails
  PROVE  LookupInv'
<1>1. CASE SyncAccounts
  <2>1. mem' = mem /\ prod'.pc = "block" /\ prod'.why = prod.why /\ prod.pc = "accounts"
        /\ disk' = SaveAllAccounts(disk, mem)
    BY <1>1 DEF SyncAccounts, Inv, Shape
  <2>2. disk'.index = disk.index /\ disk'.height = disk.height /\ disk'.txs = disk.txs
    BY <2>1, SaveFacts DEF Inv, Shape
  <2>3. prod.why = "block" => disk.height < mem'.height
    BY <2>1 DEF LookupInv
  <2> QED BY <2>1, <2>2, <2>3, QuietLookup
<1>2. CASE SyncBlock
  <2>1. /\ disk'.index = disk.index /\ disk'.txs = disk.txs /\ disk'.height = mem.height
        /\ prod.pc = "block" /\ up # "down" /\ AfterSync(FALSE)
    BY <1>2, SyncBlockFacts
  <2>2. /\ disk.height <= mem.height /\ disk.height \in Nat /\ mem.height \in Nat
        /\ \A h \in DOMAIN disk.txs : h \in Nat
    <3>1. PICK S \in SUBSET (1 .. MaxHeight) : disk.txs \in [S -> TxSeq]
      BY DEF Inv, Shape, TxLists, Partial
    <3>2. \A h \in DOMAIN disk.txs : h \in 1 .. MaxHeight
      BY <3>1
    <3>3. \A h \in 1 .. MaxHeight : h \in Nat
      BY ChainAssumption
    <3>4. disk.height <= mem.height /\ disk.height \in Nat /\ mem.height \in Nat
      BY <2>1, ChainAssumption DEF Inv, Shape, Stage
    <3> QED BY <3>2, <3>3, <3>4
  <2>3. \A h \in DOMAIN disk.txs : h <= mem.height
    BY <2>2 DEF LookupInv
  <2>4. CASE /\ prod.why = "block" /\ UNCHANGED <<up, mem, pool, rpc>>
             /\ prod'.pc = (IF prod.done = <<>> THEN "idle" ELSE "index")
             /\ prod'.done = prod.done
    <3>1. disk.height < mem.height
      BY <2>1, <2>4 DEF LookupInv
    <3>2. mem.height \notin DOMAIN disk.txs
      BY <2>2, <3>1 DEF LookupInv
    <3>3. \A t \in DOMAIN disk.index : disk.index[t][1] # mem.height
      <4> SUFFICES ASSUME NEW t \in DOMAIN disk.index PROVE disk.index[t][1] # mem.height
        OBVIOUS
      <4>1. disk.index[t][1] <= disk.height /\ disk.index[t][1] \in Nat
        BY IndexFacts DEF StoredInv, StoredTxsApplied
      <4> QED BY <2>2, <3>1, <4>1
    <3> QED BY <2>1, <2>3, <2>4, <3>2, <3>3 DEF LookupInv, Points
  <2>5. CASE prod' = Idle
    <3>1. prod'.pc = "idle"
      BY <2>5 DEF Idle
    <3> QED BY <2>1, <2>3, <3>1 DEF LookupInv, Points
  <2> QED BY <2>1, <2>4, <2>5, AfterSyncFacts
<1>3. CASE SyncFails \/ SyncTxsFails
  BY <1>3, NoErrors DEF SyncFails, SyncTxsFails
<1>4. CASE SaveTxIndex
  <2> DEFINE t == prod.done[prod.next]
  <2>1. /\ prod.pc = "index" /\ mem' = mem /\ prod'.pc = prod.pc /\ prod'.done = prod.done
        /\ disk'.txs = disk.txs /\ disk'.height = disk.height
        /\ DOMAIN disk'.index = DOMAIN disk.index \cup {t}
        /\ disk'.index[t] = <<mem.height, prod.next>>
        /\ \A u \in DOMAIN disk.index \ {t} : disk'.index[u] = disk.index[u]
    BY <1>4, SaveTxIndexFacts
  <2>2. mem.height \notin DOMAIN disk.txs
    BY <2>1 DEF LookupInv
  <2>3. ASSUME NEW u \in DOMAIN disk'.index PROVE Points(u)'
    <3>1. CASE u = t
      <4>1. disk'.index[u] = <<mem.height, prod.next>> /\ prod'.done[prod.next] = u
        BY <2>1, <3>1
      <4>2. disk'.index[u][1] = mem.height /\ disk'.index[u][2] = prod.next
        BY <4>1
      <4>3. disk'.index[u][1] \notin DOMAIN disk'.txs /\ prod'.done[disk'.index[u][2]] = u
        BY <2>1, <2>2, <4>1, <4>2
      <4> QED BY <4>3 DEF Points
    <3>2. CASE u # t
      <4>1. u \in DOMAIN disk.index /\ disk'.index[u] = disk.index[u]
        BY <2>1, <3>2
      <4>2. Points(u)
        BY <4>1 DEF LookupInv
      <4> QED BY <2>1, <4>1, <4>2 DEF Points
    <3> QED BY <3>1, <3>2
  <2> QED BY <2>1, <2>2, <2>3 DEF LookupInv
<1>5. CASE SaveBlockTxs
  <2>1. /\ prod.pc = "index" /\ prod' = Idle /\ mem' = mem
        /\ disk'.height = disk.height /\ disk'.index = disk.index
        /\ DOMAIN disk'.txs = DOMAIN disk.txs \cup {mem.height}
        /\ disk'.txs[mem.height] = prod.done
        /\ \A h \in DOMAIN disk.txs \ {mem.height} : disk'.txs[h] = disk.txs[h]
    BY <1>5, SaveBlockTxsFacts
  <2>2. prod'.pc = "idle" /\ mem.height <= disk.height
    BY <2>1, ChainAssumption DEF Idle, StoredInv, Inv, Shape
  <2>3. ASSUME NEW u \in DOMAIN disk.index PROVE Points(u)'
    <3> DEFINE h == disk.index[u][1]
               i == disk.index[u][2]
    <3>1. /\ h \in DOMAIN disk.txs /\ i <= Len(disk.txs[h]) => disk.txs[h][i] = u
          /\ h = mem.height => prod.done[i] = u
      BY <2>1 DEF LookupInv, Points
    <3>2. h \in DOMAIN disk'.txs /\ i <= Len(disk'.txs[h]) => disk'.txs[h][i] = u
      <4>1. CASE h = mem.height
        BY <2>1, <3>1, <4>1
      <4>2. CASE h # mem.height
        BY <2>1, <3>1, <4>2
      <4> QED BY <4>1, <4>2
    <3> QED BY <2>1, <2>2, <3>2 DEF Points
  <2> QED BY <2>1, <2>2, <2>3 DEF LookupInv
<1> QED BY <1>1, <1>2, <1>3, <1>4, <1>5

LEMMA NextLookup ==
  ASSUME Inv, StoredInv, LookupInv, MaxErrors = 0, [Next]_vars
  PROVE  LookupInv'
<1>1. CASE Restore
  <2>1. disk' = disk /\ prod' = prod /\ prod.pc = "idle"
    BY <1>1 DEF Restore, Inv, Stage
  <2> QED BY <2>1, QuietLookup
<1>2. CASE BootGenesis \/ Shutdown \/ Crash
  <2>0. disk' = disk
    BY <1>2 DEF BootGenesis, Shutdown, Crash
  <2>1. CASE BootGenesis
    <3>1. prod'.pc = "accounts" /\ prod'.why = "genesis"
      BY <2>1 DEF BootGenesis, Idle
    <3> QED BY <2>0, <3>1, QuietLookup
  <2>2. CASE Shutdown
    <3>1. prod'.pc = "accounts" /\ prod'.why = "shutdown"
      BY <2>2 DEF Shutdown, Idle
    <3> QED BY <2>0, <3>1, QuietLookup
  <2>3. CASE Crash
    <3>1. prod'.pc = "idle"
      BY <2>3 DEF Crash, Idle
    <3> QED BY <2>0, <3>1, QuietLookup
  <2> QED BY <1>2, <2>1, <2>2, <2>3
<1>3. CASE Rpc
  <2>1. CASE UNCHANGED <<up, mem, prod, disk>>
    BY <2>1, SameLookup
  <2>2. CASE FundGenesis
    <3>1. /\ prod' = prod /\ mem'.height = mem.height /\ mem' \in Chains
          /\ disk' = SaveAllAccounts(disk, mem')
      BY <2>2, FundFacts, NoErrors
    <3>2. disk'.txs = disk.txs /\ disk'.index = disk.index /\ disk'.height = disk.height
      BY <3>1, SaveFacts
    <3> QED BY <3>1, <3>2, SameLookup
  <2>3. ASSUME NEW d \in rpc.deploys, DeployCode(d) PROVE LookupInv'
    <3>1. prod' = prod /\ mem'.height = mem.height /\ disk' = disk
      BY <2>3, DeployFacts
    <3> QED BY <3>1, SameLookup
  <2> QED BY <1>3, <2>1, <2>2, <2>3, RpcCases
<1>4. CASE UNCHANGED vars
  BY <1>4, SameLookup DEF vars
<1> QED BY <1>1, <1>2, <1>3, <1>4, ProduceLookup, SyncLookup DEF Next, BlockLoop

\* LoadTxFromStore returns the transaction that was asked for or nothing, through
\* crashes that leave an index without its list, when no write fails.
THEOREM LookupsAreSound == ASSUME MaxErrors = 0 PROVE Spec => []LookupSound
<1>1. Init => LookupInv
  <2> SUFFICES ASSUME Init PROVE LookupInv
    OBVIOUS
  <2>1. DOMAIN disk.index = {} /\ DOMAIN disk.txs = {} /\ prod.pc = "idle"
    BY DEF Init, EmptyFunction, Idle
  <2> QED BY <2>1 DEF LookupInv
<1>2. Inv /\ StoredInv /\ LookupInv /\ [Next]_vars => LookupInv'
  BY NextLookup
<1>3. Inv /\ StoredInv /\ [Next]_vars => StoredInv'
  BY NextStored
<1>4. LookupInv => LookupSound
  BY DEF LookupInv, LookupSound, Lookup, Points
<1> QED BY <1>1, <1>2, <1>3, <1>4, InitInv, NextInv, InitStored, PTL DEF Spec

-----------------------------------------------------------------------------
(* Balances *)

\* What executing t takes from the balance of a, where revm writes to the sender,
\* and what executing it changes, before the sender is debited.
Taken(t, a) ==
    IF t.from = a /\ RevmRuns(t) /\ Image[a] = a
      THEN t.gasUsed + (IF t.kind = "call" /\ t.to = a THEN 0 ELSE t.value) ELSE 0
Received(t, a) ==
    IF /\ t.to = a /\ t.from # a
       /\ t.kind = "transfer" \/ (t.kind = "call" /\ t.ok /\ Image[a] = a)
      THEN t.value ELSE 0
Credit(t, a) == Received(t, a) - Taken(t, a)

LEMMA CreditFacts ==
  ASSUME NEW t \in Txs, NEW a \in Accounts
  PROVE  /\ Received(t, a) \in Nat /\ Taken(t, a) \in Nat
         /\ Credit(t, a) \in Int /\ Delta(t, a) \in Int
         /\ Delta(t, a) = Credit(t, a) - (IF t.from = a THEN GasUsed(t) + t.value ELSE 0)
<1>1. Received(t, a) \in Nat
  BY TxFacts DEF Received
<1>2. Taken(t, a) \in Nat
  BY TxFacts DEF Taken
<1> DEFINE c == IF t.from = a THEN GasUsed(t) + t.value ELSE 0
<1>3. c \in Nat
  BY TxFacts
<1>4. Delta(t, a) = Received(t, a) - (c + Taken(t, a))
  BY DEF Delta, Received, Taken
<1> HIDE DEF c
<1>5. Credit(t, a) \in Int /\ Delta(t, a) \in Int /\ Delta(t, a) = Credit(t, a) - c
  BY <1>1, <1>2, <1>3, <1>4 DEF Credit
<1> QED BY <1>1, <1>2, <1>5 DEF c

LEMMA BalanceIsInt ==
  ASSUME NEW acc \in Ledger, NEW a \in Accounts
  PROVE  acc[a] \in Account /\ acc[a].balance \in Int /\ acc[a].funded \in Int
BY DEF Ledger, Account

\* What execution does to the balance of an account that is nobody else's image.
LEMMA ExecuteCredits ==
  ASSUME NEW acc \in Ledger, NEW t \in Txs, NEW a \in Accounts, Own(a)
  PROVE  /\ Execute(t, acc)[a].balance = acc[a].balance + Credit(t, a)
         /\ Execute(t, acc)[a].funded = acc[a].funded
<1>1. /\ t.from \in Accounts /\ t.to \in Accounts /\ t.value \in Nat /\ t.gasUsed \in Nat
      /\ t.kind \in {"transfer", "precompile", "call", "deploy"} /\ t.ok \in BOOLEAN
  BY TxFacts
<1>2. /\ acc[a] \in Account /\ acc[a].balance \in Int
      /\ acc[a].balance + 0 = acc[a].balance /\ acc[a].balance + (0 - 0) = acc[a].balance
  BY <1>1, BalanceIsInt
<1>3. CASE t.kind = "transfer" /\ t.from # t.to
  <2>1. Execute(t, acc) = [acc EXCEPT ![t.to].balance = @ + t.value]
    BY <1>3 DEF Execute
  <2>2. Received(t, a) = (IF a = t.to THEN t.value ELSE 0) /\ Taken(t, a) = 0
    BY <1>3 DEF Received, Taken, RevmRuns
  <2>3. Execute(t, acc)[a] = IF a = t.to THEN [acc[a] EXCEPT !.balance = @ + t.value] ELSE acc[a]
    BY <1>1, <2>1 DEF Ledger
  <2>4. Credit(t, a) = IF a = t.to THEN t.value ELSE 0
    BY <1>1, <2>2 DEF Credit
  <2> QED BY <1>1, <1>2, <2>3, <2>4 DEF Account
<1>4. CASE t.kind \in {"call", "deploy"} /\ t.ok
  <2>1. Execute(t, acc) = ApplyRevm(t, acc)
    BY <1>4 DEF Execute
  <2>2. (Image[t.from] = a => t.from = a) /\ (Image[t.to] = a => t.to = a)
    BY <1>1 DEF Own
  <2>3. CASE a = t.to /\ t.from # a /\ t.kind = "call" /\ Image[a] = a
    <3>1. a = Image[t.to] /\ Image[t.to] # Image[t.from]
      BY <2>2, <2>3
    <3>2. ApplyRevm(t, acc)[a] =
              [acc[a] EXCEPT !.balance = acc[t.to].balance + t.value, !.nonce = acc[t.to].nonce]
      BY <2>3, <3>1 DEF ApplyRevm
    <3>3. Received(t, a) = t.value /\ Taken(t, a) = 0
      BY <1>4, <2>3 DEF Received, Taken
    <3>4. Credit(t, a) = t.value
      BY <1>1, <3>3 DEF Credit
    <3> QED BY <1>2, <2>1, <2>3, <3>2, <3>4 DEF Account
  <2>4. CASE t.from = a /\ Image[a] = a
    <3> DEFINE v == IF t.kind = "call" /\ t.to = a THEN 0 ELSE t.value
               b == acc[a].balance - t.gasUsed - v
    <3>1. ~(a = Image[t.to] /\ Image[t.to] # Image[t.from])
      BY <2>4
    <3>2. ApplyRevm(t, acc)[a] =
              [acc[a] EXCEPT !.balance = b, !.nonce = IF a = t.from THEN @ ELSE acc[t.from].nonce + 1]
      BY <2>4, <3>1 DEF ApplyRevm
    <3>3. Received(t, a) = 0 /\ Taken(t, a) = t.gasUsed + v
      BY <1>4, <2>4 DEF Received, Taken, RevmRuns
    <3>4. v \in Nat
      BY <1>1
    <3> HIDE DEF v
    <3>5. b = acc[a].balance + Credit(t, a)
      BY <1>1, <1>2, <3>3, <3>4 DEF Credit
    <3> HIDE DEF b
    <3> QED BY <1>2, <2>1, <3>2, <3>5 DEF Account
  <2>5. CASE /\ ~(a = t.to /\ t.from # a /\ t.kind = "call" /\ Image[a] = a)
             /\ ~(t.from = a /\ Image[a] = a)
    <3>1. a # Image[t.from] /\ ~(a = Image[t.to] /\ t.kind = "call" /\ Image[t.to] # Image[t.from])
      BY <2>2, <2>5
    <3>2. ApplyRevm(t, acc)[a] = acc[a]
      BY <3>1 DEF ApplyRevm
    <3>3. Received(t, a) = 0 /\ Taken(t, a) = 0
      BY <1>4, <2>5 DEF Received, Taken
    <3> QED BY <1>2, <2>1, <3>2, <3>3 DEF Credit
  <2> QED BY <2>3, <2>4, <2>5
<1>5. CASE ~(t.kind = "transfer" /\ t.from # t.to) /\ ~(t.kind \in {"call", "deploy"} /\ t.ok)
  <2>1. Execute(t, acc) = acc
    BY <1>5 DEF Execute
  <2>2. Received(t, a) = 0 /\ Taken(t, a) = 0
    BY <1>5 DEF Received, Taken, RevmRuns
  <2> QED BY <1>2, <2>1, <2>2 DEF Credit
<1> QED BY <1>3, <1>4, <1>5

\* A transaction more to be covered.
LEMMA CoveredAppend ==
  ASSUME NEW q \in TxSeq, NEW t \in Txs, NEW a \in Accounts
  PROVE  AllCovered(a, Append(q, t)) => AllCovered(a, q) /\ (t.from = a => Covered(t))
<1>1. q \in Seq(Txs)
  BY DEF TxSeq
<1>2. /\ DOMAIN Append(q, t) = DOMAIN q \cup {Len(q) + 1} /\ Append(q, t)[Len(q) + 1] = t
      /\ \A i \in DOMAIN q : Append(q, t)[i] = q[i]
  BY <1>1
<1> QED BY <1>2 DEF AllCovered

\* The sender of the transaction in hand still has what it will be charged.
Solvent ==
    /\ NobodyOverdrawn
    /\ prod.pc = "debit" /\ AllCovered(prod.tx.from, Begun) =>
          mem.acc[prod.tx.from].balance >= GasUsed(prod.tx) + prod.tx.value

LEMMA QuietSolvent ==
  ASSUME Solvent, mem'.acc = mem.acc, mem'.applied = mem.applied,
         prod.pc # "debit", prod'.pc # "debit",
         \/ disk'.acc = disk.acc /\ disk'.applied = disk.applied
         \/ disk'.acc = mem.acc /\ disk'.applied = mem.applied
  PROVE  Solvent'
<1>1. Begun = mem.applied /\ Begun' = mem.applied
  BY DEF Begun
<1> QED BY <1>1 DEF Solvent, NobodyOverdrawn

\* A ledger in memory without a sign, over an unchanged database.
LEMMA LoadedSolvent ==
  ASSUME Solvent, \A a \in Accounts : mem'.acc[a].balance >= 0,
         disk'.acc = disk.acc, disk'.applied = disk.applied, prod'.pc # "debit"
  PROVE  Solvent'
BY DEF Solvent, NobodyOverdrawn

LEMMA AfterSyncSolvent ==
  ASSUME Inv, Solvent, NEW failed \in BOOLEAN, AfterSync(failed),
         prod.pc \in {"accounts", "block"}, disk'.acc = disk.acc, disk'.applied = disk.applied
  PROVE  Solvent'
<1>1. CASE UNCHANGED mem /\ prod'.pc = (IF prod.done = <<>> THEN "idle" ELSE "index")
  BY <1>1, QuietSolvent
<1>2. CASE mem'.acc = FundDev(mem.acc) /\ mem'.applied = mem.applied /\ prod' = Idle
  <2>1. \A a \in Accounts : mem.acc[a].balance >= 0 => FundDev(mem.acc)[a].balance >= 0
    BY FundDevFacts DEF Inv, Shape
  <2>2. prod'.pc = "idle" /\ Begun = mem.applied /\ Begun' = mem.applied
    BY <1>2 DEF Idle, Begun
  <2> QED BY <1>2, <2>1, <2>2 DEF Solvent, NobodyOverdrawn
<1>3. CASE mem' = EmptyMem /\ prod' = Idle
  BY <1>3, LoadedSolvent, GenesisFacts DEF EmptyMem, Idle
<1> QED BY <1>1, <1>2, <1>3, AfterSyncFacts

LEMMA ProduceSolvent ==
  ASSUME Inv, Solvent,
         BeginBlock \/ PopConsensus \/ ExecuteTx \/ DebitSender \/ SealBlock
  PROVE  Solvent'
<1>0. mem.acc \in Ledger /\ mem.applied \in TxSeq
  BY DEF Inv, Shape
<1>1. CASE BeginBlock \/ PopConsensus \/ SealBlock
  <2>1. mem'.acc = mem.acc /\ mem'.applied = mem.applied /\ disk' = disk
    BY <1>1, SMTT(30) DEF BeginBlock, PopConsensus, SealBlock, Inv, Shape
  <2>2. prod'.pc \in {"pop", "exec", "accounts"} /\ prod.pc # "debit"
    BY <1>1 DEF BeginBlock, PopConsensus, SealBlock, Inv, Shape, Idle
  <2> QED BY <2>1, <2>2, QuietSolvent
<1>2. CASE ExecuteTx
  <2> DEFINE t == Head(prod.batch)
  <2>1. prod.batch \in Seq(Txs) /\ prod.batch # <<>> /\ disk' = disk /\ prod.pc = "exec"
    BY <1>2 DEF ExecuteTx, Inv, Shape, TxSeq
  <2>2. t \in Txs
    BY <2>1
  <2>3. CASE ~Executable(t, mem.acc)
    <3>1. mem' = mem /\ prod'.pc = "exec"
      BY <1>2, <2>3 DEF ExecuteTx, Inv, Shape
    <3> QED BY <2>1, <3>1, QuietSolvent
  <2>4. CASE Executable(t, mem.acc)
    <3>1. /\ mem'.acc = Execute(t, mem.acc) /\ mem'.applied = mem.applied
          /\ prod'.tx = t /\ prod'.pc = "debit"
      BY <1>2, <2>4 DEF ExecuteTx, Inv, Shape
    <3> HIDE DEF t
    <3>2. Begun = mem.applied /\ Begun' = Append(mem.applied, t)
      BY <2>1, <3>1 DEF Begun
    <3>3. ASSUME NEW a \in Accounts, AllCovered(a, Begun')
          PROVE  /\ mem'.acc[a].balance >= 0
                 /\ t.from = a => mem'.acc[a].balance >= GasUsed(t) + t.value
      <4>1. AllCovered(a, mem.applied) /\ (t.from = a => Covered(t)) /\ Own(a)
        BY <1>0, <2>2, <3>2, <3>3, CoveredAppend DEF AllCovered
      <4>2. mem.acc[a].balance >= 0 /\ mem.acc[a].balance \in Int
        BY <1>0, <3>2, <4>1, BalanceIsInt DEF Solvent, NobodyOverdrawn
      <4>3. mem'.acc[a].balance = mem.acc[a].balance + Credit(t, a)
        BY <1>0, <2>2, <3>1, <4>1, ExecuteCredits
      <4>4. Taken(t, a) = 0
        BY <4>1 DEF Taken, Covered
      <4>5. Credit(t, a) \in Nat
        BY <2>2, <4>4, CreditFacts DEF Credit
      <4>6. t.from = a => mem.acc[a].balance >= t.gasLimit + t.value /\ GasUsed(t) <= t.gasLimit
        BY <2>4, <4>1 DEF Executable, Covered
      <4>7. GasUsed(t) \in Nat /\ t.gasLimit \in Nat /\ t.value \in Nat
        BY <2>2, TxFacts
      <4> QED BY <4>2, <4>3, <4>5, <4>6, <4>7
    <3>4. t.from \in Accounts
      BY <2>2, TxFacts
    <3> QED BY <2>1, <3>1, <3>3, <3>4 DEF Solvent, NobodyOverdrawn
  <2> QED BY <2>3, <2>4
<1>3. CASE DebitSender
  <2> DEFINE t == prod.tx
  <2>1. /\ t \in Txs /\ prod.pc = "debit" /\ mem'.applied = Append(mem.applied, t)
        /\ mem'.acc[t.from].balance = mem.acc[t.from].balance - (GasUsed(t) + t.value)
        /\ \A a \in Accounts \ {t.from} : mem'.acc[a] = mem.acc[a]
    BY <1>3, DebitFacts
  <2>2. disk' = disk /\ prod'.pc = "exec"
    BY <1>3 DEF DebitSender, Inv, Shape
  <2>3. Begun = Append(mem.applied, t) /\ Begun' = Begun
    BY <2>1, <2>2 DEF Begun
  <2>4. AllCovered(t.from, Begun) => mem.acc[t.from].balance >= GasUsed(t) + t.value
    BY <2>1 DEF Solvent
  <2>5. t.from \in Accounts /\ GasUsed(t) \in Nat /\ t.value \in Nat /\ mem.acc[t.from].balance \in Int
    BY <1>0, <2>1, TxFacts, BalanceIsInt
  <2> HIDE DEF t
  <2>6. AllCovered(t.from, Begun) => mem'.acc[t.from].balance >= 0
    BY <2>1, <2>4, <2>5
  <2>7. \A a \in Accounts : AllCovered(a, Begun) => mem'.acc[a].balance >= 0
    BY <2>1, <2>6 DEF Solvent, NobodyOverdrawn
  <2> QED BY <2>2, <2>3, <2>7 DEF Solvent, NobodyOverdrawn
<1> QED BY <1>1, <1>2, <1>3

LEMMA NextSolvent ==
  ASSUME MaxFunds = 0, Inv, Solvent, [Next]_vars PROVE Solvent'
<1>1. CASE Restore
  <2>1. disk.acc \in Ledger /\ prod.pc = "idle"
    BY <1>1 DEF Restore, Inv, Shape, Stage
  <2>2. /\ Deserialize(disk.acc) \in Ledger
        /\ \A a \in Accounts : Deserialize(disk.acc)[a].balance >= 0
    BY <2>1, DeserializeFacts
  <2>3. \A a \in Accounts : FundDev(Deserialize(disk.acc))[a].balance >= 0
    BY <2>2, FundDevFacts
  <2>4. mem'.acc = FundDev(Deserialize(disk.acc)) /\ disk' = disk /\ prod' = prod
    BY <1>1 DEF Restore
  <2> QED BY <2>1, <2>3, <2>4, LoadedSolvent
<1>2. CASE BootGenesis
  BY <1>2, LoadedSolvent, GenesisFacts DEF BootGenesis, Idle
<1>3. CASE Crash
  BY <1>3, LoadedSolvent, GenesisFacts DEF Crash, EmptyMem, Idle
<1>4. CASE Shutdown
  BY <1>4, QuietSolvent DEF Shutdown, Idle
<1>5. CASE SyncAccounts
  <2>1. mem' = mem /\ prod'.pc = "block" /\ prod.pc = "accounts" /\ disk' = SaveAllAccounts(disk, mem)
    BY <1>5 DEF SyncAccounts, Inv, Shape
  <2>2. disk'.acc = mem.acc /\ disk'.applied = mem.applied
    BY <2>1, SaveFacts DEF Inv, Shape
  <2> QED BY <2>1, <2>2, QuietSolvent
<1>6. CASE SyncBlock
  <2>1. /\ disk'.acc = disk.acc /\ disk'.applied = disk.applied
        /\ AfterSync(FALSE) /\ prod.pc = "block"
    BY <1>6, SyncBlockFacts
  <2> QED BY <2>1, AfterSyncSolvent
<1>7. CASE SyncFails
  <2>1. disk' = disk /\ AfterSync(TRUE) /\ prod.pc \in {"accounts", "block"}
    BY <1>7 DEF SyncFails
  <2> QED BY <2>1, AfterSyncSolvent
<1>8. CASE SaveTxIndex
  <2>1. /\ mem' = mem /\ disk'.acc = disk.acc /\ disk'.applied = disk.applied
        /\ prod'.pc = prod.pc /\ prod.pc = "index"
    BY <1>8, SaveTxIndexFacts
  <2> QED BY <2>1, QuietSolvent
<1>9. CASE SaveBlockTxs
  <2>1. /\ mem' = mem /\ disk'.acc = disk.acc /\ disk'.applied = disk.applied
        /\ prod'.pc = "idle" /\ prod.pc = "index"
    BY <1>9, SaveBlockTxsFacts DEF Idle
  <2> QED BY <2>1, QuietSolvent
<1>10. CASE SyncTxsFails
  BY <1>10, QuietSolvent DEF SyncTxsFails, Idle
<1>11. CASE UNCHANGED <<up, mem, prod, disk>> \/ UNCHANGED vars
  <2>1. UNCHANGED <<mem, prod, disk>>
    BY <1>11 DEF vars
  <2> QED BY <2>1 DEF Solvent, NobodyOverdrawn, Begun
<1>12. ~FundGenesis
  BY DEF FundGenesis, Inv, Stage
<1>13. ASSUME NEW d \in rpc.deploys, DeployCode(d) PROVE Solvent'
  <2>1. /\ UNCHANGED <<prod, disk>> /\ mem'.applied = mem.applied
        /\ \A a \in Accounts : mem'.acc[a].balance = mem.acc[a].balance
    BY <1>13, DeployFacts
  <2>2. Begun' = Begun /\ (prod.pc = "debit" => prod.tx.from \in Accounts)
    BY <2>1, TxFacts DEF Begun, Inv, Stage
  <2> QED BY <2>1, <2>2 DEF Solvent, NobodyOverdrawn
<1> QED BY <1>1, <1>2, <1>3, <1>4, <1>5, <1>6, <1>7, <1>8, <1>9, <1>10, <1>11, <1>12, <1>13,
           ProduceSolvent, RpcCases DEF Next, BlockLoop

LEMMA InitSolvent == Init => Solvent
BY GenesisFacts DEF Init, Solvent, NobodyOverdrawn, EmptyMem, Idle

\* Every variable keeps its type, for any accounts, transactions and bounds.
THEOREM TypesKept == Spec => []TypeOK
<1>1. ASSUME NEW D, NEW V, NEW f \in Partial(D, V) PROVE DOMAIN f \subseteq D
  BY DEF Partial
<1>2. Inv => TypeOK
  <2> SUFFICES ASSUME Inv PROVE TypeOK
    OBVIOUS
  <2>1. mem.acc \in AccountsType /\ disk.acc \in AccountsType
    BY DEF Inv, Shape, Ledger, Account, AccountsType
  <2>2. \A l \in DOMAIN pool : pool[l] \in TxSeq
    BY DEF Inv, Shape
  <2>3. DOMAIN disk.index \subseteq Txs /\ DOMAIN disk.txs \subseteq 1 .. MaxHeight
    BY <1>1 DEF Inv, Shape, Indexes, TxLists
  <2> QED BY <2>1, <2>2, <2>3 DEF Inv, Shape, TypeOK
<1> QED BY <1>2, InitInv, NextInv, PTL DEF Spec

\* An account that sent only transactions the check covers never goes below zero,
\* in memory or on disk: its funds are checked again when its transaction is
\* executed, and nothing but a credit can come between that check and the debit
\* while way_fundGenesis is not called.
THEOREM CoveredNotOverdrawn == ASSUME MaxFunds = 0 PROVE Spec => []NobodyOverdrawn
<1>1. Inv /\ Solvent /\ [Next]_vars => Solvent'
  BY NextSolvent
<1>2. Solvent => NobodyOverdrawn
  BY DEF Solvent
<1> QED BY <1>1, <1>2, InitInv, NextInv, InitSolvent, PTL DEF Spec

-----------------------------------------------------------------------------
(* The balances on disk, when only Sync saves them *)

LEMMA EffectOfNothing == ASSUME NEW a PROVE Effect(<<>>, a) = 0
<1>1. DOMAIN <<>> = {}
  OBVIOUS
<1> QED BY <1>1, SumEmpty DEF Effect

LEMMA EffectIsInt ==
  ASSUME NEW q \in TxSeq, NEW a \in Accounts PROVE Effect(q, a) \in Int
<1> DEFINE f == [i \in DOMAIN q |-> Delta(q[i], a)]
<1>1. \A i \in DOMAIN q : f[i] \in Int
  BY SeqFacts, CreditFacts
<1>2. IsFiniteSet(DOMAIN q)
  BY SeqFacts, FS_Interval
<1> HIDE DEF f
<1>3. SumFunctionOnSet(f, DOMAIN q) \in Int
  BY <1>1, <1>2, SumIsInt
<1> QED BY <1>3 DEF Effect, f

\* One more transaction.
LEMMA EffectOfAppend ==
  ASSUME NEW q \in TxSeq, NEW t \in Txs, NEW a \in Accounts
  PROVE  Effect(Append(q, t), a) = Effect(q, a) + Delta(t, a)
<1> DEFINE p == Append(q, t)
           n == Len(q) + 1
           f == [i \in DOMAIN q |-> Delta(q[i], a)]
           g == [i \in DOMAIN p |-> Delta(p[i], a)]
<1>1. DOMAIN q = 1 .. Len(q) /\ Len(q) \in Nat /\ \A i \in DOMAIN q : q[i] \in Txs
  BY SeqFacts
<1>2. DOMAIN p = 1 .. n /\ p[n] = t /\ \A i \in DOMAIN q : p[i] = q[i]
  BY <1>1 DEF TxSeq
<1>3. DOMAIN p = DOMAIN q \cup {n} /\ n \notin DOMAIN q
  BY <1>1, <1>2
<1>4. IsFiniteSet(DOMAIN q)
  BY <1>1, FS_Interval
<1>5. g[n] = Delta(t, a) /\ \A i \in DOMAIN q : g[i] = f[i] /\ f[i] \in Int
  BY <1>1, <1>2, <1>3, CreditFacts
<1>6. Delta(t, a) \in Int
  BY CreditFacts
<1> HIDE DEF p, n, f, g
<1>7. \A i \in DOMAIN q \cup {n} : g[i] \in Int
  BY <1>5, <1>6
<1>8. SumFunctionOnSet(g, DOMAIN p) = SumFunctionOnSet(g, DOMAIN q) + g[n]
  BY <1>3, <1>4, <1>7, SumPut
<1>9. SumFunctionOnSet(g, DOMAIN q) = SumFunctionOnSet(f, DOMAIN q)
  BY <1>4, <1>5, SumSame
<1> QED BY <1>5, <1>8, <1>9 DEF Effect, p, f, g

\* Between execution and debit the ledger in memory holds a credit that is not
\* yet accounted for.
Pending(a) == IF prod.pc = "debit" THEN Credit(prod.tx, a) ELSE 0

MoneyInv ==
    /\ \A a \in Accounts :
          AllCovered(a, mem.applied) =>
              mem.acc[a].balance = mem.acc[a].funded + (Effect(mem.applied, a) + Pending(a))
    /\ DiskExplained

\* With nothing pending, the ledger in memory is explained too.
LEMMA SettledMoney ==
  ASSUME Inv, prod.pc # "debit"
  PROVE  MoneyInv <=> Explained(mem.acc, mem.applied) /\ DiskExplained
<1>1. \A a \in Accounts : Pending(a) = 0 /\ Effect(mem.applied, a) \in Int
  BY EffectIsInt DEF Pending, Inv, Shape
<1> QED BY <1>1 DEF MoneyInv, Explained

\* Accounts whose balance and funding move together stay explained.
LEMMA ExplainedKept ==
  ASSUME NEW acc \in Ledger, NEW new \in Ledger, NEW q \in TxSeq,
         Explained(acc, q),
         \A a \in Accounts : AllCovered(a, q) =>
             new[a].balance - new[a].funded = acc[a].balance - acc[a].funded
  PROVE  Explained(new, q)
<1> SUFFICES ASSUME NEW a \in Accounts, AllCovered(a, q) PROVE new[a].balance = new[a].funded + Effect(q, a)
  BY DEF Explained
<1>1. /\ acc[a].balance \in Int /\ acc[a].funded \in Int /\ new[a].balance \in Int
      /\ new[a].funded \in Int /\ Effect(q, a) \in Int
  BY BalanceIsInt, EffectIsInt
<1>2. /\ acc[a].balance = acc[a].funded + Effect(q, a)
      /\ new[a].balance - new[a].funded = acc[a].balance - acc[a].funded
  BY DEF Explained
<1> QED BY <1>1, <1>2

LEMMA GenesisExplained == Explained(Genesis, <<>>)
<1> SUFFICES ASSUME NEW a \in Accounts
             PROVE  Genesis[a].balance = Genesis[a].funded + Effect(<<>>, a)
  BY DEF Explained
<1>1. Genesis[a].balance = Genesis[a].funded /\ Genesis[a].funded \in Int
  BY GenesisFacts, BalanceIsInt
<1> QED BY <1>1, EffectOfNothing

LEMMA QuietMoney ==
  ASSUME Inv, Inv', MoneyInv, prod.pc # "debit", prod'.pc # "debit",
         mem'.acc = mem.acc, mem'.applied = mem.applied,
         \/ disk'.acc = disk.acc /\ disk'.applied = disk.applied
         \/ disk'.acc = mem.acc /\ disk'.applied = mem.applied
  PROVE  MoneyInv'
<1>1. Explained(mem.acc, mem.applied) /\ Explained(disk.acc, disk.applied)
  BY SettledMoney DEF DiskExplained
<1>2. Explained(mem'.acc, mem'.applied) /\ Explained(disk'.acc, disk'.applied)
  BY <1>1
<1>3. \A a \in Accounts : Pending(a)' = 0 /\ Effect(mem'.applied, a) \in Int
  BY EffectIsInt DEF Pending, Inv, Shape
<1> QED BY <1>2, <1>3 DEF MoneyInv, DiskExplained, Explained

\* Any ledger in memory that is explained, over an unchanged database.
LEMMA LoadedMoney ==
  ASSUME Inv', DiskExplained, disk' = disk \/ (disk'.acc = disk.acc /\ disk'.applied = disk.applied),
         Explained(mem'.acc, mem'.applied), prod'.pc # "debit"
  PROVE  MoneyInv'
<1>1. \A a \in Accounts : Pending(a)' = 0 /\ Effect(mem'.applied, a) \in Int
  BY EffectIsInt DEF Pending, Inv, Shape
<1> QED BY <1>1 DEF MoneyInv, DiskExplained, Explained

LEMMA AfterSyncMoney ==
  ASSUME Inv, Inv', MoneyInv, NEW failed \in BOOLEAN, AfterSync(failed),
         prod.pc \in {"accounts", "block"},
         disk'.acc = disk.acc /\ disk'.applied = disk.applied
  PROVE  MoneyInv'
<1>0. Explained(mem.acc, mem.applied) /\ DiskExplained
  BY SettledMoney
<1>1. CASE UNCHANGED mem /\ prod'.pc = (IF prod.done = <<>> THEN "idle" ELSE "index")
  BY <1>1, QuietMoney
<1>2. CASE mem'.acc = FundDev(mem.acc) /\ mem'.applied = mem.applied /\ prod' = Idle
  <2>1. Explained(mem'.acc, mem'.applied)
    <3>1. mem.acc \in Ledger /\ mem.applied \in TxSeq
      BY DEF Inv, Shape
    <3>2. /\ FundDev(mem.acc) \in Ledger
          /\ \A a \in Accounts : FundDev(mem.acc)[a].balance - FundDev(mem.acc)[a].funded
                                  = mem.acc[a].balance - mem.acc[a].funded
      BY <3>1, FundDevFacts
    <3>3. Explained(FundDev(mem.acc), mem.applied)
      BY <1>0, <3>1, <3>2, ExplainedKept
    <3> QED BY <1>2, <3>3
  <2>2. prod'.pc = "idle"
    BY <1>2 DEF Idle
  <2> QED BY <1>0, <2>1, <2>2, LoadedMoney
<1>3. CASE mem' = EmptyMem /\ prod' = Idle
  BY <1>0, <1>3, GenesisExplained, LoadedMoney DEF EmptyMem, Idle
<1> QED BY <1>1, <1>2, <1>3, AfterSyncFacts

\* Execution adds the credit, the debit accounts for it.
LEMMA ProduceMoney ==
  ASSUME Inv, Inv', MoneyInv,
         BeginBlock \/ PopConsensus \/ ExecuteTx \/ DebitSender \/ SealBlock
  PROVE  MoneyInv'
<1>0. mem.acc \in Ledger /\ mem.applied \in TxSeq
  BY DEF Inv, Shape
<1>1. CASE BeginBlock \/ PopConsensus \/ SealBlock
  <2>1. mem'.acc = mem.acc /\ mem'.applied = mem.applied /\ disk' = disk
    BY <1>1, SMTT(30) DEF BeginBlock, PopConsensus, SealBlock, Inv, Shape
  <2>2. prod'.pc \in {"pop", "exec", "accounts"}
    BY <1>1 DEF BeginBlock, PopConsensus, SealBlock, Inv, Shape, Idle
  <2>3. prod.pc # "debit"
    BY <1>1 DEF BeginBlock, PopConsensus, SealBlock
  <2> QED BY <2>1, <2>2, <2>3, QuietMoney
<1>2. CASE ExecuteTx
  <2> DEFINE t == Head(prod.batch)
  <2>1. prod.batch \in Seq(Txs) /\ prod.batch # <<>> /\ disk' = disk /\ prod.pc = "exec"
    BY <1>2 DEF ExecuteTx, Inv, Shape, TxSeq
  <2>2. t \in Txs
    BY <2>1
  <2>3. CASE ~Executable(t, mem.acc)
    <3>1. mem' = mem /\ prod'.pc = "exec"
      BY <1>2, <2>3 DEF ExecuteTx, Inv, Shape
    <3> QED BY <2>1, <3>1, QuietMoney
  <2>4. CASE Executable(t, mem.acc)
    <3>1. /\ mem'.acc = Execute(t, mem.acc) /\ mem'.applied = mem.applied
          /\ prod'.tx = t /\ prod'.pc = "debit"
      BY <1>2, <2>4 DEF ExecuteTx, Inv, Shape
    <3> HIDE DEF t
    <3>2. ASSUME NEW a \in Accounts, AllCovered(a, mem'.applied)
          PROVE  mem'.acc[a].balance = mem'.acc[a].funded + (Effect(mem'.applied, a) + Pending(a)')
      <4>0. Own(a) /\ AllCovered(a, mem.applied)
        BY <3>1, <3>2 DEF AllCovered
      <4>1. /\ mem'.acc[a].balance = mem.acc[a].balance + Credit(t, a)
            /\ mem'.acc[a].funded = mem.acc[a].funded
        BY <1>0, <2>2, <3>1, <4>0, ExecuteCredits
      <4>2. /\ mem.acc[a].balance = mem.acc[a].funded + Effect(mem.applied, a)
            /\ Pending(a)' = Credit(t, a)
        BY <2>1, <3>1, <4>0, SettledMoney DEF Pending, Explained
      <4>3. /\ Credit(t, a) \in Int /\ mem.acc[a].balance \in Int /\ mem.acc[a].funded \in Int
            /\ Effect(mem.applied, a) \in Int
        BY <1>0, <2>2, CreditFacts, BalanceIsInt, EffectIsInt
      <4> QED BY <3>1, <4>1, <4>2, <4>3
    <3> QED BY <2>1, <3>2 DEF MoneyInv, DiskExplained
  <2> QED BY <2>3, <2>4
<1>3. CASE DebitSender
  <2> DEFINE t == prod.tx
  <2>1. /\ t \in Txs /\ prod.pc = "debit" /\ mem'.applied = Append(mem.applied, t)
        /\ mem'.acc[t.from].balance = mem.acc[t.from].balance - (GasUsed(t) + t.value)
        /\ mem'.acc[t.from].funded = mem.acc[t.from].funded
        /\ \A a \in Accounts \ {t.from} : mem'.acc[a] = mem.acc[a]
    BY <1>3, DebitFacts
  <2>2. disk' = disk /\ prod'.pc = "exec"
    BY <1>3 DEF DebitSender, Inv, Shape
  <2>3. ASSUME NEW a \in Accounts, AllCovered(a, mem'.applied)
        PROVE  mem'.acc[a].balance = mem'.acc[a].funded + (Effect(mem'.applied, a) + Pending(a)')
    <3>0. AllCovered(a, mem.applied)
      BY <1>0, <2>1, <2>3, CoveredAppend
    <3> DEFINE debit == IF t.from = a THEN GasUsed(t) + t.value ELSE 0
    <3>1. mem.acc[a].balance = mem.acc[a].funded + (Effect(mem.applied, a) + Credit(t, a))
      BY <2>1, <3>0 DEF MoneyInv, Pending
    <3>2. Delta(t, a) = Credit(t, a) - debit /\ Credit(t, a) \in Int
      BY <2>1, CreditFacts
    <3>3. Effect(mem'.applied, a) = Effect(mem.applied, a) + Delta(t, a)
      BY <1>0, <2>1, EffectOfAppend
    <3>4. /\ mem.acc[a].balance \in Int /\ mem.acc[a].funded \in Int
          /\ Effect(mem.applied, a) \in Int /\ debit \in Int
      BY <1>0, <2>1, BalanceIsInt, EffectIsInt, TxFacts
    <3>5. /\ mem'.acc[a].balance = mem.acc[a].balance - debit
          /\ mem'.acc[a].funded = mem.acc[a].funded
      BY <2>1, <3>4, SMTT(30)
    <3>6. Pending(a)' = 0
      BY <2>2 DEF Pending
    <3> HIDE DEF debit, t
    <3> QED BY <3>1, <3>2, <3>3, <3>4, <3>5, <3>6
  <2> QED BY <2>2, <2>3 DEF MoneyInv, DiskExplained
<1> QED BY <1>1, <1>2, <1>3

LEMMA NextMoney ==
  ASSUME MaxFunds = 0, Inv, Inv', Solvent, MoneyInv, [Next]_vars PROVE MoneyInv'
<1>0. mem.acc \in Ledger /\ mem.applied \in TxSeq /\ disk.acc \in Ledger /\ disk.applied \in TxSeq
  BY DEF Inv, Shape
<1>1. CASE Restore
  <2> DEFINE acc == Deserialize(disk.acc)
  <2>1. prod.pc = "idle" /\ DiskExplained
    BY <1>1 DEF Restore, Inv, Stage, MoneyInv
  <2>2. acc \in Ledger /\ \A a \in Accounts : AllCovered(a, disk.applied) => acc[a] = disk.acc[a]
    BY <1>0, DeserializeFacts DEF Solvent, NobodyOverdrawn
  <2>3. mem'.acc = FundDev(acc) /\ mem'.applied = disk.applied /\ disk' = disk /\ prod' = prod
    BY <1>1 DEF Restore
  <2> HIDE DEF acc
  <2>4. /\ FundDev(acc) \in Ledger
        /\ \A a \in Accounts : AllCovered(a, disk.applied) =>
               FundDev(acc)[a].balance - FundDev(acc)[a].funded
                   = disk.acc[a].balance - disk.acc[a].funded
    BY <2>2, FundDevFacts
  <2>5. Explained(FundDev(acc), disk.applied)
    BY <1>0, <2>1, <2>4, ExplainedKept DEF DiskExplained
  <2> QED BY <2>1, <2>3, <2>5, LoadedMoney
<1>2. CASE BootGenesis
  BY <1>2, GenesisExplained, LoadedMoney DEF BootGenesis, Idle, MoneyInv
<1>3. CASE Crash
  BY <1>3, GenesisExplained, LoadedMoney DEF Crash, EmptyMem, Idle, MoneyInv
<1>4. CASE Shutdown
  BY <1>4, QuietMoney DEF Shutdown, Idle
<1>5. CASE SyncAccounts
  <2>1. mem' = mem /\ prod'.pc = "block" /\ prod.pc = "accounts" /\ disk' = SaveAllAccounts(disk, mem)
    BY <1>5 DEF SyncAccounts, Inv, Shape
  <2>2. disk'.acc = mem.acc /\ disk'.applied = mem.applied
    BY <2>1, SaveFacts DEF Inv, Shape
  <2> QED BY <2>1, <2>2, QuietMoney
<1>6. CASE SyncBlock
  <2>1. /\ disk'.acc = disk.acc /\ disk'.applied = disk.applied
        /\ AfterSync(FALSE) /\ prod.pc = "block"
    BY <1>6, SyncBlockFacts
  <2> QED BY <2>1, AfterSyncMoney
<1>7. CASE SyncFails
  <2>1. disk' = disk /\ AfterSync(TRUE) /\ prod.pc \in {"accounts", "block"}
    BY <1>7 DEF SyncFails
  <2> QED BY <2>1, AfterSyncMoney
<1>8. CASE SaveTxIndex
  <2>1. /\ mem' = mem /\ disk'.acc = disk.acc /\ disk'.applied = disk.applied
        /\ prod'.pc = prod.pc /\ prod.pc = "index"
    BY <1>8, SaveTxIndexFacts
  <2> QED BY <2>1, QuietMoney
<1>9. CASE SaveBlockTxs
  <2>1. /\ mem' = mem /\ disk'.acc = disk.acc /\ disk'.applied = disk.applied
        /\ prod'.pc = "idle" /\ prod.pc = "index"
    BY <1>9, SaveBlockTxsFacts DEF Idle
  <2> QED BY <2>1, QuietMoney
<1>10. CASE SyncTxsFails
  BY <1>10, QuietMoney DEF SyncTxsFails, Idle
<1>11. CASE UNCHANGED <<up, mem, prod, disk>> \/ UNCHANGED vars
  <2>1. UNCHANGED <<mem, prod, disk>>
    BY <1>11 DEF vars
  <2> QED BY <2>1 DEF MoneyInv, DiskExplained, Pending
<1>12. ~FundGenesis
  BY DEF FundGenesis, Inv, Stage
<1>13. ASSUME NEW d \in rpc.deploys, DeployCode(d) PROVE MoneyInv'
  <2>1. /\ UNCHANGED <<prod, disk>> /\ mem'.applied = mem.applied
        /\ \A a \in Accounts : /\ mem'.acc[a].balance = mem.acc[a].balance
                                /\ mem'.acc[a].funded = mem.acc[a].funded
    BY <1>13, DeployFacts
  <2> QED BY <2>1 DEF MoneyInv, DiskExplained, Pending
<1> QED BY <1>1, <1>2, <1>3, <1>4, <1>5, <1>6, <1>7, <1>8, <1>9, <1>10, <1>11, <1>12, <1>13,
           ProduceMoney, RpcCases DEF Next, BlockLoop

\* The balances on disk of the accounts the check has protected are exactly what
\* was minted plus the transactions the ledger contains, whatever crashes,
\* restarts and failing writes there were, when way_fundGenesis is not called:
\* Sync saves accounts only between two blocks, where no credit is pending.
THEOREM DiskIsExplained == ASSUME MaxFunds = 0 PROVE Spec => []DiskExplained
<1>1. Init => MoneyInv
  <2> SUFFICES ASSUME Init PROVE MoneyInv
    OBVIOUS
  <2>1. /\ mem.acc = Genesis /\ mem.applied = <<>> /\ disk.acc = Genesis /\ disk.applied = <<>>
        /\ prod.pc = "idle"
    BY DEF Init, EmptyMem, Idle
  <2>2. Explained(mem.acc, mem.applied) /\ DiskExplained
    BY <2>1, GenesisExplained DEF DiskExplained
  <2> QED BY <2>1, <2>2, InitInv, SettledMoney
<1>2. Inv /\ Solvent /\ MoneyInv /\ [Next]_vars => MoneyInv'
  BY NextInv, NextMoney
<1>3. Inv /\ Solvent /\ [Next]_vars => Solvent'
  BY NextSolvent
<1>4. MoneyInv => DiskExplained
  BY DEF MoneyInv
<1> QED BY <1>1, <1>2, <1>3, <1>4, InitInv, NextInv, InitSolvent, PTL DEF Spec

-----------------------------------------------------------------------------
(* What is stored stays *)

Extends(q, p) == \A i \in DOMAIN p : i \in DOMAIN q /\ q[i] = p[i]

\* The accounts in memory contain what those on disk do, since genesis or a
\* restart; a database without a height contains nothing.
KeptInv ==
    /\ disk.height = 0 => disk.applied = <<>>
    /\ up = "booting" => mem.applied = <<>> /\ disk.applied = <<>>
    /\ up = "serving" => disk.height > 0 /\ Extends(mem.applied, disk.applied)

Kept == Extends(disk'.applied, disk.applied)

LEMMA ExtendsFacts ==
  /\ \A q : Extends(q, q) /\ Extends(q, <<>>)
  /\ \A p, q \in TxSeq, t \in Txs : Extends(q, p) => Extends(Append(q, t), p)
<1>1. ASSUME NEW q PROVE Extends(q, q) /\ Extends(q, <<>>)
  BY DEF Extends
<1>2. ASSUME NEW p \in TxSeq, NEW q \in TxSeq, NEW t \in Txs, Extends(q, p) PROVE Extends(Append(q, t), p)
  <2>1. q \in Seq(Txs)
    BY DEF TxSeq
  <2>2. /\ DOMAIN Append(q, t) = DOMAIN q \cup {Len(q) + 1}
        /\ \A i \in DOMAIN q : Append(q, t)[i] = q[i]
    BY <2>1
  <2> QED BY <1>2, <2>2 DEF Extends
<1> QED BY <1>1, <1>2

\* A step that leaves the ledgers and the process alone.
LEMMA QuietKept ==
  ASSUME KeptInv, up' = up, mem'.applied = mem.applied, disk'.applied = disk.applied,
         disk'.height = disk.height
  PROVE  KeptInv' /\ Kept
BY ExtendsFacts DEF KeptInv, Kept, Extends

\* The process ends, or genesis or a stored chain is loaded.
LEMMA LoadedKept ==
  ASSUME Inv, KeptInv, Restore \/ BootGenesis \/ Crash
  PROVE  KeptInv' /\ Kept
<1>1. CASE Restore
  <2>1. disk' = disk /\ disk.height > 0 /\ up' = "serving" /\ mem'.applied = disk.applied
    BY <1>1 DEF Restore
  <2> QED BY <2>1, ExtendsFacts DEF KeptInv, Kept
<1>2. CASE BootGenesis
  <2>1. disk' = disk /\ disk.height = 0 /\ up' = "booting" /\ mem'.applied = <<>>
    BY <1>2 DEF BootGenesis
  <2> QED BY <2>1, ExtendsFacts DEF KeptInv, Kept
<1>3. CASE Crash
  BY <1>3, ExtendsFacts DEF Crash, KeptInv, Kept
<1> QED BY <1>1, <1>2, <1>3

\* Sync returned.
LEMMA AfterSyncKept ==
  ASSUME Inv, KeptInv, NEW failed \in BOOLEAN, AfterSync(failed), prod.pc \in {"accounts", "block"},
         disk'.applied = disk.applied,
         disk'.height \in Nat,
         disk'.height = 0 => disk.height = 0,
         ~failed => disk'.height > 0
  PROVE  KeptInv' /\ Kept
<1>0. Kept
  BY ExtendsFacts DEF Kept
<1>1. disk'.height = 0 => disk'.applied = <<>>
  BY DEF KeptInv
<1>2. disk.height > 0 => disk'.height > 0
  <2>1. ~(0 > 0) /\ \A n \in Nat : n # 0 => n > 0
    OBVIOUS
  <2>2. ASSUME disk.height > 0 PROVE disk'.height # 0
    BY <2>1, <2>2
  <2> QED BY <2>1, <2>2
<1>3. CASE prod.why = "block" /\ UNCHANGED <<up, mem, pool, rpc>>
  BY <1>0, <1>1, <1>2, <1>3 DEF KeptInv
<1>4. CASE prod.why = "genesis" /\ up' = "serving" /\ ~failed /\ mem'.applied = mem.applied
  <2>1. up = "booting"
    BY <1>4 DEF Inv, Stage
  <2>2. mem'.applied = <<>> /\ disk'.applied = <<>>
    BY <1>4, <2>1 DEF KeptInv
  <2> QED BY <1>0, <1>1, <1>4, <2>2, ExtendsFacts DEF KeptInv
<1>5. CASE up' = "down"
  BY <1>0, <1>1, <1>5 DEF KeptInv
<1> QED BY <1>3, <1>4, <1>5, AfterSyncFacts

LEMMA SavedKept ==
  ASSUME Inv, KeptInv, up' = up, up # "down", mem' \in Chains, mem'.applied = mem.applied,
         disk' = SaveAllAccounts(disk, mem')
  PROVE  KeptInv' /\ Kept
<1>1. disk'.applied = mem.applied /\ disk'.height = disk.height
  BY SaveFacts
<1>2. disk.height = 0 => up = "booting"
  BY DEF KeptInv, Inv, Shape
<1>3. CASE up = "booting"
  BY <1>1, <1>2, <1>3, ExtendsFacts DEF KeptInv, Kept
<1>4. CASE up = "serving"
  <2>1. disk.height > 0 /\ Extends(mem.applied, disk.applied) /\ ~(0 > 0)
    BY <1>4 DEF KeptInv
  <2>2. Extends(mem.applied, mem.applied)
    BY ExtendsFacts
  <2>3. Kept
    BY <1>1, <2>1 DEF Kept
  <2>4. Extends(mem.applied, disk.applied)'
    BY <1>1, <2>2
  <2>5. disk'.height > 0 /\ disk'.height # 0 /\ up' = "serving"
    BY <1>1, <1>4, <2>1
  <2>6. KeptInv'
    BY <2>4, <2>5 DEF KeptInv
  <2> QED BY <2>3, <2>6
<1> QED BY <1>3, <1>4 DEF Inv, Shape

LEMMA NextKept == ASSUME Inv, KeptInv, [Next]_vars PROVE KeptInv' /\ Kept
<1>1. CASE Restore \/ BootGenesis \/ Crash
  BY <1>1, LoadedKept
<1>2. CASE DebitSender
  <2>1. /\ prod.tx \in Txs /\ mem'.applied = Append(mem.applied, prod.tx)
        /\ mem.applied \in TxSeq /\ disk.applied \in TxSeq
    BY <1>2, DebitFacts DEF Inv, Shape
  <2>2. up' = up /\ disk' = disk /\ up = "serving"
    BY <1>2 DEF DebitSender, Inv, Shape, Stage
  <2> QED BY <2>1, <2>2, ExtendsFacts DEF KeptInv, Kept
<1>3. CASE SyncAccounts
  <2>1. /\ up' = up /\ mem' = mem /\ disk' = SaveAllAccounts(disk, mem')
        /\ up # "down" /\ mem' \in Chains
    BY <1>3 DEF SyncAccounts, Inv, Shape, Stage
  <2> QED BY <2>1, SavedKept
<1>4. CASE SyncBlock
  <2>1. /\ disk'.applied = disk.applied /\ disk'.height = mem.height
        /\ prod.pc = "block" /\ up # "down" /\ AfterSync(FALSE)
    BY <1>4, SyncBlockFacts
  <2>2. mem.height \in Nat /\ mem.height >= 1
    BY <2>1, ChainAssumption DEF Inv, Shape, Stage
  <2>3. /\ disk'.height \in Nat /\ disk'.height # 0 /\ disk'.height > 0
        /\ prod.pc \in {"accounts", "block"} /\ FALSE \in BOOLEAN
    BY <2>1, <2>2
  <2>4. (disk'.height = 0 => disk.height = 0) /\ (~FALSE => disk'.height > 0)
    BY <2>3
  <2> QED BY <2>1, <2>3, <2>4, AfterSyncKept
<1>5. CASE SyncFails
  <2>1. disk' = disk /\ prod.pc \in {"accounts", "block"} /\ AfterSync(TRUE)
    BY <1>5 DEF SyncFails
  <2>2. disk.height \in Nat
    BY ChainAssumption DEF Inv, Shape
  <2> QED BY <2>1, <2>2, AfterSyncKept
<1>6. CASE SaveTxIndex \/ SaveBlockTxs
  <2>1. up' = up /\ mem' = mem
    BY <1>6 DEF SaveTxIndex, SaveBlockTxs
  <2>2. disk'.applied = disk.applied /\ disk'.height = disk.height
    BY <1>6, SaveTxIndexFacts, SaveBlockTxsFacts
  <2> QED BY <2>1, <2>2, QuietKept
<1>7. CASE BeginBlock \/ PopConsensus \/ ExecuteTx \/ SealBlock \/ SyncTxsFails \/ Shutdown
           \/ UNCHANGED vars
  <2>1. up' = up /\ disk' = disk
    BY <1>7 DEF BeginBlock, PopConsensus, ExecuteTx, SealBlock, SyncTxsFails, Shutdown, vars
  <2>2. mem'.applied = mem.applied
    <3>1. CASE BeginBlock
      BY <3>1 DEF BeginBlock, Inv, Shape
    <3>2. CASE ExecuteTx
      BY <3>2 DEF ExecuteTx, Inv, Shape
    <3> QED BY <1>7, <3>1, <3>2 DEF PopConsensus, SealBlock, SyncTxsFails, Shutdown, vars
  <2> QED BY <2>1, <2>2, QuietKept
<1>8. CASE Rpc
  <2>1. CASE UNCHANGED <<up, mem, prod, disk>>
    BY <2>1, QuietKept
  <2>2. CASE FundGenesis
    <3>1. /\ up = "serving" /\ up' = up /\ mem'.applied = mem.applied /\ mem' \in Chains
          /\ disk' = SaveAllAccounts(disk, mem') \/ disk' = disk
      BY <2>2, FundFacts
    <3>2. CASE disk' = SaveAllAccounts(disk, mem')
      BY <3>1, <3>2, SavedKept
    <3>3. CASE disk' = disk
      BY <3>1, <3>3, QuietKept
    <3> QED BY <3>1, <3>2, <3>3
  <2>3. ASSUME NEW d \in rpc.deploys, DeployCode(d) PROVE KeptInv' /\ Kept
    <3>1. mem'.applied = mem.applied /\ disk' = disk /\ up' = up
      BY <2>3, DeployFacts
    <3> QED BY <3>1, QuietKept
  <2> QED BY <1>8, <2>1, <2>2, <2>3, RpcCases
<1> QED BY <1>1, <1>2, <1>3, <1>4, <1>5, <1>6, <1>7, <1>8 DEF Next, BlockLoop

\* A transaction whose effects are on disk stays there at its place, through
\* failing writes, way_fundGenesis in the middle of a block, deployments, crashes
\* and restarts: memory contains what the disk does whenever it is saved.
THEOREM StoredStays == Spec => PersistedStays
<1>1. Init => KeptInv
  BY DEF Init, KeptInv
<1>2. Inv /\ KeptInv /\ [Next]_vars => KeptInv'
  BY NextKept
<1>3. Inv /\ KeptInv /\ [Next]_vars =>
        [\A i \in DOMAIN disk.applied :
            i \in DOMAIN disk'.applied /\ disk'.applied[i] = disk.applied[i]]_vars
  <2> SUFFICES ASSUME Inv, KeptInv, [Next]_vars PROVE Kept
    BY DEF Kept, Extends
  <2> QED BY NextKept
<1> QED BY <1>1, <1>2, <1>3, InitInv, NextInv, PTL DEF Spec, PersistedStays

-----------------------------------------------------------------------------
(* The consensus lane *)

\* Cutting a sequence in two loses nothing.
LEMMA CutFacts ==
  ASSUME NEW q \in TxSeq, NEW n \in 0 .. Len(q)
  PROVE  Range(q) \subseteq Range(SubSeq(q, 1, n)) \cup Range(SubSeq(q, n + 1, Len(q)))
<1> DEFINE u == SubSeq(q, 1, n)
           v == SubSeq(q, n + 1, Len(q))
<1>1. q \in Seq(Txs) /\ Len(q) \in Nat /\ DOMAIN q = 1 .. Len(q) /\ n \in Nat /\ n <= Len(q)
  BY DEF TxSeq
<1>2. DOMAIN u = 1 .. n /\ \A i \in 1 .. n : u[i] = q[i]
  BY <1>1
<1>3. DOMAIN v = 1 .. (Len(q) - n) /\ \A i \in 1 .. (Len(q) - n) : v[i] = q[n + i]
  BY <1>1
<1> HIDE DEF u, v
<1>4. ASSUME NEW i \in DOMAIN q PROVE q[i] \in Range(u) \cup Range(v)
  <2>1. CASE i <= n
    BY <1>1, <1>2, <2>1 DEF Range
  <2>2. CASE ~(i <= n)
    <3>1. i - n \in 1 .. (Len(q) - n) /\ n + (i - n) = i
      BY <1>1, <2>2
    <3>2. v[i - n] = q[i]
      BY <1>3, <3>1
    <3> QED BY <1>3, <3>1, <3>2 DEF Range
  <2> QED BY <2>1, <2>2
<1> QED BY <1>4 DEF Range, u, v

\* A queued transaction leaves the lane only into a block, with the process, or when
\* Pool.Add or PopConsensus writes over it a lane read before it came in.
THEOREM QueueIsKept == Spec => LaneKept
<1> DEFINE Accounted(t) ==
             \/ t \in Range(pool'.consensus)
             \/ t \in Range(prod'.batch)
             \/ up' = "down"
             \/ prod.pc = "pop" /\ prod'.pc # "pop" /\ t \notin Range(prod.batch)
             \/ rpc.pc = "add" /\ rpc'.pc # "add" /\ t \notin Range(rpc.snap)
<1>1. ASSUME Inv, Next, NEW t \in Range(pool.consensus) PROVE Accounted(t)
  <2>1. CASE PopConsensus
    <3> DEFINE n == Min({BatchSize, Len(prod.batch)})
    <3>1. prod.batch \in TxSeq /\ Len(prod.batch) \in Nat /\ BatchSize \in Nat
      BY <1>1, ChainAssumption, SeqFacts DEF Inv, Shape
    <3>2. n \in 0 .. Len(prod.batch)
      <4>0. BatchSize \in Int /\ Len(prod.batch) \in Int
        BY <3>1
      <4>1. n \in {BatchSize, Len(prod.batch)} /\ n <= Len(prod.batch)
        BY <4>0, MinOfTwo
      <4> HIDE DEF n
      <4> QED BY <3>1, <4>1
    <3>3. /\ prod.pc = "pop"
          /\ prod' = [prod EXCEPT !.pc = "exec", !.batch = SubSeq(prod.batch, 1, n)]
          /\ pool' = IF n = 0 THEN pool
                     ELSE [pool EXCEPT !.consensus = SubSeq(prod.batch, n + 1, Len(prod.batch))]
      BY <2>1 DEF PopConsensus
    <3> HIDE DEF n
    <3>4. prod'.pc = "exec" /\ prod'.batch = SubSeq(prod.batch, 1, n)
      BY <1>1, <3>3 DEF Inv, Shape
    <3>5. CASE n = 0
      BY <3>3, <3>5
    <3>6. CASE n # 0
      <4>1. pool'.consensus = SubSeq(prod.batch, n + 1, Len(prod.batch))
        BY <1>1, <3>3, <3>6 DEF Inv, Shape
      <4>2. t \in Range(prod.batch) => t \in Range(pool'.consensus) \cup Range(prod'.batch)
        BY <3>1, <3>2, <3>4, <4>1, CutFacts
      <4> QED BY <3>3, <3>4, <4>2
    <3> QED BY <3>5, <3>6
  <2>2. CASE PoolAdd
    <3>1. rpc.pc = "add" /\ rpc'.pc = "idle"
      BY <1>1, <2>2, ReturnFacts DEF PoolAdd
    <3>2. CASE Lane(rpc.tx) = "consensus"
      <4>1. pool'.consensus = Append(rpc.snap, rpc.tx)
        BY <1>1, <2>2, <3>2 DEF PoolAdd, Inv, Shape
      <4>2. Range(rpc.snap) \subseteq Range(pool'.consensus)
        BY <1>1, <3>1, <4>1, RangeFacts DEF Inv, Shape, Stage
      <4> QED BY <3>1, <4>2
    <3>3. CASE Lane(rpc.tx) # "consensus"
      BY <1>1, <2>2, <3>3 DEF PoolAdd, Inv, Shape
    <3> QED BY <3>2, <3>3
  <2>3. CASE SyncBlock \/ SyncFails
    BY <2>3 DEF SyncBlock, SyncFails, AfterSync
  <2>4. CASE Crash
    BY <2>4 DEF Crash
  <2>5. CASE FundGenesis
    BY <2>5 DEF FundGenesis
  <2>6. CASE Restore \/ BootGenesis \/ BeginBlock \/ ExecuteTx \/ DebitSender \/ SealBlock \/ SyncAccounts
    BY <2>6 DEF Restore, BootGenesis, BeginBlock, ExecuteTx, DebitSender, SealBlock, SyncAccounts
  <2>7. CASE SaveTxIndex \/ SaveBlockTxs \/ SyncTxsFails \/ Shutdown
    BY <2>7 DEF SaveTxIndex, SaveBlockTxs, SyncTxsFails, Shutdown
  <2>8. CASE \/ \E s \in Txs : SendRawTransaction(s)
             \/ \E a \in Accounts, amount \in FundAmounts : FundRead(a, amount)
             \/ \E a \in Accounts : DeployRead(a)
             \/ \E d \in rpc.deploys : DeployCode(d)
    BY <2>8 DEF SendRawTransaction, FundRead, DeployRead, DeployCode
  <2> QED BY <1>1, <2>1, <2>2, <2>3, <2>4, <2>5, <2>6, <2>7, <2>8 DEF Next, BlockLoop, Rpc
<1>2. Inv /\ [Next]_vars => [\A t \in Range(pool.consensus) : Accounted(t)]_vars
  BY <1>1
<1> QED BY <1>2, InitInv, NextInv, PTL DEF Spec, LaneKept
=============================================================================
