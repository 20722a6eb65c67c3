CONSTANTS
    alice = alice
    bob = bob
    elsewhere = elsewhere
    Accounts = {alice, bob}
    Dev = alice
    Txs <- Payments
    GenesisBalance <- Balances
    Doxed = {bob}
    Image <- Images
    DevFund = 5
    FundAmounts = {1}
    TransferGas = 1
    BatchSize = 2
    MaxHeight = 3
    MaxSubmits = 4
    MaxFunds = 0
    MaxDeploys = 0
    MaxErrors = 0
    MaxCrashes = 2
SPECIFICATION Spec
INVARIANTS
    TypeOK
    NoReplay
    
    DiskExplained
    LookupSound
    StoredTxsApplied
PROPERTY HeightNeverRewound
CHECK_DEADLOCK FALSE
