CONSTANTS
    alice = alice
    bob = bob
    elsewhere = elsewhere
    Accounts = {alice, bob}
    Dev = alice
    Txs <- Payments
    GenesisBalance <- Balances
    Doxed = {bob}
    Image <- Images
    DevFund = 5
    FundAmounts = {1}
    TransferGas = 1
    BatchSize = 2
    MaxHeight = 3
    MaxSubmits = 3
    MaxFunds = 1
    MaxDeploys = 0
    MaxErrors = 0
    MaxCrashes = 1
SPECIFICATION Spec
INVARIANT DiskExplained
CHECK_DEADLOCK FALSE
