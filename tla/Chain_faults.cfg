CONSTANTS
    alice = alice
    bob = bob
    elsewhere = elsewhere
    Accounts = {alice, bob}
    Dev = alice
    Txs <- DeploymentsAndLanes
    GenesisBalance <- Balances
    Doxed = {bob}
    Image <- Images
    DevFund = 5
    FundAmounts <- Amounts
    TransferGas = 1
    BatchSize = 2
    MaxHeight = 3
    MaxSubmits = 2
    MaxFunds = 1
    MaxDeploys = 1
    MaxErrors = 1
    MaxCrashes = 1
SPECIFICATION Spec
PROPERTIES
    
    LaneKept
CHECK_DEADLOCK FALSE
