CONSTANTS
    u1 = u1
    u2 = u2
    v1 = v1
    v2 = v2
    Users = {u1, u2}
    Vaults = {v1, v2}
    usd = usd
    eur = eur
    Coins = {usd, eur}
    Accepted = {usd}
    CollSlot <- OnePrefix
    DebtSlot <- OwnSlot
    Amounts = {70, 80}
    Collaterals = {0, 100}
    Prices = {50}
    PriceOne = 100
    MaxDeposit = 80
    MaxRewards = 8
    MaxFees = 2
SPECIFICATION Spec
INVARIANT UnrepaidIsLocked
SYMMETRY Symmetry
CHECK_DEADLOCK FALSE
