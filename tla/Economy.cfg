CONSTANTS
    founder = founder
    ann = ann
    bob = bob
    key = key
    odd = odd
    twoWay = twoWay
    stability = stability
    swapRoute = swapRoute
    quest1 = quest1
    quest2 = quest2
    v1 = v1
    v2 = v2
    Accounts <- Accounts4
    Short <- Address
    Prefix <- Beginnings
    Level <- Levels
    Word = 8192
    Scenarios <- Workloads
    Supply0 = 120
    EpochLength = 2
    Window = 4
    OutputThreshold = 4
    VelocityThreshold = 100
    SurgeClaims = 2
    MRTWeight = 10
    BurnBps = 5000
    MaxBurnBps = 6000
    Validators = {v1, v2}
    Name <- LastByte
    Stakes = {50, 1000, 1500}
    MinStake = 100
    Brackets <- ProgressiveStakingBrackets
    Supply = 1000000
    Pcts = {3, 9, 12}
    MinPct = 3
    MaxPct = 9
    DefaultPct = 7
    BlocksPerYear = 35040
    SharePct = 50
    Titles = {title1}
    title1 = title1
    VoteTypes = {"direct", "quadratic", "futarchy", "inflation"}
    Proposers = {ann}
    Voters = {ann, bob}
    Founder = founder
    Treasury = treasury
    treasury = treasury
    Registry = registry
    registry = registry
    Pool = pool
    pool = pool
    Faucet = faucet
    faucet = faucet
    Tasks = {quest1, quest2}
    Reward <- QuestRewards
    AutoEligible = {quest1}
    Bounties = {bounty1}
    bounty1 = bounty1
    Amounts = {0, 2, 4}
    Funds = {2, 8}
    Worths = {0, 10}
    TreasurySeed = 4
    FounderSeed = 5
    FaucetSeed = 3
    PoolFund = 1
    Giveaway = 1
    DefaultDrip = 2
    DefaultCooldown = 2
    None = None
    RentAmounts = {3, 8}
    Grace = 3
    BlockBytes = 2
    FlagByte = 2
    OpStakes = {0, 3}
    Files = {file1}
    file1 = file1
    Whole = {bob, ann}
    MaxListed = 2
    Cut <- CutNames
    Names = {founder, ann, bob, odd}
    Miners = {bob}
    Others = {ann}
    Deeds = {deed1, sham}
    deed1 = deed1
    sham = sham
    PassesFor <- Lookalikes
    Roles = {"lawyer", "surveyor", "geologist"}
    Ounces = {2}
    Nobody = Nobody
    Services = {twoWay, stability, swapRoute, registry}
    MinterBucket <- SelfMinters
    LPMinters = {swapRoute, stability}
    SwayInitialSupply = 1000
    SwayHardCeiling = 5000
    LPReward = 100
    DefaultReserve = 1000
    Volumes = {100, 1000}
    Liquidities = {7, 121}
    Joined <- AmountThenBlock
    Pairs = {pair1, pair0}
    pair1 = pair1
    pair0 = pair0
    ZeroFirst = {pair0}
    Pools = {pool0}
    pool0 = pool0
    ZeroPool = pool0
    MinLockPeriod = 2
    LPLockPeriod = 2
    Periods = {1, 3, 8190}
    Padded = {founder, key}
SPECIFICATION Spec
INVARIANTS
    EmissionConserved
    TotalStakedExact
    OneYesEach
    PaidWithinCap
    LateIsFrozen
    ClaimsAttested
    TokensBacked
    SwayCeilingHolds
    IntactLockHolds
PROPERTIES
    EpochCapHolds
    PaidByStake
    RateMovedByVote
    WayConserved
SYMMETRY Symmetry
CHECK_DEADLOCK FALSE
