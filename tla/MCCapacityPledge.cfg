SPECIFICATION PledgeSpec
CONSTANTS
    Accounts = {deployer, alice, bob, pledgeContract}
    Deployer = deployer
    Contracts = {}
    INITIAL_SUPPLY = 0
    MAX_SUPPLY = 1000
    Year = 365
    TokenAmounts = {}
    MaxMinted = 0
    StartTime = 1
    Instants = {46, 90, 91, 92}
    Pledgers = {alice, bob}
    PledgeContract = pledgeContract
    DURATION_30_DAYS = 30
    DURATION_90_DAYS = 90
    DURATION_180_DAYS = 180
    DURATION_365_DAYS = 365
    COLLATERAL_PER_GB = 100
    PledgeCapacities = {0, 1}
    PledgeDurations = {90, 45}
    Collaterals = {99, 150}
    Utilizations = {1, 2}
    PledgerKYN = 300
    MaxPledges = 2
INVARIANTS
    PledgeTypeOK
    TotalsMatch
    CollateralBacked
    PenaltyInRange
    NothingLost
PROPERTY PenaltyFalls
CHECK_DEADLOCK FALSE
