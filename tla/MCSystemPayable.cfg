SPECIFICATION SystemSpec
CONSTANTS
    p1 = p1
    p2 = p2
    Providers = {p1, p2}
    Owner = owner
    Keepers = {market}
    COOLDOWN_PERIOD = 1
    Prices = {}
    Capacities = {}
    Amounts = {}
    StartTime = 1
    Instants = {2}
    MaxRecorded = 0
    MaxSlashes = 0
    Clients = {c1}
    Market = market
    Distributor = distributor
    Treasuries = {treasury}
    NoAddress = noAddress
    Accounts <- MCAccounts
    SHARDS_PER_FILE = 2
    MIN_PROVIDERS = 1
    MIN_PRICE_USD = 5000
    Month = 2
    KYN = 2000
    Selections <- OnePair
    Sizes = {1}
    Durations = {1}
    UsdPrices = {5000}
    KynPrices = {50000}
    FeeRates = {}
    RetrievalAmounts = {}
    InitialKYN = 103
    CarelessRepair = FALSE
    MaxDeals = 1
    MaxRetrievals = 0
    Deployer = deployer
    Contracts = {distributor}
    INITIAL_SUPPLY = 0
    MAX_SUPPLY = 1000
    Year = 365
    TokenAmounts = {}
    MaxMinted = 1
    Pledgers = {p1}
    PledgeContract = pledgeContract
    DURATION_30_DAYS = 2
    DURATION_90_DAYS = 90
    DURATION_180_DAYS = 180
    DURATION_365_DAYS = 365
    COLLATERAL_PER_GB = 100
    PledgeCapacities = {1}
    PledgeDurations = {2}
    Collaterals = {100}
    Utilizations = {}
    PledgerKYN = 100
    MaxPledges = 1
    CapacityRates = {1}
    PostBonuses = {1}
    ReserveDraws = {5}
    MaxUsageBooked = 8
INVARIANTS
    CompletedDealsPayable
CHECK_DEADLOCK FALSE
