SPECIFICATION MarketSpec
CONSTANTS
    p1 = p1
    p2 = p2
    p3 = p3
    p4 = p4
    Providers = {p1, p2}
    Owner = owner
    Keepers = {market}
    COOLDOWN_PERIOD = 1
    Prices = {}
    Capacities = {}
    Amounts = {}
    StartTime = 1
    Instants = {2}
    MaxRecorded = 0
    MaxSlashes = 0
    Clients = {c1}
    Market = market
    Distributor = distributor
    Treasuries = {treasury}
    NoAddress = noAddress
    Accounts <- MCAccounts
    SHARDS_PER_FILE = 2
    MIN_PROVIDERS = 1
    MIN_PRICE_USD = 5000
    Month = 2
    KYN = 2000
    Selections <- OnePair
    Sizes = {1}
    Durations = {1}
    UsdPrices = {5000}
    KynPrices = {}
    FeeRates = {}
    RetrievalAmounts = {}
    InitialKYN = 206
    CarelessRepair = FALSE
    MaxDeals = 1
    MaxRetrievals = 0
PROPERTY CancelIsEarly
CHECK_DEADLOCK FALSE
