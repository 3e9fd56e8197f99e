SPECIFICATION SlashSpec
CONSTANTS
    Accounts = {p1, slashing, deployer}
    Deployer = deployer
    Contracts = {slashing}
    INITIAL_SUPPLY = 0
    MAX_SUPPLY = 12
    Year = 365
    TokenAmounts = {}
    MaxMinted = 2
    StartTime = 31
    Instants = {62}
    Providers = {p1}
    Owner = owner
    Keepers = {slashing}
    COOLDOWN_PERIOD = 7
    Prices = {}
    Capacities = {}
    Amounts = {}
    MaxRecorded = 0
    MaxSlashes = 0
    Slashing = slashing
    MissWindow = 2
    REPEAT_WINDOW = 30
    APPEAL_WINDOW = 2
    SlashCollaterals = {100}
    SlashAmounts = {2}
    ProviderKYN = 12
    MaxRecords = 4
INVARIANTS
    SlashTypeOK
    
    RefundsWithinPenalties
    
    
CHECK_DEADLOCK FALSE
