SPECIFICATION VestingSpec
CONSTANTS
    Accounts = {deployer, alice, vesting}
    Deployer = deployer
    Contracts = {alice}
    INITIAL_SUPPLY = 4
    MAX_SUPPLY = 5
    Year = 2
    TokenAmounts = {1}
    MaxMinted = 2
    StartTime = 1
    Instants = {2, 3, 4}
    Beneficiaries = {alice}
    Vesting = vesting
    VestingStarts = {1, 2}
    VestingCliffs = {0, 2}
    VestingDurations = {0, 2}
    VestingAmounts = {3}
INVARIANTS
    TokenTypeOK
    SupplyIsSum
    SupplyCapped
    InflationAnnual
    ReleasedIsVested
    ScheduleNeverOverpays
CHECK_DEADLOCK FALSE
