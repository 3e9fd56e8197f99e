SPECIFICATION RegistrySpec
CONSTANTS
    Providers = {p1, p2}
    Owner = owner
    Keepers = {k1}
    COOLDOWN_PERIOD = 1
    Prices = {1}
    Capacities = {0}
    Amounts = {100}
    StartTime = 0
    Instants = {1}
    MaxRecorded = 1
    MaxSlashes = 5
SYMMETRY Symmetry
INVARIANTS
    RegistryTypeOK
    StandingInv
    ListMatchesMapping
    EligibleAreUsable
PROPERTY CooldownServed
