SPECIFICATION ProofSpec
CONSTANTS
    StartTime = 1
    Instants = {14, 15}
    Providers = {p1, p2}
    NoAddress = noAddress
    ProvenDeals = {d1}
    Roots = {r1, r2}
    NoRoot = noRoot
    Seeds = {s1}
    Nonces = {n1}
    WorkHashes <- TwoHashes
    Difficulties = {8, 257}
    FirstDifficulty = 8
    POST_INTERVAL = 12
    GRACE_PERIOD = 1
    MaxChallenges = 3
INVARIANTS
    ProofTypeOK
    OneVerdict
    MissesAreChecked
    AnswersAreBacked
PROPERTY ReplicaIsFinal
CHECK_DEADLOCK FALSE
