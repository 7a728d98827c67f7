SPECIFICATION SpecClients
CONSTANTS
    PERCENT = 1
    SHORT_DURATION_SECS = 5
    MIN_HEALTHY_POSITIONS = 10
    MAX_SIDES = 2
    U64_MAX = 100000
    U128_MAX = 2000000000
    Accounts = {a1, a2}
    NoKey = NoKey
    Amounts = {2000}
    MinWeights = {0}
    Durations = {2}
    MIN_DURATION_SECS = 2
    MAX_DURATION_SECS = 2
    MIN_DEPOSIT_LAMPORTS = 100
    MIN_RENT = 89
    MAX_POSITIONS = 2
    ClockSteps = {1}
    MAX_CLOCK = 3
    Authority = a1
    TOLERANCE = 25
    MAX_IN_FLIGHT = 2
INVARIANTS
    DepositsLandOnce
    DepositIsAsQuoted
PROPERTIES
    RacesAreWon
CHECK_DEADLOCK FALSE
