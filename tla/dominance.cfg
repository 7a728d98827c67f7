SPECIFICATION SpecHistory
CONSTANTS
    PERCENT = 1
    SHORT_DURATION_SECS = 3
    MIN_HEALTHY_POSITIONS = 10
    MAX_SIDES = 2
    U64_MAX = 100000
    U128_MAX = 2000000000
    Accounts = {a1}
    NoKey = NoKey
    Amounts = {100}
    MinWeights = {0}
    Durations = {3}
    MIN_DURATION_SECS = 3
    MAX_DURATION_SECS = 3
    MIN_DEPOSIT_LAMPORTS = 100
    MIN_RENT = 89
    MAX_POSITIONS = 4
    ClockSteps = {1}
    MAX_CLOCK = 5
    GRAIN = 12
CONSTRAINT TradingMarkets
INVARIANTS
    ReadingIsBetween
PROPERTIES
    ImplementsMeter
    WaitingFavoursLeader
    LeaderWins
CHECK_DEADLOCK FALSE
