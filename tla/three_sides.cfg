SPECIFICATION Spec
CONSTANTS
    PERCENT = 1
    SHORT_DURATION_SECS = 5
    MIN_HEALTHY_POSITIONS = 10
    MAX_SIDES = 3
    U64_MAX = 100000
    U128_MAX = 2000000000
    Accounts = {a1}
    NoKey = NoKey
    Amounts = {100, 300}
    MinWeights = {0}
    Durations = {4}
    MIN_DURATION_SECS = 4
    MAX_DURATION_SECS = 4
    MIN_DEPOSIT_LAMPORTS = 100
    MIN_RENT = 89
    MAX_POSITIONS = 3
    ClockSteps = {2}
    MAX_CLOCK = 5
CONSTRAINT WideMarkets
INVARIANTS
    Solvent
PROPERTIES
    ResolvedWinnerHasStake
CHECK_DEADLOCK FALSE
