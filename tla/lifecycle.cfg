SPECIFICATION Spec
CONSTANTS
    PERCENT = 1
    SHORT_DURATION_SECS = 5
    MIN_HEALTHY_POSITIONS = 10
    MAX_SIDES = 2
    U64_MAX = 100000
    U128_MAX = 2000000000
    Accounts = {a1}
    NoKey = NoKey
    Amounts = {100, 1000}
    MinWeights = {0, 50}
    Durations = {5}
    MIN_DURATION_SECS = 5
    MAX_DURATION_SECS = 5
    MIN_DEPOSIT_LAMPORTS = 100
    MIN_RENT = 89
    MAX_POSITIONS = 2
    ClockSteps = {1}
    MAX_CLOCK = 7
CONSTRAINT ClockMatters
INVARIANTS
    TypeOK
    LedgerMatchesPositions
    VaultCovered
    OnlyDustBlocksPayback
    Bookkeeping
PROPERTIES
    SettledOnce
    LockoutIsFinal
    ResolvedWinnerHasStake
    ImplementsCustody
CHECK_DEADLOCK FALSE
