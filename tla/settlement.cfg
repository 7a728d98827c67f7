SPECIFICATION Spec
CONSTANTS
    PERCENT = 1
    SHORT_DURATION_SECS = 5
    MIN_HEALTHY_POSITIONS = 10
    MAX_SIDES = 2
    U64_MAX = 100000
    U128_MAX = 2000000000
    Accounts = {a1}
    NoKey = NoKey
    Amounts = {100, 300}
    MinWeights = {0}
    Durations = {4}
    MIN_DURATION_SECS = 4
    MAX_DURATION_SECS = 4
    MIN_DEPOSIT_LAMPORTS = 100
    MIN_RENT = 89
    MAX_POSITIONS = 3
    ClockSteps = {2}
    MAX_CLOCK = 5
CONSTRAINT ClockMatters
INVARIANTS
    Solvent
    WinnerKeepsPrincipal
    EarlierIsNoWorse
    OnlyRentIsCut
    LeftoverIsBounded
    ClaimIsAccepted
PROPERTIES
    DueIsFinal
CHECK_DEADLOCK FALSE
