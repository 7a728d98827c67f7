SPECIFICATION Spec
CONSTANTS
    PERCENT = 1
    REFERENCE_WINDOW_SECS = 3
    FUNDING_RATE_BPS = 1000
    CRANKER_REBATE_BPS = 2000
    PROTOCOL_FEE_BPS = 2000
    CREATOR_FEE_BPS = 500
    U64_MAX = 100000
    U128_MAX = 2000000000
    Accounts = {a1}
    NoKey = NoKey
    PERPETUAL_ADMINS = {a1}
    Amounts = {100, 400}
    MIN_DEPOSIT_LAMPORTS = 100
    MIN_RENT = 4
    EPOCH_SECS = 1
    MAX_POSITIONS = 3
    MAX_CLOCK = 4
ACTION_CONSTRAINT ClockMatters
INVARIANTS
    TypeOK
    LedgerMatchesPositions
    VaultMatchesBooks
    HolderGetsShare
    FundingIsBounded
    ExitIsAccepted
    EarlierIsNoWorse
PROPERTIES
    ValueFallsOnlyByTrade
    LossPerStepIsBounded
    SimMirrorsMarket
    ImplementsFund
CHECK_DEADLOCK FALSE
