SPECIFICATION Spec
CONSTANTS
    PERCENT = 1
    REFERENCE_WINDOW_SECS = 4
    FUNDING_RATE_BPS = 4000
    CRANKER_REBATE_BPS = 2000
    PROTOCOL_FEE_BPS = 2000
    CREATOR_FEE_BPS = 500
    U64_MAX = 100000
    U128_MAX = 2000000000
    Accounts = {a1}
    NoKey = NoKey
    PERPETUAL_ADMINS = {a1}
    Amounts = {20, 80}
    MIN_DEPOSIT_LAMPORTS = 20
    MIN_RENT = 1
    EPOCH_SECS = 1
    MAX_POSITIONS = 3
    MAX_CLOCK = 5
ACTION_CONSTRAINT ClockMatters
PROPERTIES
    DocumentedDilutionCap
CHECK_DEADLOCK FALSE
