SPECIFICATION Spec
CONSTANTS
    PERCENT = 1
    REFERENCE_WINDOW_SECS = 4
    FUNDING_RATE_BPS = 100
    CRANKER_REBATE_BPS = 500
    PROTOCOL_FEE_BPS = 2000
    CREATOR_FEE_BPS = 500
    U64_MAX = 1000000
    U128_MAX = 2000000000
    Accounts = {a1}
    NoKey = NoKey
    PERPETUAL_ADMINS = {a1}
    Amounts = {1200, 1420}
    MIN_DEPOSIT_LAMPORTS = 1200
    MIN_RENT = 53
    EPOCH_SECS = 1
    MAX_POSITIONS = 2
    MAX_CLOCK = 5
ACTION_CONSTRAINT ClockMatters
PROPERTIES
    DocumentedSimMirror
CHECK_DEADLOCK FALSE
