SPECIFICATION LoopSpec
CONSTANTS
    First = 2
    Longest = 8
    RateLimited = 12
    Idle = 4
    Named = {0, 1, 6, 16}
    None = None
INVARIANTS LoopGoesOn SilenceKeepsAway
PROPERTIES KeepsContract
CHECK_DEADLOCK FALSE
