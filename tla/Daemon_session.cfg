\* Two candidates, one or two trades; others trade in one of the two. A session ends, so the system may stop.
SPECIFICATION Spec
CONSTANTS
    a = a
    b = b
    Symbols = {a, b}
    Others = {b}
    MaxTrades = {1, 2}
    Restarts = 1
    Day = 3
    EodLeft = 1
    StopLeft = 1
CHECK_DEADLOCK FALSE
INVARIANTS
    TradeCap
PROPERTIES
    KeepsContract
    NoMiddaySale
    SessionEnds
