SPECIFICATION Spec
CONSTANTS
    CacheTicks = 2
    ReadTicks = 1
    Minute = 3
    MaxPerMinute = 2
    CoolTicks = 1
    LossLimit = 1
    MaxPnl = 1
INVARIANTS
    TypeOK
    HaltIsCurrent
    WaitIsExact
PROPERTIES
    LossesStop
