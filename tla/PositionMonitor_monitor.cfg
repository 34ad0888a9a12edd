SPECIFICATION MonitorSpec
CONSTANTS
    o1 = o1
    SellIds <- OneId
    HeldAtStart <- NothingOrTwo
    MaxWrong = 1
    SellOnStop = {TRUE}
CHECK_DEADLOCK FALSE
INVARIANTS
    EndsClean
PROPERTIES
    OwnExitProvesNothing
    StopEnds
    EodExits
