\* One entry or exit of 3 shares, alone on the account: two attempts, two CancelledErrors, a kill at any step, journal lines that cannot be written. The call ends, so the system may stop.
SPECIFICATION Spec
CONSTANTS
    o1 = o1
    o2 = o2
    other = other
    None = None
    Ids <- OwnIds
    OtherIds <- Nobody
    Target = 3
    MaxAttempts = 2
    BackoffCap = 1
    Remarks = FALSE
    MaxCancels = 2
    JournalFails = TRUE
    MayCrash = TRUE
INVARIANTS
    NoOversell
    NeverOverReports
    ResultIsExact
    NothingForgotten
    JournalKnowsOrders
PROPERTIES
    NoOrderOverAnOpenOne
CHECK_DEADLOCK FALSE
