\* Liveness, with an order of somebody else that looks like ours. The call ends, so the system may stop.
SPECIFICATION FairSpec
CONSTANTS
    o1 = o1
    o2 = o2
    other = other
    None = None
    Ids <- OwnAndOther
    OtherIds <- Other
    Target = 1
    MaxAttempts = 2
    BackoffCap = 2
    Remarks = TRUE
    MaxCancels = 1
    JournalFails = FALSE
    MayCrash = FALSE
PROPERTIES
    CallEnds
CHECK_DEADLOCK FALSE
