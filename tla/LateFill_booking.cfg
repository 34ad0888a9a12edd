\* Everything that can go wrong, with the lock usable for both processes or for neither. Booking ends, so the system may stop.
SPECIFICATION Spec
CONSTANTS
    daemon = daemon
    monitor = monitor
    None = None
    Procs <- Both
    First = daemon
    Requested = 2
    MaxKinds = 2
    LockChoices <- Uniform
    Troubles <- AllTroubles
INVARIANTS
    NothingCountedUnbooked
    DoubleBookingFlagged
    BookedOnce
    SettledMeansBooked
CHECK_DEADLOCK FALSE
