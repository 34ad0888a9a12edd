SPECIFICATION Spec
CONSTANTS
    daemon = daemon
    settle = settle
    here = here
    there = there
    Procs <- Two
    Machines = {here, there}
    Homes <- BothHomes
    Count = 2
    MaxEntries = 1
CHECK_DEADLOCK FALSE
INVARIANTS
    DecisionsKept
PROPERTIES
    SettledStays
