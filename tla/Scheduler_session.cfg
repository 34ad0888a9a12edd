SPECIFICATION Spec
CONSTANTS
    LastDay = 2
    Trading <- FirstDay
    Modes <- AllModes
    MaxDeaths = 2
    MaxStops = 1
INVARIANTS
    OneSessionADay
    Attended
PROPERTIES
    LaunchedInWindow
    Recovered
    ChildrenEnd
