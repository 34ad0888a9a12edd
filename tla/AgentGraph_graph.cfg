SPECIFICATION Spec
CONSTANTS
    p1 = p1
    p2 = p2
    market = market
    social = social
    c1 = c1
    c2 = c2
    m1 = m1
    m2 = m2
    None = None
    Procs = {p1, p2}
    Analysts = {market, social}
    Tooled = {market}
    Configs = {c1, c2}
    Models = {m1, m2}
    Settings <- ThreeSettings
    ToolRounds = 1
    RecurLimit = 5
    MaxRuns = 3
    MaxFaults = 1
CHECK_DEADLOCK FALSE
INVARIANTS
    SoundDecision
    NothingRedone
    AnalystsWithinSteps
SYMMETRY Symmetry
