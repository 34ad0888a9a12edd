SPECIFICATION RowsSpec
CONSTANTS
    o1 = o1
    o2 = o2
    p1 = p1
    p2 = p2
    NoOrder = NoOrder
    Procs = {p1, p2}
    Orders = {o1, o2}
    Size = 2
    MaxLots = 2
    MaxSales = 2
    MaxFaults = 2
SYMMETRY Symmetric
INVARIANTS
    RowsAddUp
    PnlOnce
    PnlComplete
CHECK_DEADLOCK FALSE
