\* Three SELLs of one held and one bought share: everything goes wrong except that the book lists every accepted order.
SPECIFICATION Spec
CONSTANTS
    o1 = o1
    o2 = o2
    o3 = o3
    None = None
    Ids <- Three
    Held = 1
    Bought = 1
    Remarks = TRUE
    Surprises <- OnTime
INVARIANTS
    NoSecondSale
    ExactOnceShown
PROPERTIES
    KnownExitsKeepHoldings
SYMMETRY Same
