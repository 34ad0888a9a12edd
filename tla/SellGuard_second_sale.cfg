\* Two bought shares; the only surprise is a book that does not list an accepted order yet.
SPECIFICATION Spec
CONSTANTS
    o1 = o1
    o2 = o2
    o3 = o3
    None = None
    Ids <- Three
    Held = 0
    Bought = 2
    Remarks = TRUE
    Surprises <- LateBook
INVARIANTS
    NoSecondSale
SYMMETRY Same
