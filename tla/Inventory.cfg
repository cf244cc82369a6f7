\* One lot, made, bought or both ways tracked; a RIP location and two shelves.
SPECIFICATION Spec
CONSTANTS
    m1 = m1
    rip = rip
    s1 = s1
    s2 = s2
    MaterialLots = {m1}
    Locations = {rip, s1, s2}
    Rip = {rip}
    Nowhere = Nowhere
    Counts <- MCCounts
    MaxQuantity = 2
    MaxStock = 2
    MaxReceipts = 2
    MaxUsed = 2
SYMMETRY Shelves
INVARIANTS
    LotTotalsAgree
    UnitsExistOnce
    BooksKept
    ShortagesAreUse
PROPERTIES
    GoneForGood
CHECK_DEADLOCK FALSE
