\* Two units of one order, the route with a loop.
SPECIFICATION Spec
CONSTANTS
    o1 = o1
    u1 = u1
    u2 = u2
    Orders = {o1}
    Discrete = {o1}
    Units = {u1, u2}
    Lots = {}
    NoOrder = NoOrder
    NoStep = NoStep
    NoDisposition = NoDisposition
    Steps <- LoopSteps
    Dispositions <- LoopDispositions
    Route <- LoopRoute
    TransferSteps <- LoopTransfers
    MaxQuantity = 2
    MaxOpenRows = 2
    MaxCount = 2
SYMMETRY Symmetry
INVARIANTS
    StartedItemsCanMove
CHECK_DEADLOCK FALSE
