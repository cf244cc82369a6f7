\* Two units or a lot, of a discrete order or of a batch order, the route with a loop.
SPECIFICATION Spec
CONSTANTS
    o1 = o1
    o2 = o2
    u1 = u1
    u2 = u2
    l1 = l1
    Orders = {o1, o2}
    Discrete = {o1}
    Units = {u1, u2}
    Lots = {l1}
    NoOrder = NoOrder
    NoStep = NoStep
    NoDisposition = NoDisposition
    Steps <- LoopSteps
    Dispositions <- LoopDispositions
    Route <- LoopRoute
    TransferSteps <- LoopTransfers
    MaxQuantity = 2
    MaxOpenRows = 2
    MaxCount = 2
SYMMETRY Symmetry
CONSTRAINT OneOrder
INVARIANTS
    RowsOnlyAtCurrentStep
    StepMatchesStatus
    OrderAccounting
PROPERTIES
    SettledForGood
    RefinesLifecycle
CHECK_DEADLOCK FALSE
