SPECIFICATION EngineeringSpec
CONSTANTS
    d1 = d1
    d2 = d2
    NoStep = NoStep
    NoDisposition = NoDisposition
    Steps <- MCSteps
    Dispositions = {d1, d2}
    Sequence <- MCSequence
    Deletable = {"c"}
    Retirable = {d2}
    Flaggable = {"c"}
    a1 = a1
    a2 = a2
    r1 = r1
    r2 = r2
    RowIds = {r1, r2}
    Codes = {a1, a2}
    MdRequests = {a1, a2}
    Windows = {r1, r2}
    Instants = {1, 2}
    CapRequests = {a1, a2}
    MaterialCodes = {r1, r2}
    Pulls = {a1, a2}
    PageSize = 1
    MaxVersions = 1
    SeedRows = {r1, r2}
    Seeders = {a1, a2}
    NoSeedRow = NoSeedRow
    RouteIds = {r1, r2}
    ProductIds = {a1, a2}
    RouteEditors = {a1, a2}
    DayLength = 4
    Rotations <- MCRotations
    RotationStart = 2
    Froms = {4, 5, 6, 7, 8, 9, 10, 11, 12, 13, 14, 15}
    Tos = {8, 9, 10, 15, 16, 18, 19, 20, 21, 24, 25, 26, 27, 28, 29, 30}
    Holidays <- MCHolidays
SYMMETRY Symmetry
CONSTRAINTS
    BoundPulls
    BoundImports
    BoundSteps
INVARIANTS
    ValidRoutesNavigate
    ValidRoutesAgreeOnEntry
    MasterDataExplained
    OverlapsExplained
    DefaultsExplained
    SchedulesExplained
    SyncExplained
    SeedsExplained
CHECK_DEADLOCK FALSE
