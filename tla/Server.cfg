SPECIFICATION ServerSpec
CONSTANTS
    a1 = a1
    a2 = a2
    a3 = a3
    b1 = b1
    b2 = b2
    r1 = r1
    r2 = r2
    r3 = r3
    References = {r1}
    InboundLoops = {a1, a2}
    Generators = {b1, b2}
    Syncs = {a1, a2}
    Nothing = Nothing
    Pieces = 2
    InboundAttempts = 2
    InboundBatch = 2
    MaxCopies = 2
    MaxRequests = 1
    Equipment = {a1, a2}
    Modelled = {a1, a2}
    StateRequests = {b1, b2}
    ModelStates = {"Run"}
    Legal = {}
    ReasonNames = {"Run"}
    NoState = NoState
    LogCap = 2
    MaxClock = 1
    MachineStates = {"Run", "Idle", "Down"}
    Moves <- MCMoves
    Calls = {a1, a2}
    NoReport = NoReport
    Keys = {r1}
    Writers = {a1, a2}
    NoRow = NoRow
    MaxCount = 2
    MaxMachine = 2
    PluginIds = {r1}
    ErpPlugins = {r1}
    Admins = {a1, a2}
    MaxLoads = 3
    Procs = {r1, r2, r3}
    NoProc = NoProc
    MaxQuickExits = 3
    Browsers = {a1, a2, a3}
    Publishers = {r1}
    Hole = Hole
    MaxEntries = 3
    ResultFiles = {r1}
    Pollers = {a1, a2}
    NoFile = NoFile
    MaxResults = 2
    Completions = {a1, a2}
    MaxReported = 2
    DirectCalls = {r1, r2}
    Queueable = {r1}
SYMMETRY Symmetry
CONSTRAINTS
    BoundRaces
    BoundCopies
INVARIANTS
    ProcessedMeansOrder
    PiecesExplained
    DoubledCopiesExplained
    LogFollowsEquipment
    LogFollowsMachine
    CountersAddUp
    OvercountExplained
    RunsAsRecorded
    BridgeFollowsPlugin
    MissedExplained
    ResultsExplained
    CompletionsReported
    CallsExplained
CHECK_DEADLOCK FALSE
