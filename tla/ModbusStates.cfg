SPECIFICATION ReportSpec
CONSTANTS
    a1 = a1
    a2 = a2
    MachineStates = {"Run", "Idle", "Down"}
    Moves <- MCMoves
    Calls = {a1, a2}
    NoReport = NoReport
INVARIANT TrackedAutomatically
CHECK_DEADLOCK FALSE
