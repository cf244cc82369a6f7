SPECIFICATION Spec
CONSTANTS
    d1 = d1
    d2 = d2
    NoStep = NoStep
    NoDisposition = NoDisposition
    Steps <- MCSteps
    Dispositions = {d1, d2}
    Sequence <- MCSequence
    Deletable = {"c"}
    Retirable = {d2}
    Flaggable = {"c"}
PROPERTIES
    EndsAtTerminalStep
CHECK_DEADLOCK FALSE
