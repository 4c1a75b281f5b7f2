SPECIFICATION GateSpec
CONSTANTS
    Tasks <- MCOne
    Quick <- MCNone
    Short <- MCNone
    NSteps = 1
    MaxRetries = 0
    NoTask = NoTask
    Red <- MCRed
    Yellow <- MCYellow
    NRows = 2
    NoAction = NoAction
INVARIANTS
    NoStrandedWait
