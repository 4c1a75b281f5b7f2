SPECIFICATION FairGateSpec
CONSTANTS
    Tasks <- MCOne
    Quick <- MCNone
    Short <- MCNone
    NSteps = 1
    MaxRetries = 1
    NoTask = NoTask
    Red <- MCRed
    Yellow <- MCYellow
    NRows = 2
    NoAction = NoAction
INVARIANTS
    SingleUse
    NoDuplicateAsk
PROPERTIES
    DecisionsStand
    LockdownStopsRed
    GateImplementsEngine
    RequestsEnd
