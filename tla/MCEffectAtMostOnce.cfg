SPECIFICATION SkillSpec
CONSTANTS
    Tasks <- MCOne
    Quick <- MCNone
    Short <- MCNone
    NSteps = 1
    MaxRetries = 1
    NoTask = NoTask
    Red <- MCPush
    Yellow <- MCCommit
    Blue <- MCClose
    NRows = 2
    NoAction = NoAction
INVARIANTS EffectAtMostOnce
CONSTRAINT CallsBounded
