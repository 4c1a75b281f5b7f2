SPECIFICATION FairSpec
CONSTANTS
    Tasks <- MCTasks
    Quick <- MCQuick
    Short <- MCShort
    NSteps = 2
    MaxRetries = 1
    NoTask = NoTask
INVARIANTS
    OneWorkerPerTask
    NoTaskLost
PROPERTIES
    CheckpointsSurvive
    ImplementsJob
    FailsForCause
    CancelIsKept
    EngineProgress
    PauseQuiesces
