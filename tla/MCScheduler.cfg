SPECIFICATION FairSpec
CONSTANTS
    fixed = fixed
    owners = owners
    watched = watched
    Jobs <- MCJobs
    Config <- MCConfig
    NoJob = NoJob
    MaxFaults = 1
INVARIANTS StartedOnce
PROPERTIES DisabledStaysOut NothingSkipped ReadyIsHandled
CONSTRAINT WatchedIsCondition
