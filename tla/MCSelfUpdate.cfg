SPECIFICATION FairUpdateSpec
CONSTANTS
    Tasks <- MCTasks
    Newest = 2
    SchemaOf <- MCSchemaOf
    MaxExits = 1
    MaxPower = 1
INVARIANTS
    OneAttemptPerApproval
    UpdatedStaysInstalled
PROPERTIES
    ImplementsTransaction
    NothingReplacedUnderCore
    RolledBackIsComplete
    OrphanedForCause
    ReportStands
    UpdateIsReported
CHECK_DEADLOCK FALSE
