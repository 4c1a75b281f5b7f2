SPECIFICATION EscapeSpec
CONSTANTS
    word = word
    box = box
    Targets <- MCTargets
    Typed <- MCTyped
    ArmFor = 1
    Limited <- MCLimited
    Allowed <- MCAllowed
    Mentions <- MCTargets
    MaxSteps = 2
    Keep = 1
    OwnerWaits = 1
    StaleRetries = 1
    MaxTries = 2
PROPERTIES
    EscapeStopsTheRun
CHECK_DEADLOCK FALSE
