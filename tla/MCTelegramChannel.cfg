SPECIFICATION FairChannelSpec
CONSTANTS
    Messages = 3
    Taps <- MCTaps
    MaxCrashes = 1
    MaxHiccups = 1
    Texts = 3
    MaxRefused = 1
INVARIANTS
    MessagesArriveOnce
    
PROPERTIES
    EveryMessageArrives
CHECK_DEADLOCK FALSE
