CONSTANTS
    Apps <- AllApps
    MaxCalls = 3
    MaxFaults = 2
    MaxSessions = 3
SPECIFICATION Spec
CHECK_DEADLOCK FALSE
INVARIANTS
    TypeOK
    SubscribedIsHeld
    NoSecondSubscribe
    NothingLeftOnServer
    FutureMatchesState
    NoTimerLeftBehind
    PromptHasWork
PROPERTIES
    ImplementsPromise
    Settles
