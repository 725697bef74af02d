CONSTANTS
    Apps <- AllApps
    MaxCalls = 3
    MaxFaults = 2
SPECIFICATION Spec
CHECK_DEADLOCK FALSE
INVARIANTS
    TypeOK
    OneConnection
    NoLeakedTransport
    FutureMatchesState
    PatientHasWork
    NoTimerLeftBehind
    StopAnnounced
    NoRejectedTokenSent
PROPERTIES
    StaleAttemptsAreInert
    ImplementsConnectionStates
    ConnectingEnds
    ImplementsSessions
