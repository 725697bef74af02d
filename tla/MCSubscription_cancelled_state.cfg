CONSTANTS
    Apps <- CancellingApp
    MaxCalls = 1
    MaxFaults = 2
    MaxSessions = 2
SPECIFICATION Spec
CHECK_DEADLOCK FALSE
INVARIANTS
    SubscribingHasWork
