CONSTANTS
    Apps <- PlainApp
    MaxCalls = 1
    MaxFaults = 1
SPECIFICATION Spec
CHECK_DEADLOCK FALSE
INVARIANTS
    PingTimerOwned
