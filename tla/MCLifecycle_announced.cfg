CONSTANTS
    Apps <- PlainApp
    MaxCalls = 1
    MaxFaults = 2
SPECIFICATION Spec
CHECK_DEADLOCK FALSE
INVARIANTS
    ConnectingAnnounced
