CONSTANTS
    GetStates = {FALSE}
    MaxPublished = 1
    MaxCalls = 1
    MaxFaults = 1
    MaxRaises = 1
    Radix = 2
    ByteRadix = 7
    Group = 4
    MaxSource = 5
    MaxScript = 2
    MaxMessage = 20
SPECIFICATION Spec
CHECK_DEADLOCK FALSE
PROPERTIES
    RaisedNeverCounts
