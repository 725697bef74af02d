CONSTANTS
    GetStates = {FALSE, TRUE}
    MaxPublished = 2
    MaxCalls = 2
    MaxFaults = 2
    MaxRaises = 1
    Radix = 2
    ByteRadix = 7
    Group = 4
    MaxSource = 5
    MaxScript = 2
    MaxMessage = 20
SPECIFICATION Spec
CHECK_DEADLOCK FALSE
INVARIANTS
    TypeOK
    PositionReached
    InOrderOnce
    DeltaMeetsReference
    FrameMeetsReference
PROPERTIES
    NeverBack
    RaisedComesAgain
    CatchesUp
