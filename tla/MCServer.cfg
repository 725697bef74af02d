CONSTANTS
    c1 = c1
    c2 = c2
    s1 = s1
    s2 = s2
    Channels <- SomeChannels
    Subs <- SomeSubs
    MaxId = 3
    Worlds <- EachAndBoth
SYMMETRY Alike
SPECIFICATION Spec
CHECK_DEADLOCK FALSE
INVARIANTS
    TypeOK
    ServerPositionReached
    ServerInOrderOnce
    NothingLeftRegistered
    RoutesRight
