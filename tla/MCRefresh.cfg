CONSTANTS
    MaxCommands = 3
    MaxPushes = 2
    MaxFaults = 3
    Chains = {"client", "subscription"}
SPECIFICATION Spec
CHECK_DEADLOCK FALSE
INVARIANTS
    TypeOK
    OneChain
    PushesWait
PROPERTIES
    ResolvedOnce
    NobodyWaitsForever
