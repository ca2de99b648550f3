CONSTANTS
    co = co
    a = a
    b = b
    adc = adc
    Host <- Machines
    Kind <- Kinds
    CoHost = co
    Mgr <- Managers
    NID = 2
    MaxCalls = 4
    MaxRestarts = 1
    NULL = NULL
SPECIFICATION FairSpec
CHECK_DEADLOCK FALSE
INVARIANTS NodesInv CrashExplained
PROPERTIES GetsToken Goes
