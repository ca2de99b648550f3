CONSTANTS
    co = co
    a = a
    b = b
    adc = adc
    Host <- Machines
    Kind <- Kinds
    CoHost = co
    Mgr <- Managers
    NID = 1
    MaxCalls = 3
    MaxRestarts = 0
    NULL = NULL
SPECIFICATION Spec
CHECK_DEADLOCK FALSE
INVARIANT EarlierModuleDeleted
