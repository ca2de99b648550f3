CONSTANTS
    a = a
    b = b
    Client = {a, b}
    Interval <- Intervals
    numPackets = 2
    MaxBeats = 5
    NULL = NULL
SPECIFICATION Spec
CHECK_DEADLOCK FALSE
INVARIANTS TimerInv OnBeat
