CONSTANTS
    m1 = m1
    mic = mic
    speaker = speaker
    Co = {c1}
    Machine = {m1}
    Managers <- MainCpp
    Copies = 2
    MaxLost = 1
    Nothing = Nothing
SPECIFICATION FairSpec
CHECK_DEADLOCK FALSE
INVARIANTS ListInv
PROPERTY Discovered
