CONSTANTS
    mic = mic
    speaker = speaker
    ADC = {mic}
    DAC = {speaker}
    Managers <- MainCpp
    MaxMade <- Times
    Cells = 9
    NULL = NULL
SPECIFICATION Spec
CHECK_DEADLOCK FALSE
INVARIANTS MethodsInv BrokenExplained
PROPERTIES Delivered ImplementsMethodList
