SPECIFICATION CheckSpec
CONSTANTS
    EVT1 = EVT1
    EVT2 = EVT2
    AMB1 = AMB1
    Order <- MCOrder
    Contracts = {"prompt-08-25", "prompt-09-01"}
    MaxAttempts = 4
    Missing = Missing
    Garbled = Garbled
INVARIANT CheckTypeOK
INVARIANT PassIsEarned
INVARIANT NothingAskedTwice
PROPERTY ProgressKept
