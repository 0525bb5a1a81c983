SPECIFICATION FairSpec
CONSTANTS
    InitWnd = 2
    MaxInt = 3
    Buf = 1
    Lens = {3}
    ReadLens = {1, 2}
    MaxBytes = 3
PROPERTIES ResetEndsWrites
CHECK_DEADLOCK FALSE
