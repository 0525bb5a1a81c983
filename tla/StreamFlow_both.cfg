\* Data both ways over a transport of one frame, and slices larger than the window.
CONSTANTS
    InitWnd = 2
    MaxInt = 3
    Buf = 1
    Lens = {3}
    ReadLens = {1, 2}
    MaxBytes = 3
SPECIFICATION FairSpec
INVARIANTS TypeOK NeverOverflows WindowRestored
PROPERTIES WriteReturns ReadLoopContinues
\* The applications may stop.
CHECK_DEADLOCK FALSE
