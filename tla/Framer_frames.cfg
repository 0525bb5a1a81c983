\* Two goroutines that write three frames of any kind.
CONSTANTS
    Radix = 4
    PrioUnit = 2
    BlockLen = 2
    Writers = {w1, w2}
    None = None
    Frames <- AllFrames
    MaxFrames = 3
SYMMETRY Symmetry
SPECIFICATION Spec
INVARIANTS TypeOK ReadsWhatWasWritten OnlyProhibitedRefused NoStarvedRead
\* Everything may have been written and read.
CHECK_DEADLOCK FALSE
