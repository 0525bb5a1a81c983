\* A header with two keys that differ in case only.
CONSTANTS
    Radix = 4
    PrioUnit = 2
    BlockLen = 2
    Writers = {w1}
    None = None
    Frames <- SameName
    MaxFrames = 2
SPECIFICATION Spec
INVARIANTS DuplicatesRefused
CHECK_DEADLOCK FALSE
