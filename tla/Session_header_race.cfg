\* Open racing the end of the connection, and a WINDOW_UPDATE that overflows.
CONSTANTS
    Locals = {l1}
    Remotes = {}
    None = None
    IsServer = FALSE
    DefaultWnd = 1
    MaxInt = 3
    WireIds = {1}
    Settings = {}
    Deltas = {3}
    Lens = {}
    MaxFrames = 1
    MaxCalls = 1
SPECIFICATION Spec
INVARIANTS HeaderNeverStranded
CHECK_DEADLOCK FALSE
