\* A server and one stream of its peer: two frames, three calls by each of the
\* handler's goroutines.
CONSTANTS
    Locals = {}
    Remotes = {r1}
    None = None
    IsServer = TRUE
    DefaultWnd = 1
    MaxInt = 3
    WireIds = {1, 2}
    Settings = {2, 7}
    Deltas = {2}
    Lens = {1}
    MaxFrames = 2
    MaxCalls = 3
SPECIFICATION Spec
INVARIANTS NoLeak WireOrder
\* The session ends, and with it every goroutine.
CHECK_DEADLOCK FALSE
