\* A server that opens two streams at once while its peer opens one, and tries
\* another under the same id.
CONSTANTS
    Locals = {l1, l2}
    Remotes = {r1, r2}
    None = None
    IsServer = TRUE
    DefaultWnd = 1
    MaxInt = 3
    WireIds = {1}
    Settings = {}
    Deltas = {}
    Lens = {}
    MaxFrames = 2
    MaxCalls = 0
SYMMETRY Symmetry
SPECIFICATION Spec
INVARIANTS OnlyClosedLeave
PROPERTIES SynOrder
\* The session ends, and with it every goroutine.
CHECK_DEADLOCK FALSE
