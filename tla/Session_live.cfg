\* A client and one stream it opens: one frame, one call by each goroutine, with
\* fair goroutines.
CONSTANTS
    Locals = {l1}
    Remotes = {}
    None = None
    IsServer = FALSE
    DefaultWnd = 1
    MaxInt = 3
    WireIds = {1}
    Settings = {}
    Deltas = {0, 3}
    Lens = {2}
    MaxFrames = 1
    MaxCalls = 1
SPECIFICATION FairSpec
INVARIANTS TypeOK TeardownReleases HeaderReleased WireOrder
PROPERTIES CallsReturn ClosedStreamsLeave
\* The session ends, and with it every goroutine.
CHECK_DEADLOCK FALSE
