\* One writer, as the Stream contract allows.
CONSTANTS
    Writers = {w1}
    Width = 4
    InitWnd = 3
    Asks = {1, 2, 7}
    Deltas = {0, 1, 4, 7, 8, 14, 15}
    Causes = {errFlowControl, errClosed}
    FlowErr = errFlowControl
    Open = NoError
    MaxCredit = 20
SPECIFICATION FairSpec
INVARIANTS TypeOK WindowRespected CounterExact NoLostWakeup
PROPERTIES DecReturns ImplementsSendWindow
