\* One reader, as the Stream contract allows, and a three-byte buffer.
CONSTANTS
    Readers = {r1}
    Cap = 3
    WriteLens = {0, 1, 2, 3}
    ReadLens = {0, 1, 2, 4}
    Causes = {resetError, errClosed}
    EOF = EOF
    FlowErr = errFlowControl
    Open = NoError
    Pending = Pending
    Nil = Nil
    ErrReadEmpty = errReadEmpty
    MaxBytes = 7
SPECIFICATION FairSpec
INVARIANTS TypeOK Delivered EOFMeansAll NoLostWakeup
PROPERTIES ReadReturns ImplementsByteQueue
