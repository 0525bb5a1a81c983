\* Bodies both ways, longer than the window, every kind of header, replies that
\* are refused, the loss of the connection and the end of the session.
CONSTANTS
    Wnd = 1
    Methods = {"GET", "HEAD", "POST"}
    Paths = {"/", "*"}
    Protos = {"", "2"}
    Lengths = {0, 1}
    Bodies = {1, 2}
    Codes = {101, 200, 204, 304}
    Fields = {"Connection", "Keep-Alive"}
    MaxWrites = 2
SPECIFICATION ChosenSpec
INVARIANTS TypeOK EOFMeansWhole UploadWhole LengthTruthful BodyWithinLength
PROPERTIES RoundTripReturns
\* The exchange ends.
CHECK_DEADLOCK FALSE
