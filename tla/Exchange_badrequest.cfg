\* A request that ReadRequest refuses: answered with what header?
CONSTANTS
    Wnd = 1
    Methods = {"GET"}
    Paths = {"/", "*"}
    Protos = {""}
    Lengths = {1}
    Bodies = {1}
    Codes = {200}
    Fields = {"none"}
    MaxWrites = 2
SPECIFICATION Spec
INVARIANTS RepliesReadable
\* The exchange ends.
CHECK_DEADLOCK FALSE
