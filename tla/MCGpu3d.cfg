SPECIFICATION Spec
CONSTANTS
    CtrlNum = 4
    CursorNum = 1
    Pool = {p1, p2, p3, p4, p5}
    BigBufs = {b1, b2}
    shape = shape
    present = present
    gl1 = gl1
    gl2 = gl2
    Clients = {gl1}
    Program <- TransferProgram
    Cpus = {cpu1}
    ConfigBits <- StandardBits
    InOrder = TRUE
    KeepsUp = TRUE
    MaxChanges = 1
    NULL = NULL

PROPERTIES CompletedIsReleased
\* A change that coincides with the last completions leaves them uncollected.
CHECK_DEADLOCK FALSE
