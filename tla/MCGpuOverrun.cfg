SPECIFICATION Spec
CONSTANTS
    CtrlNum = 2
    CursorNum = 1
    Pool = {p1, p2, p3}
    BigBufs = {}
    shape = shape
    present = present
    gl1 = gl1
    gl2 = gl2
    Clients = {shape, present}
    Program <- OverrunProgram
    Cpus = {cpu1}
    ConfigBits <- QemuBits
    InOrder = FALSE
    KeepsUp = FALSE
    MaxChanges = 0
    NULL = NULL
SYMMETRY PoolSymmetry
INVARIANTS TypeOK OneOwner
\* GetBufNull stops the system.
CHECK_DEADLOCK FALSE
