SPECIFICATION FairSpec
CONSTANTS
    CtrlNum = 2
    CursorNum = 1
    Pool = {p1, p2, p3}
    BigBufs = {}
    shape = shape
    present = present
    gl1 = gl1
    gl2 = gl2
    Clients = {present}
    Program <- AsyncProgram
    Cpus = {cpu1}
    ConfigBits <- QemuBits
    InOrder = TRUE
    KeepsUp = TRUE
    MaxChanges = 0
    NULL = NULL

PROPERTIES BuffersComeBack
