SPECIFICATION FairSpec
CONSTANTS
    CtrlNum = 4
    CursorNum = 1
    Pool = {p1, p2, p3, p4, p5}
    BigBufs = {}
    shape = shape
    present = present
    gl1 = gl1
    gl2 = gl2
    Clients = {shape}
    Program <- TransferProgram
    Cpus = {cpu1}
    ConfigBits <- QemuBits
    InOrder = TRUE
    KeepsUp = TRUE
    MaxChanges = 1
    NULL = NULL

INVARIANTS NothingLost
PROPERTIES TransferWaitEnds ChangeIsNoticed
