\* A device that returns ids it was not given: 2 is out of range, 0 and 1 are no heads.
CONSTANTS
    Num = 2
    IdxMod = 4
    cmd = cmd
    attach = attach
    cursor = cursor
    table = table
    Bufs = {cmd, cursor}
    Req <- MCReq
    NULL = NULL
    BadIds = {0, 1, 2}
SPECIFICATION Spec
INVARIANTS DescriptorAccounting
