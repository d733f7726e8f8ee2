\* A ring of three: attach fills it alone, cmd and cursor, or cursor and table, share it.
CONSTANTS
    Num = 3
    IdxMod = 6
    cmd = cmd
    attach = attach
    cursor = cursor
    table = table
    Bufs = {cmd, attach, cursor, table}
    Req <- MCReq
    NULL = NULL
    BadIds = {}
SPECIFICATION Spec
INVARIANTS TypeOK DescriptorAccounting OnePlace DeviceSeesWholeBuffer
PROPERTY ImplementsExchange
