\* Ids are reused at once: the bitmap has room for two.
CONSTANTS
    m1 = m1
    m2 = m2
    c = c
    MaxId = 2
    FrameMems = {m1, m2}
    CursorMem = c
    MaxShapes = 3
    CtrlBound = 5
    CrsrBound = 2
    CursorKeepsUp = TRUE
    NULL = NULL
SYMMETRY MemSymmetry
SPECIFICATION Spec
INVARIANTS TypeOK CommandsNameLiveResources IdsAccounted PutIdUnlessFailed HostMatchesDriver FreedBackingIsWithdrawn CursorShown PointerToMove
