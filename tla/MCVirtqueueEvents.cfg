CONSTANTS
    Num = 2
    IdxMod = 4
SPECIFICATION Spec
INVARIANTS DeviceIsTold DriverIsTold
