SPECIFICATION Spec
CONSTANTS
    Rings = {r1, r2, r3, r4}
    Cmds = {c1, c2}
    MaxChanges = 1
    MaxPowerUps = 1
    NULL = NULL
SYMMETRY Interchangeable
INVARIANTS TypeOK MemoryOutlivesDevice HardwareInitIsTruthful FaultNeedsDisturbance WorkerGoneFirst JoinEnds
\* The system stops when the adapter is gone.
CHECK_DEADLOCK FALSE
