\* Nothing is left to do once the driver is stopped, or a write missed the frame.
CONSTANTS
    gpu_disp_modes <- MCStandard
    MinSize <- MCMin
    PostSize <- MCMin
    FirstDisplay <- MCFirst
    HostSizes <- MCHostSizes
    OFF = OFF
    NULL = NULL
    MaxChanges = 2
SPECIFICATION Spec
INVARIANTS DrawsInFrame CommittedIsShown HostSizeOffered
CHECK_DEADLOCK FALSE
