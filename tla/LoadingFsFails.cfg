SPECIFICATION Spec
CONSTANTS
    Reads <- MCReads
    Small = {"rootfs"}
    MaxProcs = 5
    MaxFaults = 1
INVARIANT OkMeansOk
CHECK_DEADLOCK FALSE
