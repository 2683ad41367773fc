SPECIFICATION FairSpec
CONSTANTS
    Reads <- MCReads
    Small = {"rootfs"}
    MaxProcs = 5
    MaxFaults = 1
INVARIANTS TypeOK OkMeansUnpacked TarsApart
PROPERTIES RebootsUnmounted UserIsTold
CHECK_DEADLOCK FALSE
