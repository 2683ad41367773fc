SPECIFICATION FairSpec
CONSTANTS
    FsPkt = 8
    HsPkt = 64
    Size <- MCSize
    Requests <- MCRequests
    MaxResets = 1
    MaxAborts = 1
INVARIANTS TypeOK Answered SubstateClear ConfiguredIsSet
PROPERTIES EndsTogether TransfersEnd
CHECK_DEADLOCK FALSE
