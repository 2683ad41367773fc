SPECIFICATION FairSpec
CONSTANTS
    fEmpty = fEmpty
    fShort = fShort
    fLong = fLong
    uShort = uShort
    uLong = uLong
    NoFrame = NoFrame
    Files <- MCFiles
    Size <- MCSize
    Uploads <- MCUploads
    UpAddr <- MCUpAddr
    UpSize <- MCUpSize
    DlAddr = 16
    W = 64
    HighPkt = 16
    FullPkt = 12
    Junk = {0, 1}
    Garbage <- MCGarbage
    MaxFrames = 3
    MaxResets = 1
    MaxAborts = 1
INVARIANTS TypeOK BootsIntact OutArmed UploadInOrder
PROPERTIES NoStrayWrites ImplementsService DownloadCompletes UploadCompletes
CHECK_DEADLOCK FALSE
