SPECIFICATION Spec
CONSTANTS
    v1 = v1
    v2 = v2
    None = None
    Versions <- MCVersions
    Len <- MCLen
    Lba = 16
    Half = 7
    UOff = 1
    ZOff = 2
    IOff = 3
    QiBack = 2
    TailBack = 1
    Chunk = 2
    MaxImage = 8
    MaxRuns = 2
    MaxTroubles = 1
INVARIANTS TypeOK OkMeansInstalled OneCopySurvives GoodDeviceBoots
