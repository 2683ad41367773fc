SPECIFICATION Spec
CONSTANTS
    SectorSize = 2
    SectorsPerBlock = 2
    Direct = 1
    PerBlock = 2
    PartitionBlocks = 16
    Table <- MCTable
    Files <- MCFiles
    Requests <- MCRequests
    Room = 40
    MaxFaults = 2
INVARIANTS TypeOK NeverWrong ReadsWhole StaysInside
