SPECIFICATION FairSpec
CONSTANTS
    N = 3
    Media <- MCMedia
    TableOf <- MCTables
    Cells = 3
    Pool = 102400
    Mount = 352
    Node = 144
    MaxFaults = 1
INVARIANTS TypeOK FirstViableStarts KernelIsOwn RoomyNeverHangs
PROPERTIES SearchEnds ImplementsSearch
CHECK_DEADLOCK FALSE
