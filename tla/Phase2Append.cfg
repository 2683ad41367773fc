SPECIFICATION Spec
CONSTANTS
    N = 2
    Media <- MCMedia
    TableOf <- MCTables
    Cells = 3
    Pool = 102400
    Mount = 352
    Node = 144
    MaxFaults = 0
INVARIANT AppendIsOwn
CHECK_DEADLOCK FALSE
