SPECIFICATION FairSpec
CONSTANTS
    Names <- MCNames
    NoName = ""
    Root = 2
    Tree <- MCTree
    Paths <- MCPaths
    Misread <- MCMisread
    MaxNest = 4
    Longest = 20
    Pool = 60
    MaxFaults = 1
INVARIANTS TypeOK RightFile FindsFile NodesOwned CallsAreBounded
PROPERTIES LookupEnds ImplementsWalk
CHECK_DEADLOCK FALSE
